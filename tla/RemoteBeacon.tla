---------------------------- MODULE RemoteBeacon ----------------------------
(***************************************************************************)
(* proof-generator/src/remote.ts with the routes of realServer.ts, and the *)
(* pages' copy of it (frontend/src/lib/beacon-proofs.ts): proofs of the    *)
(* newest provable state, put together from several answers of a beacon    *)
(* node and of an execution client.  "The node is NOT trusted": it may lie,*)
(* refuse, limit the rate and change its mind about the chain between two  *)
(* answers, and the execution client may lag behind.                       *)
(*                                                                         *)
(* A block is its post-state and is named by its root, which commits to    *)
(* all of its history: a root is the chain up to the block.  Times are     *)
(* slots.  Requests share nothing but the cached genesis time, so they are *)
(* looked at one at a time.                                                *)
(***************************************************************************)
EXTENDS Integers, Sequences, FiniteSets, SequencesExt

CONSTANTS
  Validators, \* indices
  Pairs,      \* consolidations [source, target] that may be requested
  Requests,   \* what may be asked of the service and of the pages' routes
  Lookahead,  \* slots from a block within which its child is looked for (16)
  Retries,    \* retries of a rate-limited call, by service (5) and page (4)
  BaseChain,  \* the chain when it is looked at first
  FakeStates, \* states a lying node makes up
  MaxSlot,    \* bound on the slots
  MaxReorgs,  \* bound on the reorganisations
  MaxLies     \* bound on the node's lies

Records == {"active", "exiting"}
States == [slot : Nat, val : [Validators -> Records], pend : Seq(Pairs)]

ASSUME RemoteConstants ==
  /\ Pairs \subseteq [source : Validators, target : Validators]
  /\ Requests \subseteq [by : {"service", "page"}, kind : {"proofs", "list", "info"},
                         validators : Seq(Validators), pending : SUBSET Pairs]
  /\ \A q \in Requests :
       (q.by = "page" => q.kind = "proofs") /\ (\A p, r \in q.pending : p = r)
  /\ Lookahead \in Nat /\ Retries \in [{"service", "page"} -> Nat]
  /\ FakeStates \subseteq States
  /\ BaseChain \in Seq(States) /\ Len(BaseChain) >= 2
  /\ \A i, j \in DOMAIN BaseChain : i < j => BaseChain[i].slot < BaseChain[j].slot
  /\ MaxSlot \in Nat /\ MaxReorgs \in Nat /\ MaxLies \in Nat

VARIABLES
  chain,   \* the node's chain
  el,      \* the execution client's chain
  genesis, \* the service's cached genesis time
  req,     \* the request and what its handler has got so far
  trouble, \* what has come in its way: "none", "calls" that fail, or "node": what it said
  reorgs,  \* reorganisations so far
  lies     \* lies so far

nodeVars == <<chain, el, reorgs>>
vars == <<nodeVars, genesis, req, trouble, lies>>

NoRoot == <<>>
Unknown == -1
GenesisTime == 0
FalseGenesis == 1

HeaderOf(root) == [slot |-> Last(root).slot, parent |-> Front(root), state |-> Last(root)]

\* The root stored under a time in EIP-4788: the parent of the block of that time.
Stored(view, ts) ==
  IF \E i \in 2..Len(view) : view[i].slot = ts
  THEN SubSeq(view, 1, (CHOOSE i \in 2..Len(view) : view[i].slot = ts) - 1)
  ELSE NoRoot

\* states/<slot>: that of an empty slot differs from its parent's in the slot.
HasState(slot) == chain[1].slot <= slot /\ slot <= Last(chain).slot
StateAt(slot) ==
  LET i == CHOOSE i \in DOMAIN chain :
             chain[i].slot <= slot /\ (i < Len(chain) => slot < chain[i + 1].slot)
  IN [chain[i] EXCEPT !.slot = slot]

Idle == [by |-> "service", kind |-> "info", validators |-> <<>>, pending |-> {}]

\* The state of a handler; root and message are those of the block it proves.
Begun(q, pc) ==
  [q |-> q, pc |-> pc, attempt |-> 0, root |-> NoRoot,
   message |-> [slot |-> 0, parent |-> NoRoot, state |-> BaseChain[1]],
   ts |-> 0, index |-> 0, tree |-> BaseChain[1], rows |-> <<>>]

Init ==
  /\ chain = BaseChain /\ el = BaseChain
  /\ genesis = Unknown
  /\ req = Begun(Idle, "idle")
  /\ trouble = "none" /\ reorgs = 0 /\ lies = 0

\* A call has failed, or come too early; the node has lied or changed its chain.
CallTrouble == IF trouble = "none" THEN "calls" ELSE trouble
NodeTrouble == "node"

-----------------------------------------------------------------------------
(* The chain                                                               *)

Accept(s, p) == [s EXCEPT !.val[p.source] = "exiting", !.pend = Append(@, p)]

\* What a block does to pending_consolidations.
Successors(s) ==
  {s} \cup {Accept(s, p) : p \in {p \in Pairs : s.val[p.source] = "active"}}
      \cup (IF s.pend = <<>> THEN {} ELSE {[s EXCEPT !.pend = Tail(@)]})

\* Slots may stay empty.
Extended(c, slot, s) == Append(c, [s EXCEPT !.slot = slot])
LaterSlots(c) == Last(c).slot + 1 .. MaxSlot

NewBlock ==
  /\ \E slot \in LaterSlots(chain), s \in Successors(Last(chain)) : chain' = Extended(chain, slot, s)
  /\ UNCHANGED <<el, reorgs, genesis, req, trouble, lies>>

\* The last blocks give way to another one.
Reorg ==
  /\ reorgs < MaxReorgs /\ reorgs' = reorgs + 1
  /\ \E n \in 2..Len(chain) - 1 :
       LET kept == SubSeq(chain, 1, n)
       IN \E slot \in LaterSlots(kept), s \in Successors(Last(kept)) : chain' = Extended(kept, slot, s)
  /\ trouble' = NodeTrouble
  /\ UNCHANGED <<el, genesis, req, lies>>

\* The execution client catches up; on a reorganisation, blocks are taken back.
Sync ==
  /\ el # chain
  /\ el' = chain
  /\ trouble' = IF IsPrefix(el, chain) THEN trouble ELSE NodeTrouble
  /\ UNCHANGED <<chain, reorgs, genesis, req, lies>>

-----------------------------------------------------------------------------
(* Calls                                                                   *)

Calling == req.pc \in {"head", "header", "genesis", "lookup", "pending", "tree", "rows"}
CallsNode == Calling /\ req.pc # "lookup"

\* The node tells the truth or something else.
Answers(truth, others) == {truth} \cup (IF lies < MaxLies THEN others ELSE {})
Told(x, truth) ==
  IF x = truth THEN UNCHANGED <<lies, trouble>>
  ELSE lies' = lies + 1 /\ trouble' = NodeTrouble

Failed == Begun(req.q, "failed")
Goto(pc) == [req EXCEPT !.pc = pc, !.attempt = 0]

\* get: a rate-limited call is repeated a few times.
RateLimited ==
  /\ CallsNode
  /\ IF req.attempt < Retries[req.q.by]
     THEN req' = [req EXCEPT !.attempt = @ + 1] /\ UNCHANGED trouble
     ELSE req' = Failed /\ trouble' = CallTrouble
  /\ UNCHANGED <<nodeVars, genesis, lies>>

\* Any other error is thrown and answered with status 500.
Refused ==
  /\ CallsNode
  /\ req' = Failed
  /\ trouble' = CallTrouble
  /\ UNCHANGED <<nodeVars, genesis, lies>>

-----------------------------------------------------------------------------
(* A request                                                               *)

Start(q) ==
  /\ ~Calling
  /\ req' = Begun(q, "head")
  /\ trouble' = IF genesis = FalseGenesis THEN "calls" ELSE "none"
  /\ UNCHANGED <<nodeVars, genesis, lies>>

\* What the node may say instead: another block's header, or another state under a root.
Claimable == FakeStates \cup {chain[i] : i \in DOMAIN chain}
HonestHeader(root) == [root |-> root, message |-> HeaderOf(root)]
OtherHeaders(truth) ==
  {HonestHeader(SubSeq(chain, 1, i)) : i \in DOMAIN chain}
    \cup {[truth EXCEPT !.message.state = s] : s \in Claimable}

\* Faulty variant: the head, whose child may not exist yet.
HeadItself(head) == head.root

\* provableBlockId: the parent of the head.
NewestProvable(head) == head.message.parent

\* genesisTime is asked for once; the pages have it in their configuration.
GenesisOr(pc) == IF req.q.by = "service" /\ genesis = Unknown THEN "genesis" ELSE pc

RowsOrDone(n) == IF n < Len(req.q.validators) THEN "rows" ELSE "done"

GetHead ==
  /\ req.pc = "head"
  /\ \E x \in Answers(HonestHeader(chain), OtherHeaders(HonestHeader(chain))) :
       /\ Told(x, HonestHeader(chain))
       /\ req' = IF req.q.kind = "proofs"
                 THEN [Goto("header") EXCEPT !.root = NewestProvable(x)]
                 ELSE IF req.q.kind = "list" THEN [Goto(RowsOrDone(0)) EXCEPT !.message = x.message]
                 ELSE Goto(GenesisOr("done"))
  /\ UNCHANGED <<nodeVars, genesis>>

\* The root is taken from the answer, too, and not recomputed.
GetHeader ==
  /\ req.pc = "header" /\ req.root # NoRoot
  /\ \E x \in Answers(HonestHeader(req.root), OtherHeaders(HonestHeader(req.root))) :
       /\ Told(x, HonestHeader(req.root))
       /\ req' = [Goto(GenesisOr("lookup"))
                    EXCEPT !.root = x.root, !.message = x.message, !.ts = x.message.slot + 1]
  /\ UNCHANGED <<nodeVars, genesis>>

GetGenesis ==
  /\ req.pc = "genesis"
  /\ \E x \in Answers(GenesisTime, {FalseGenesis}) :
       Told(x, GenesisTime) /\ genesis' = x
  /\ req' = Goto(IF req.q.kind = "info" THEN "done" ELSE "lookup")
  /\ UNCHANGED nodeVars

Genesis == IF req.q.by = "service" THEN genesis ELSE GenesisTime

Found(root) == root = req.root

\* The child may have come later than it is looked for.
TooLate == HasState(req.message.slot + Lookahead)

\* fourEightyEightTimestamp: one call for each slot after the block's; an error is no entry.
Lookup ==
  /\ req.pc = "lookup"
  /\ \E answered \in BOOLEAN :
       IF answered /\ Found(Stored(el, Genesis + req.ts))
       THEN /\ req' = [Goto(IF req.q.pending = {} THEN "tree" ELSE "pending") EXCEPT !.ts = Genesis + @]
            /\ UNCHANGED trouble
       ELSE /\ req' = IF req.ts + 1 < req.message.slot + Lookahead THEN [req EXCEPT !.ts = @ + 1] ELSE Failed
            /\ trouble' = IF answered /\ el = chain /\ ~TooLate THEN trouble ELSE CallTrouble
  /\ UNCHANGED <<nodeVars, genesis, lies>>

\* Faulty variant: an entry into the target.
AnyEntryIntoTarget(list, p) == {j \in DOMAIN list : list[j].target = p.target}

\* The entries of a pair in a list.
EntriesOf(list, p) == {j \in DOMAIN list : list[j] = p}

\* The last one counts; without one there is nothing to prove of it.
LastEntry(list, p) ==
  LET found == EntriesOf(list, p)
  IN IF found = {} THEN 0 ELSE CHOOSE j \in found : \A k \in found : k <= j

GetPending ==
  /\ req.pc = "pending" /\ HasState(req.message.slot)
  /\ LET truth == StateAt(req.message.slot).pend
     IN \E x \in Answers(truth, {s.pend : s \in Claimable}) :
          /\ Told(x, truth)
          /\ \E p \in req.q.pending : req' = [Goto("tree") EXCEPT !.index = LastEntry(x, p)]
  /\ UNCHANGED <<nodeVars, genesis>>

\* The tree rebuilt from the multiproof has the header's state root.
RootMatches(tree, message) == tree = message.state

GetTree ==
  /\ req.pc = "tree" /\ HasState(req.message.slot)
  /\ LET truth == StateAt(req.message.slot)
     IN \E x \in Answers(truth, Claimable) :
          /\ Told(x, truth)
          /\ req' = IF RootMatches(x, req.message)
                    THEN [Goto(RowsOrDone(0)) EXCEPT !.tree = x] ELSE Failed
  /\ UNCHANGED <<nodeVars, genesis>>

\* A validator in the node's JSON, and in a proof's leaf.
JsonOf(s, v) == s.val[v]
LeafOf(tree, v) == tree.val[v]

\* Faulty variant: as the pages do, also in the service.
LeafUnchecked(v, x) == TRUE

\* The service compares the JSON with the proven leaf; a list has nothing to compare with.
LeafMatches(v, x) ==
  req.q.by = "service" /\ req.q.kind = "proofs" => x = LeafOf(req.tree, v)

GetRow ==
  /\ req.pc = "rows" /\ HasState(req.message.slot)
  /\ LET v == req.q.validators[Len(req.rows) + 1]
         truth == JsonOf(StateAt(req.message.slot), v)
     IN \E x \in Answers(truth, Records) :
          /\ Told(x, truth)
          /\ req' = IF LeafMatches(v, x)
                    THEN [Goto(RowsOrDone(Len(req.rows) + 1)) EXCEPT !.rows = Append(@, x)]
                    ELSE Failed
  /\ UNCHANGED <<nodeVars, genesis>>

-----------------------------------------------------------------------------
ChainNext == NewBlock \/ Reorg \/ Sync

CallNext ==
  \/ GetHead \/ GetHeader \/ GetGenesis \/ Lookup \/ GetPending \/ GetTree \/ GetRow
  \/ RateLimited \/ Refused

Next == ChainNext \/ (\E q \in Requests : Start(q)) \/ CallNext

Spec == Init /\ [][Next]_vars

\* Calls are answered, with an error if need be; nobody has to ask.
FairSpec == Spec /\ WF_vars(CallNext)

-----------------------------------------------------------------------------
\* The variables have their types.
TypeOK ==
  /\ chain \in Seq(States) /\ el \in Seq(States) /\ Len(chain) >= 2 /\ Len(el) >= 2
  /\ genesis \in {Unknown, GenesisTime, FalseGenesis}
  /\ req = Begun(Idle, "idle") \/ req.q \in Requests
  /\ req.tree \in States /\ req.rows \in Seq(Records)
  /\ trouble \in {"none", "calls", "node"} /\ reorgs \in 0..MaxReorgs /\ lies \in 0..MaxLies

(***************************************************************************)
(* Whatever the node says and however the chain reorganises, the fields    *)
(* the service answers are those of the state its proofs are of            *)
(* (remote.ts: "the node's JSON must describe the proven leaf").           *)
(***************************************************************************)
Answered(kind) == req.pc = "done" /\ req.q.kind = kind

ShowsState(s) ==
  /\ Len(req.rows) = Len(req.q.validators)
  /\ \A i \in DOMAIN req.rows : req.rows[i] = s.val[req.q.validators[i]]

ProofsOfOneState ==
  Answered("proofs") /\ req.q.by = "service" =>
    req.tree = req.message.state /\ ShowsState(req.message.state)

(***************************************************************************)
(* Unless the node lied or the chain reorganised meanwhile, an answer      *)
(* verifies onchain although blocks came between any two calls: the header *)
(* is the one stored under the answered time, the fields and the entry are *)
(* of its state, an entry is answered whenever the pair is pending there,  *)
(* and a list shows the validators in one state.                           *)
(***************************************************************************)
Stable == trouble # NodeTrouble

EntryProven(p) ==
  IF req.index = 0 THEN \A j \in DOMAIN req.message.state.pend : req.message.state.pend[j] # p
  ELSE req.index \in DOMAIN req.message.state.pend /\ req.message.state.pend[req.index] = p

Verifies ==
  /\ Stored(el, req.ts) # NoRoot
  /\ req.message = HeaderOf(Stored(el, req.ts))
  /\ ShowsState(req.message.state)
  /\ \A p \in req.q.pending : EntryProven(p)

StableAnswersVerify ==
  Stable => /\ Answered("proofs") => Verifies
            /\ Answered("list") => ShowsState(req.message.state)

(***************************************************************************)
(* Every request ends, and ends with an answer unless something came in    *)
(* its way: a lie, now or about the genesis time, a reorganisation, errors *)
(* and rate limits, an execution client that lags, or a gap in the chain   *)
(* beyond the slots that are looked at.                                    *)
(***************************************************************************)
AnswersCome ==
  req.pc = "head" ~> req.pc = "done" \/ (req.pc = "failed" /\ trouble # "none")
=============================================================================
