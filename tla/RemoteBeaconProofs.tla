------------------------ MODULE RemoteBeaconProofs ------------------------
(***************************************************************************)
(* Proofs about the remote prover: what the service answers is of one      *)
(* state whatever the node says, and what anybody is answered verifies     *)
(* unless the node lied or changed its chain meanwhile.                    *)
(***************************************************************************)
EXTENDS RemoteBeacon, SequenceTheorems, WellFoundedInduction, TLAPS

-----------------------------------------------------------------------------
(* Chains and their prefixes                                               *)

Ordered(c) == \A i, j \in DOMAIN c : i < j => c[i].slot < c[j].slot

IsChain(c) == c \in Seq(States) /\ Ordered(c)

\* Blocks are states, and slots numbers.
LEMMA Blocks ==
  ASSUME NEW c \in Seq(States)
  PROVE  \A i \in DOMAIN c : c[i] \in States /\ c[i].slot \in Nat
<1>1. \A i \in DOMAIN c : c[i] \in States
  OBVIOUS
<1>2. \A s \in States : s.slot \in Nat
  BY DEF States
<1> QED BY <1>1, <1>2

\* A prefix of a chain keeps its length, its last block and its blocks.
LEMMA Prefix ==
  ASSUME NEW c \in Seq(States), NEW k \in 1..Len(c)
  PROVE  /\ SubSeq(c, 1, k) \in Seq(States) /\ Len(SubSeq(c, 1, k)) = k
         /\ Last(SubSeq(c, 1, k)) = c[k] /\ SubSeq(c, 1, k) # NoRoot
         /\ \A i \in 1..k : SubSeq(c, 1, k)[i] = c[i]
<1>1. /\ SubSeq(c, 1, k) \in Seq(States) /\ Len(SubSeq(c, 1, k)) = k
      /\ \A i \in 1..k : SubSeq(c, 1, k)[i] = c[i]
  OBVIOUS
<1>2. Last(SubSeq(c, 1, k)) = c[k]
  BY <1>1 DEF Last
<1>3. SubSeq(c, 1, k) # NoRoot
  BY <1>1 DEF NoRoot
<1> QED BY <1>1, <1>2, <1>3

\* A block after the last one keeps what was before it.
LEMMA PrefixOfAppend ==
  ASSUME NEW c \in Seq(States), NEW s \in States, NEW k \in 1..Len(c)
  PROVE  SubSeq(Append(c, s), 1, k) = SubSeq(c, 1, k)
<1>1. Append(c, s) \in Seq(States) /\ Len(Append(c, s)) = Len(c) + 1
  OBVIOUS
<1>2. \A i \in 1..k : Append(c, s)[i] = c[i]
  OBVIOUS
<1>3. k \in 1..Len(Append(c, s))
  BY <1>1
<1>4. /\ SubSeq(Append(c, s), 1, k) \in Seq(States) /\ Len(SubSeq(Append(c, s), 1, k)) = k
      /\ \A i \in 1..k : SubSeq(Append(c, s), 1, k)[i] = Append(c, s)[i]
  BY <1>1, <1>3, Prefix
<1>5. /\ SubSeq(c, 1, k) \in Seq(States) /\ Len(SubSeq(c, 1, k)) = k
      /\ \A i \in 1..k : SubSeq(c, 1, k)[i] = c[i]
  BY Prefix
<1> QED BY <1>2, <1>4, <1>5, SeqEqual

\* Prefixes of a chain are chains.
LEMMA PrefixIsChain ==
  ASSUME NEW c, IsChain(c), NEW k \in 1..Len(c)
  PROVE  IsChain(SubSeq(c, 1, k))
<1>1. c \in Seq(States) /\ Ordered(c)
  BY DEF IsChain
<1>2. /\ SubSeq(c, 1, k) \in Seq(States) /\ Len(SubSeq(c, 1, k)) = k
      /\ \A i \in 1..k : SubSeq(c, 1, k)[i] = c[i]
  BY <1>1, Prefix
<1>3. DOMAIN SubSeq(c, 1, k) = 1..k /\ 1..k \subseteq DOMAIN c
  BY <1>1, <1>2
<1> QED BY <1>1, <1>2, <1>3 DEF IsChain, Ordered

\* What a block makes of a state is a state.
LEMMA SuccessorIsState ==
  ASSUME NEW s \in States, NEW t \in Successors(s)
  PROVE  t \in States
<1>1. CASE t = s
  BY <1>1
<1>2. ASSUME NEW p \in Pairs, t = Accept(s, p)
      PROVE  t \in States
  <2>1. p.source \in Validators
    BY RemoteConstants
  <2>2. [s.val EXCEPT ![p.source] = "exiting"] \in [Validators -> Records]
    BY <2>1 DEF States, Records
  <2>3. Append(s.pend, p) \in Seq(Pairs)
    BY DEF States
  <2> QED BY <1>2, <2>2, <2>3 DEF Accept, States
<1>3. CASE s.pend # <<>> /\ t = [s EXCEPT !.pend = Tail(@)]
  <2>1. Tail(s.pend) \in Seq(Pairs)
    BY <1>3 DEF States
  <2> QED BY <1>3, <2>1 DEF States
<1> QED BY <1>1, <1>2, <1>3 DEF Successors

\* A chain grows by one block in a later slot.
LEMMA ChainExtended ==
  ASSUME NEW c, IsChain(c), Len(c) >= 1,
         NEW slot \in LaterSlots(c), NEW s \in Successors(Last(c))
  PROVE  /\ IsChain(Extended(c, slot, s)) /\ Len(Extended(c, slot, s)) = Len(c) + 1
         /\ \E t \in States : Extended(c, slot, s) = Append(c, t)
<1>1. c \in Seq(States) /\ Ordered(c) /\ Len(c) \in DOMAIN c
  BY DEF IsChain
<1>2. Last(c) \in States /\ Last(c) = c[Len(c)]
  BY <1>1 DEF Last
<1>3. s \in States /\ slot \in Nat /\ Last(c).slot < slot
  <2>1. s \in States
    BY <1>2, SuccessorIsState
  <2>2. Last(c).slot \in Nat
    BY <1>1, <1>2, Blocks
  <2> QED BY <2>1, <2>2, RemoteConstants DEF LaterSlots
<1> DEFINE t == [s EXCEPT !.slot = slot]
<1>4. t \in States /\ t.slot = slot
  BY <1>3 DEF States
<1> HIDE DEF t
<1>5. Append(c, t) \in Seq(States) /\ Len(Append(c, t)) = Len(c) + 1
  BY <1>1, <1>4
<1>6. \A i \in DOMAIN c : c[i] \in States /\ c[i].slot \in Nat /\ c[i].slot < slot
  <2> SUFFICES ASSUME NEW i \in DOMAIN c PROVE c[i] \in States /\ c[i].slot \in Nat /\ c[i].slot < slot
    OBVIOUS
  <2>1. c[i] \in States /\ c[i].slot \in Nat
    BY <1>1, Blocks
  <2>2. i = Len(c) \/ i < Len(c)
    BY <1>1
  <2>3. i < Len(c) => c[i].slot < Last(c).slot
    BY <1>1, <1>2 DEF Ordered
  <2>4. Last(c).slot \in Nat
    BY <1>1, <1>2, Blocks
  <2> QED BY <1>2, <1>3, <2>1, <2>2, <2>3, <2>4
<1>7. Ordered(Append(c, t))
  <2> SUFFICES ASSUME NEW i \in DOMAIN Append(c, t), NEW j \in DOMAIN Append(c, t), i < j
               PROVE  Append(c, t)[i].slot < Append(c, t)[j].slot
    BY DEF Ordered
  <2>1. i \in DOMAIN c /\ Append(c, t)[i] = c[i]
    BY <1>1, <1>4, <1>5
  <2>2. CASE j = Len(c) + 1
    <3>1. Append(c, t)[j] = t
      BY <1>1, <1>4, <2>2
    <3> QED BY <1>4, <1>6, <2>1, <3>1
  <2>3. CASE j # Len(c) + 1
    <3>1. j \in DOMAIN c /\ Append(c, t)[j] = c[j]
      BY <1>1, <1>4, <1>5, <2>3
    <3> QED BY <1>1, <2>1, <3>1 DEF Ordered
  <2> QED BY <2>2, <2>3
<1>8. Extended(c, slot, s) = Append(c, t)
  BY DEF Extended, t
<1> QED BY <1>4, <1>5, <1>7, <1>8 DEF IsChain

\* A block's slot names its state.
LEMMA StateOfBlock ==
  ASSUME IsChain(chain), NEW k \in DOMAIN chain
  PROVE  StateAt(chain[k].slot) = chain[k]
<1>1. chain \in Seq(States) /\ Ordered(chain) /\ chain[k] \in States
  BY DEF IsChain
<1> DEFINE P(i) == chain[i].slot <= chain[k].slot /\ (i < Len(chain) => chain[k].slot < chain[i + 1].slot)
<1>2. \A i \in DOMAIN chain : chain[i].slot \in Nat
  BY <1>1, Blocks
<1>3. P(k)
  BY <1>1, <1>2 DEF Ordered
<1>4. ASSUME NEW i \in DOMAIN chain, P(i) PROVE i = k
  <2>1. i \in Nat /\ k \in Nat /\ (i < k \/ k < i \/ i = k)
    BY <1>1
  <2>2. CASE i < k
    <3>1. i + 1 \in DOMAIN chain /\ (i + 1 < k \/ i + 1 = k)
      BY <1>1, <2>2
    <3>2. chain[i + 1].slot <= chain[k].slot
      BY <1>1, <1>2, <3>1 DEF Ordered
    <3>3. i < Len(chain)
      BY <1>1, <3>1
    <3> QED BY <1>2, <1>4, <3>1, <3>2, <3>3
  <2>3. CASE k < i
    BY <1>1, <1>2, <1>4, <2>3 DEF Ordered
  <2> QED BY <2>1, <2>2, <2>3
<1> DEFINE c == CHOOSE i \in DOMAIN chain : P(i)
<1>5. c \in DOMAIN chain /\ P(c)
  BY <1>3
<1>6. c = k
  BY <1>4, <1>5
<1>7. StateAt(chain[k].slot) = [chain[c] EXCEPT !.slot = chain[k].slot]
  BY DEF StateAt
<1> QED BY <1>1, <1>6, <1>7 DEF States

\* What is stored under a time stays stored when the chain grows.
LEMMA StoredKept ==
  ASSUME NEW c, NEW d, IsChain(c), IsChain(d), IsPrefix(c, d),
         NEW ts, Stored(c, ts) # NoRoot
  PROVE  Stored(d, ts) = Stored(c, ts)
<1>1. c \in Seq(States) /\ d \in Seq(States) /\ Ordered(d) /\ Len(c) <= Len(d)
  BY DEF IsChain, IsPrefix
<1>2. \A i \in 1..Len(c) : c[i] = d[i]
  <2>1. SubSeq(c, 1, Len(c)) = SubSeq(d, 1, Len(c))
    BY DEF IsPrefix
  <2> SUFFICES ASSUME NEW i \in 1..Len(c) PROVE c[i] = d[i]
    OBVIOUS
  <2>2. SubSeq(c, 1, Len(c))[i] = c[i] /\ SubSeq(d, 1, Len(c))[i] = d[i]
    BY <1>1
  <2> QED BY <2>1, <2>2
<1>3. PICK i \in 2..Len(c) : c[i].slot = ts /\ Stored(c, ts) = SubSeq(c, 1, i - 1)
  BY DEF Stored
<1>4. i \in 2..Len(d) /\ d[i].slot = ts
  BY <1>1, <1>2, <1>3
<1> DEFINE j == CHOOSE j \in 2..Len(d) : d[j].slot = ts
<1>5. j \in 2..Len(d) /\ d[j].slot = ts
  BY <1>4
<1>6. \A m \in DOMAIN d : d[m].slot \in Nat
  BY <1>1, Blocks
<1>7. j = i
  <2>1. i \in DOMAIN d /\ j \in DOMAIN d /\ i \in Nat /\ j \in Nat
    BY <1>1, <1>4, <1>5
  <2> QED BY <1>1, <1>4, <1>5, <1>6, <2>1 DEF Ordered
<1>8. Stored(d, ts) = SubSeq(d, 1, i - 1)
  BY <1>4, <1>7 DEF Stored
<1>9. SubSeq(d, 1, i - 1) = SubSeq(c, 1, i - 1)
  <2>1. i - 1 \in 1..Len(c) /\ i - 1 \in 1..Len(d)
    BY <1>1
  <2>2. /\ SubSeq(c, 1, i - 1) \in Seq(States) /\ Len(SubSeq(c, 1, i - 1)) = i - 1
        /\ \A m \in 1..i - 1 : SubSeq(c, 1, i - 1)[m] = c[m]
    BY <1>1, <2>1, Prefix
  <2>3. /\ SubSeq(d, 1, i - 1) \in Seq(States) /\ Len(SubSeq(d, 1, i - 1)) = i - 1
        /\ \A m \in 1..i - 1 : SubSeq(d, 1, i - 1)[m] = d[m]
    BY <1>1, <2>1, Prefix
  <2> QED BY <1>2, <2>1, <2>2, <2>3, SeqEqual
<1> QED BY <1>3, <1>8, <1>9

-----------------------------------------------------------------------------
(* The inductive invariant                                                 *)

PCs == {"idle", "head", "header", "genesis", "lookup", "pending", "tree", "rows", "done", "failed"}
Messages == [slot : Nat, parent : Seq(States), state : States]
HeaderAnswers == [root : Seq(States), message : Messages]

Handlers ==
  [q : Requests \cup {Idle}, pc : PCs, attempt : Nat, root : Seq(States), message : Messages,
   ts : Int, index : Nat, tree : States, rows : Seq(Records)]

CoreInv ==
  /\ IsChain(chain) /\ Len(chain) >= 2
  /\ IsChain(el) /\ Len(el) >= 2
  /\ genesis \in {Unknown, GenesisTime, FalseGenesis}
  /\ req \in Handlers /\ (req = Begun(Idle, "idle") \/ req.q \in Requests)
  /\ trouble \in {"none", "calls", "node"}
  /\ reorgs \in 0..MaxReorgs /\ lies \in 0..MaxLies

\* What the handler has checked by itself, whatever it was told.
RowsShow == \A i \in DOMAIN req.rows : req.rows[i] = req.message.state.val[req.q.validators[i]]

At(pcs) == req.pc \in pcs
Proofs == req.q.kind = "proofs"

HandlerInv ==
  /\ At({"header", "lookup", "pending", "tree"}) => Proofs
  /\ At({"rows"}) => Proofs \/ req.q.kind = "list"
  /\ At({"genesis"}) => req.q.kind # "list"
  /\ At({"rows"}) => Len(req.rows) < Len(req.q.validators)
  /\ At({"done"}) /\ req.q.kind # "info" => Len(req.rows) = Len(req.q.validators)
  /\ ~At({"rows", "done"}) => req.rows = <<>>
  /\ Proofs /\ At({"rows", "done"}) => req.tree = req.message.state
  /\ Proofs /\ At({"rows", "done"}) /\ req.q.by = "service" => RowsShow

\* What holds of its answers as long as the node keeps to the truth and to its chain.
HonestInv ==
  trouble # NodeTrouble =>
    /\ At({"header"}) => \E k \in 1..Len(chain) - 1 : req.root = SubSeq(chain, 1, k)
    /\ Proofs /\ At({"genesis", "lookup", "pending", "tree", "rows", "done"}) =>
         \E k \in 1..Len(chain) - 1 :
            req.root = SubSeq(chain, 1, k) /\ req.message = HeaderOf(SubSeq(chain, 1, k))
    /\ Proofs /\ At({"pending", "tree", "rows", "done"}) => Stored(el, req.ts) = req.root
    /\ Proofs /\ At({"tree", "rows", "done"}) => \A p \in req.q.pending : EntryProven(p)
    /\ req.q.kind = "list" /\ At({"rows", "done"}) =>
         \E k \in 1..Len(chain) : req.message = HeaderOf(SubSeq(chain, 1, k))
    /\ (Proofs \/ req.q.kind = "list") /\ At({"rows", "done"}) => RowsShow

RemoteInv == CoreInv /\ HandlerInv /\ HonestInv

\* A handler that begins or ends has got nothing yet.
LEMMA BegunHandler ==
  ASSUME NEW q \in Requests \cup {Idle}, NEW pc \in {"idle", "head", "failed"}
  PROVE  Begun(q, pc) \in Handlers
<1>1. BaseChain[1] \in States /\ 0 \in Nat /\ 0 \in Int
  BY RemoteConstants
<1>2. [slot |-> 0, parent |-> NoRoot, state |-> BaseChain[1]] \in Messages
  BY <1>1 DEF Messages, NoRoot
<1>3. NoRoot \in Seq(States) /\ <<>> \in Seq(Records) /\ pc \in PCs
  BY DEF NoRoot, PCs
<1> QED BY <1>1, <1>2, <1>3 DEF Begun, Handlers

LEMMA BegunKeeps ==
  ASSUME NEW q \in Requests \cup {Idle}, NEW pc \in {"idle", "head", "failed"},
         req' = Begun(q, pc)
  PROVE  HandlerInv' /\ HonestInv'
<1>1. req'.pc = pc /\ req'.rows = <<>>
  BY DEF Begun
<1> QED BY <1>1 DEF HandlerInv, HonestInv, At, Proofs

\* Headers, true or not, are headers.
LEMMA HeadersTyped ==
  ASSUME NEW root \in Seq(States), root # NoRoot
  PROVE  HonestHeader(root) \in HeaderAnswers
<1>1. Len(root) \in Nat /\ Len(root) >= 1
  BY EmptySeq DEF NoRoot
<1>2. root[Len(root)] \in States /\ root[Len(root)].slot \in Nat
  BY <1>1, Blocks
<1>3. SubSeq(root, 1, Len(root) - 1) \in Seq(States)
  BY <1>1
<1> QED BY <1>2, <1>3 DEF HonestHeader, HeaderOf, HeaderAnswers, Messages, Last, Front

LEMMA ClaimsTyped ==
  ASSUME IsChain(chain)
  PROVE  /\ Claimable \subseteq States
         /\ \A truth \in HeaderAnswers : OtherHeaders(truth) \subseteq HeaderAnswers
<1>1. chain \in Seq(States)
  BY DEF IsChain
<1>2. Claimable \subseteq States
  BY <1>1, RemoteConstants DEF Claimable
<1>3. ASSUME NEW truth \in HeaderAnswers, NEW x \in OtherHeaders(truth)
      PROVE  x \in HeaderAnswers
  <2>1. ASSUME NEW i \in DOMAIN chain, x = HonestHeader(SubSeq(chain, 1, i))
        PROVE  x \in HeaderAnswers
    <3>1. i \in 1..Len(chain)
      BY <1>1
    <3> QED BY <1>1, <2>1, <3>1, Prefix, HeadersTyped
  <2>2. ASSUME NEW s \in Claimable, x = [truth EXCEPT !.message.state = s]
        PROVE  x \in HeaderAnswers
    BY <1>2, <2>2 DEF HeaderAnswers, Messages
  <2> QED BY <1>3, <2>1, <2>2 DEF OtherHeaders
<1> QED BY <1>2, <1>3

\* The initial states.
LEMMA InitInv == Init => RemoteInv
<1> SUFFICES ASSUME Init PROVE RemoteInv
  OBVIOUS
<1>1. IsChain(BaseChain) /\ Len(BaseChain) >= 2
  BY RemoteConstants DEF IsChain, Ordered
<1>2. req \in Handlers /\ req = Begun(Idle, "idle")
  BY BegunHandler DEF Init
<1>3. reorgs \in 0..MaxReorgs /\ lies \in 0..MaxLies
  BY RemoteConstants DEF Init
<1>4. CoreInv
  BY <1>1, <1>2, <1>3 DEF Init, CoreInv
<1>5. req.pc = "idle" /\ req.rows = <<>>
  BY <1>2 DEF Begun
<1> QED BY <1>4, <1>5 DEF RemoteInv, HandlerInv, HonestInv, At, Proofs

-----------------------------------------------------------------------------
(* The chain's steps                                                       *)

\* A growing chain keeps every prefix.
LEMMA GrowingKeeps ==
  ASSUME RemoteInv, NEW t \in States, chain' = Append(chain, t),
         UNCHANGED <<el, genesis, req, trouble>>
  PROVE  HandlerInv' /\ HonestInv'
<1>1. chain \in Seq(States) /\ Len(chain') = Len(chain) + 1 /\ Len(chain) \in Nat
  BY DEF RemoteInv, CoreInv, IsChain
<1>2. \A k \in 1..Len(chain) : k \in 1..Len(chain') - 1 /\ k \in 1..Len(chain') /\ SubSeq(chain', 1, k) = SubSeq(chain, 1, k)
  BY <1>1, PrefixOfAppend
<1>3. \A k \in 1..Len(chain) - 1 : k \in 1..Len(chain)
  BY <1>1
<1>4. HandlerInv'
  BY DEF RemoteInv, HandlerInv, At, Proofs, RowsShow
<1>5. HonestInv'
  <2> SUFFICES ASSUME trouble # NodeTrouble PROVE HonestInv'
    BY DEF HonestInv, NodeTrouble
  <2>1. \A p : EntryProven(p) => EntryProven(p)'
    BY DEF EntryProven
  <2>2. RowsShow => RowsShow'
    BY DEF RowsShow
  <2>3. req' = req /\ el' = el
    OBVIOUS
  <2> QED BY <1>2, <1>3, <2>1, <2>2, <2>3 DEF RemoteInv, HonestInv, At, Proofs
<1> QED BY <1>4, <1>5

LEMMA NewBlockInv == RemoteInv /\ NewBlock => RemoteInv'
<1> SUFFICES ASSUME RemoteInv, NewBlock PROVE RemoteInv'
  OBVIOUS
<1>1. IsChain(chain) /\ Len(chain) >= 1 /\ Len(chain) \in Nat
  BY DEF RemoteInv, CoreInv, IsChain
<1>2. PICK slot \in LaterSlots(chain), s \in Successors(Last(chain)) : chain' = Extended(chain, slot, s)
  BY DEF NewBlock
<1>3. /\ IsChain(chain') /\ Len(chain') = Len(chain) + 1
      /\ \E t \in States : chain' = Append(chain, t)
  BY <1>1, <1>2, ChainExtended
<1>4. CoreInv'
  BY <1>1, <1>3 DEF RemoteInv, CoreInv, NewBlock
<1>5. HandlerInv' /\ HonestInv'
  BY <1>3, GrowingKeeps DEF NewBlock
<1> QED BY <1>4, <1>5 DEF RemoteInv

\* A reorganisation is trouble, so that only what the handler checked remains.
LEMMA ReorgInv == RemoteInv /\ Reorg => RemoteInv'
<1> SUFFICES ASSUME RemoteInv, Reorg PROVE RemoteInv'
  OBVIOUS
<1>1. IsChain(chain) /\ chain \in Seq(States) /\ Len(chain) \in Nat
  BY DEF RemoteInv, CoreInv, IsChain
<1>2. PICK n \in 2..Len(chain) - 1 : 
        \E slot \in LaterSlots(SubSeq(chain, 1, n)), s \in Successors(Last(SubSeq(chain, 1, n))) :
           chain' = Extended(SubSeq(chain, 1, n), slot, s)
  BY DEF Reorg
<1>3. n \in 1..Len(chain)
  BY <1>1
<1>4. IsChain(SubSeq(chain, 1, n)) /\ Len(SubSeq(chain, 1, n)) = n
  BY <1>1, <1>3, Prefix, PrefixIsChain
<1>5. IsChain(chain') /\ Len(chain') >= 2
  <2> DEFINE kept == SubSeq(chain, 1, n)
  <2>1. IsChain(kept) /\ Len(kept) = n /\ n \in Nat /\ n >= 1
    BY <1>1, <1>4
  <2>2. PICK slot \in LaterSlots(kept), s \in Successors(Last(kept)) : chain' = Extended(kept, slot, s)
    BY <1>2
  <2> HIDE DEF kept
  <2>3. IsChain(chain') /\ Len(chain') = Len(kept) + 1
    BY <2>1, <2>2, ChainExtended
  <2> QED BY <2>1, <2>3
<1>6. reorgs' \in 0..MaxReorgs
  BY RemoteConstants DEF RemoteInv, CoreInv, Reorg
<1>7. CoreInv'
  BY <1>5, <1>6 DEF RemoteInv, CoreInv, Reorg, NodeTrouble
<1>8. HandlerInv'
  BY DEF RemoteInv, HandlerInv, Reorg, At, Proofs, RowsShow
<1>9. HonestInv'
  BY DEF Reorg, HonestInv, NodeTrouble
<1> QED BY <1>7, <1>8, <1>9 DEF RemoteInv

\* The execution client catches up: what it stores it goes on storing.
LEMMA SyncInv == RemoteInv /\ Sync => RemoteInv'
<1> SUFFICES ASSUME RemoteInv, Sync PROVE RemoteInv'
  OBVIOUS
<1>1. IsChain(chain) /\ IsChain(el) /\ chain \in Seq(States) /\ Len(chain) \in Nat
  BY DEF RemoteInv, CoreInv, IsChain
<1>2. chain' = chain /\ el' = chain /\ req' = req
  BY DEF Sync
<1>3. CoreInv'
  BY <1>1 DEF RemoteInv, CoreInv, Sync, NodeTrouble
<1>4. HandlerInv'
  BY DEF RemoteInv, HandlerInv, Sync, At, Proofs, RowsShow
<1>5. ASSUME trouble' # NodeTrouble, trouble # NodeTrouble, IsPrefix(el, chain),
             Proofs, At({"pending", "tree", "rows", "done"})
      PROVE  Stored(chain, req.ts) = req.root
  <2>1. Stored(el, req.ts) = req.root
    BY <1>5 DEF RemoteInv, HonestInv
  <2>2. \E k \in 1..Len(chain) - 1 : req.root = SubSeq(chain, 1, k)
    BY <1>5 DEF RemoteInv, HonestInv, At
  <2>3. req.root # NoRoot
    BY <1>1, <2>2, Prefix
  <2> QED BY <1>1, <1>5, <2>1, <2>3, StoredKept
<1>6. HonestInv'
  <2> SUFFICES ASSUME trouble' # NodeTrouble PROVE HonestInv'
    BY DEF HonestInv
  <2>1. trouble # NodeTrouble /\ IsPrefix(el, chain)
    BY DEF Sync
  <2>2. \A p : EntryProven(p) => EntryProven(p)'
    BY <1>2 DEF EntryProven
  <2>3. RowsShow => RowsShow'
    BY <1>2 DEF RowsShow
  <2> QED BY <1>2, <1>5, <2>1, <2>2, <2>3 DEF RemoteInv, HonestInv, At, Proofs
<1> QED BY <1>3, <1>4, <1>6 DEF RemoteInv

-----------------------------------------------------------------------------
(* Calls                                                                   *)

\* Only the truth leaves no trouble.
LEMMA ToldTruth ==
  ASSUME CoreInv, NEW truth, NEW others, NEW x \in Answers(truth, others), Told(x, truth)
  PROVE  /\ lies' \in 0..MaxLies /\ trouble' \in {"none", "calls", "node"}
         /\ trouble' # NodeTrouble => x = truth /\ trouble # NodeTrouble
<1>1. lies \in 0..MaxLies /\ trouble \in {"none", "calls", "node"}
  BY DEF CoreInv
<1>2. CASE x = truth
  BY <1>1, <1>2 DEF Told
<1>3. CASE x # truth
  <2>1. lies < MaxLies
    BY <1>3 DEF Answers
  <2> QED BY <1>1, <1>3, <2>1, RemoteConstants DEF Told, NodeTrouble
<1> QED BY <1>2, <1>3

\* Only a request is handled.
LEMMA CallingRequest ==
  ASSUME CoreInv, req.pc # "idle" PROVE req.q \in Requests
BY DEF CoreInv, Begun

LEMMA StartInv == ASSUME RemoteInv, NEW q \in Requests, Start(q) PROVE RemoteInv'
<1>1. req' = Begun(q, "head") /\ req'.q = q
  BY DEF Start, Begun
<1>2. req' \in Handlers
  BY <1>1, BegunHandler
<1>3. CoreInv'
  BY <1>1, <1>2 DEF RemoteInv, CoreInv, Start, nodeVars
<1> QED BY <1>1, <1>3, BegunKeeps DEF RemoteInv

\* Giving up.
LEMMA FailedInv ==
  ASSUME RemoteInv, req.pc # "idle", req' = Failed, UNCHANGED <<nodeVars, lies>>,
         genesis' \in {Unknown, GenesisTime, FalseGenesis}, trouble' \in {"none", "calls", "node"}
  PROVE  RemoteInv'
<1>1. req.q \in Requests
  BY CallingRequest DEF RemoteInv
<1>2. req' = Begun(req.q, "failed") /\ req'.q = req.q
  BY DEF Failed, Begun
<1>3. req' \in Handlers
  BY <1>1, <1>2, BegunHandler
<1>4. CoreInv'
  BY <1>1, <1>2, <1>3 DEF RemoteInv, CoreInv, nodeVars
<1> QED BY <1>1, <1>2, <1>4, BegunKeeps DEF RemoteInv

LEMMA RateLimitedInv == RemoteInv /\ RateLimited => RemoteInv'
<1> SUFFICES ASSUME RemoteInv, RateLimited PROVE RemoteInv'
  OBVIOUS
<1>1. req.pc # "idle" /\ req \in Handlers /\ req.q \in Requests
  BY CallingRequest DEF RemoteInv, CoreInv, RateLimited, CallsNode, Calling
<1>2. CASE req.attempt < Retries[req.q.by]
  <2>1. req' = [req EXCEPT !.attempt = @ + 1] /\ UNCHANGED <<chain, el, reorgs, genesis, trouble, lies>>
    BY <1>2 DEF RateLimited, nodeVars
  <2>2. req' \in Handlers
    BY <1>1, <2>1 DEF Handlers
  <2>3. /\ req'.q = req.q /\ req'.pc = req.pc /\ req'.root = req.root /\ req'.message = req.message
        /\ req'.ts = req.ts /\ req'.index = req.index /\ req'.tree = req.tree /\ req'.rows = req.rows
    BY <1>1, <2>1 DEF Handlers
  <2>4. CoreInv'
    BY <1>1, <2>1, <2>2, <2>3 DEF RemoteInv, CoreInv
  <2>5. RowsShow => RowsShow'
    BY <2>3 DEF RowsShow
  <2>6. HandlerInv'
    BY <2>3, <2>5 DEF RemoteInv, HandlerInv, At, Proofs
  <2>7. \A p : EntryProven(p) => EntryProven(p)'
    BY <2>3 DEF EntryProven
  <2>8. HonestInv'
    BY <2>1, <2>3, <2>5, <2>7 DEF RemoteInv, HonestInv, At, Proofs, NodeTrouble
  <2> QED BY <2>4, <2>6, <2>8 DEF RemoteInv
<1>3. CASE ~(req.attempt < Retries[req.q.by])
  BY <1>1, <1>3, FailedInv DEF RateLimited, CallTrouble, RemoteInv, CoreInv
<1> QED BY <1>2, <1>3

LEMMA RefusedInv == RemoteInv /\ Refused => RemoteInv'
<1> SUFFICES ASSUME RemoteInv, Refused PROVE RemoteInv'
  OBVIOUS
<1>1. req.pc # "idle"
  BY DEF Refused, CallsNode, Calling
<1> QED BY <1>1, FailedInv DEF Refused, CallTrouble, RemoteInv, CoreInv

-----------------------------------------------------------------------------
(* A request's calls                                                       *)

\* The next call, with the retries counted anew.
LEMMA Going ==
  ASSUME req \in Handlers, NEW pc \in PCs
  PROVE  /\ Goto(pc) \in Handlers
         /\ Goto(pc).q = req.q /\ Goto(pc).pc = pc /\ Goto(pc).root = req.root
         /\ Goto(pc).message = req.message /\ Goto(pc).ts = req.ts /\ Goto(pc).index = req.index
         /\ Goto(pc).tree = req.tree /\ Goto(pc).rows = req.rows
BY DEF Goto, Handlers

\* The parent of the head is in the chain, below the head.
LEMMA GetHeadInv == RemoteInv /\ GetHead => RemoteInv'
<1> SUFFICES ASSUME RemoteInv, GetHead PROVE RemoteInv'
  OBVIOUS
<1>1. req \in Handlers /\ req.q \in Requests /\ req.rows = <<>> /\ req.pc = "head"
  BY CallingRequest DEF RemoteInv, CoreInv, HandlerInv, GetHead, At
<1>2. IsChain(chain) /\ chain \in Seq(States) /\ Len(chain) \in Nat /\ Len(chain) >= 2 /\ chain # NoRoot
  BY DEF RemoteInv, CoreInv, IsChain, NoRoot
<1> DEFINE truth == HonestHeader(chain)
<1>3. truth \in HeaderAnswers
  BY <1>2, HeadersTyped
<1>4. PICK x \in Answers(truth, OtherHeaders(truth)) :
        /\ Told(x, truth)
        /\ req' = IF req.q.kind = "proofs"
                  THEN [Goto("header") EXCEPT !.root = NewestProvable(x)]
                  ELSE IF req.q.kind = "list" THEN [Goto(RowsOrDone(0)) EXCEPT !.message = x.message]
                  ELSE Goto(GenesisOr("done"))
  BY DEF GetHead
<1>5. x \in HeaderAnswers
  BY <1>2, <1>3, ClaimsTyped DEF Answers
<1>6. truth.root = chain /\ truth.message = HeaderOf(chain) /\ truth.message.parent = SubSeq(chain, 1, Len(chain) - 1)
  BY DEF HonestHeader, HeaderOf, Front
<1> HIDE DEF truth
<1>7. lies' \in 0..MaxLies /\ trouble' \in {"none", "calls", "node"} /\ (trouble' # NodeTrouble => x = truth)
  BY <1>4, ToldTruth DEF RemoteInv
<1>8. x.root \in Seq(States) /\ x.message \in Messages /\ x.message.parent \in Seq(States)
  BY <1>5 DEF HeaderAnswers, Messages
<1>9. CASE Proofs
  <2>1. req' = [Goto("header") EXCEPT !.root = x.message.parent]
    BY <1>4, <1>9 DEF Proofs, NewestProvable
  <2>2. "header" \in PCs
    BY DEF PCs
  <2>3. req' \in Handlers /\ req'.q = req.q /\ req'.pc = "header" /\ req'.root = x.message.parent /\ req'.rows = <<>>
    BY <1>1, <1>8, <2>1, <2>2, Going DEF Handlers
  <2>4. CoreInv'
    BY <1>1, <1>7, <2>3 DEF RemoteInv, CoreInv, GetHead, nodeVars
  <2>5. HandlerInv'
    BY <1>9, <2>3 DEF HandlerInv, At, Proofs
  <2>6. HonestInv'
    <3>1. Len(chain) - 1 \in 1..Len(chain) - 1
      BY <1>2
    <3> QED BY <1>6, <1>7, <2>3, <3>1 DEF HonestInv, At, Proofs, GetHead, nodeVars
  <2> QED BY <2>4, <2>5, <2>6 DEF RemoteInv
<1>10. CASE req.q.kind = "list"
  <2> DEFINE pc == RowsOrDone(0)
  <2>1. req' = [Goto(pc) EXCEPT !.message = x.message]
    BY <1>4, <1>10
  <2>2. pc \in {"rows", "done"} /\ pc \in PCs /\ (pc = "rows" <=> 0 < Len(req.q.validators))
    BY DEF RowsOrDone, PCs
  <2>3. Len(req.q.validators) \in Nat
    BY <1>1, RemoteConstants
  <2> HIDE DEF pc
  <2>4. req' \in Handlers /\ req'.q = req.q /\ req'.pc = pc /\ req'.message = x.message /\ req'.rows = <<>>
    BY <1>1, <1>8, <2>1, <2>2, Going DEF Handlers
  <2>5. CoreInv'
    BY <1>1, <1>7, <2>4 DEF RemoteInv, CoreInv, GetHead, nodeVars
  <2>6. HandlerInv'
    BY <1>10, <2>2, <2>3, <2>4 DEF HandlerInv, At, Proofs, RowsShow
  <2>7. HonestInv'
    <3>1. Len(chain) \in 1..Len(chain) /\ SubSeq(chain, 1, Len(chain)) = chain
      BY <1>2, SubSeqFull
    <3>2. RowsShow'
      BY <2>4 DEF RowsShow
    <3>3. chain' = chain /\ req'.pc \in {"rows", "done"} /\ req'.q.kind = "list"
      BY <1>10, <2>2, <2>4 DEF GetHead, nodeVars
    <3>4. trouble' # NodeTrouble => req'.message = HeaderOf(SubSeq(chain, 1, Len(chain)))
      BY <1>6, <1>7, <2>4, <3>1
    <3>5. trouble' # NodeTrouble => \E k \in 1..Len(chain') : req'.message = HeaderOf(SubSeq(chain', 1, k))
      BY <3>1, <3>3, <3>4
    <3> QED BY <3>2, <3>3, <3>5 DEF HonestInv, At, Proofs
  <2> QED BY <2>5, <2>6, <2>7 DEF RemoteInv
<1>11. CASE req.q.kind = "info"
  <2> DEFINE pc == GenesisOr("done")
  <2>1. req' = Goto(pc)
    BY <1>4, <1>11
  <2>2. pc \in {"genesis", "done"} /\ pc \in PCs
    BY DEF GenesisOr, PCs
  <2> HIDE DEF pc
  <2>3. req' \in Handlers /\ req'.q = req.q /\ req'.pc = pc /\ req'.rows = <<>>
    BY <1>1, <2>1, <2>2, Going
  <2>4. CoreInv'
    BY <1>1, <1>7, <2>3 DEF RemoteInv, CoreInv, GetHead, nodeVars
  <2>5. HandlerInv'
    BY <1>11, <2>2, <2>3 DEF HandlerInv, At, Proofs
  <2>6. HonestInv'
    BY <1>11, <2>2, <2>3 DEF HonestInv, At, Proofs
  <2> QED BY <2>4, <2>5, <2>6 DEF RemoteInv
<1>12. req.q.kind \in {"proofs", "list", "info"}
  BY <1>1, RemoteConstants
<1> QED BY <1>9, <1>10, <1>11, <1>12 DEF Proofs

LEMMA GetHeaderInv == RemoteInv /\ GetHeader => RemoteInv'
<1> SUFFICES ASSUME RemoteInv, GetHeader PROVE RemoteInv'
  OBVIOUS
<1>1. /\ req \in Handlers /\ req.q \in Requests /\ req.rows = <<>> /\ req.pc = "header"
      /\ req.q.kind = "proofs" /\ req.root # NoRoot /\ req.root \in Seq(States)
  BY CallingRequest DEF RemoteInv, CoreInv, HandlerInv, GetHeader, At, Proofs, Handlers
<1>2. IsChain(chain)
  BY DEF RemoteInv, CoreInv
<1> DEFINE truth == HonestHeader(req.root)
           pc == GenesisOr("lookup")
<1>3. truth \in HeaderAnswers
  BY <1>1, HeadersTyped
<1>4. PICK x \in Answers(truth, OtherHeaders(truth)) :
        /\ Told(x, truth)
        /\ req' = [Goto(pc) EXCEPT !.root = x.root, !.message = x.message, !.ts = x.message.slot + 1]
  BY DEF GetHeader
<1>5. x \in HeaderAnswers
  BY <1>2, <1>3, ClaimsTyped DEF Answers
<1>6. truth.root = req.root /\ truth.message = HeaderOf(req.root)
  BY DEF HonestHeader
<1>7. pc \in {"genesis", "lookup"} /\ pc \in PCs
  BY DEF GenesisOr, PCs
<1> HIDE DEF truth, pc
<1>8. /\ lies' \in 0..MaxLies /\ trouble' \in {"none", "calls", "node"}
      /\ trouble' # NodeTrouble => x = truth /\ trouble # NodeTrouble
  BY <1>4, ToldTruth DEF RemoteInv
<1>9. x.root \in Seq(States) /\ x.message \in Messages /\ x.message.slot + 1 \in Int
  BY <1>5 DEF HeaderAnswers, Messages
<1>10. /\ req' \in Handlers /\ req'.q = req.q /\ req'.pc = pc /\ req'.root = x.root
       /\ req'.message = x.message /\ req'.rows = <<>>
  BY <1>1, <1>4, <1>7, <1>9, Going DEF Handlers
<1>11. CoreInv'
  BY <1>1, <1>8, <1>10 DEF RemoteInv, CoreInv, GetHeader, nodeVars
<1>12. HandlerInv'
  BY <1>1, <1>7, <1>10 DEF HandlerInv, At, Proofs
<1>13. HonestInv'
  <2> SUFFICES ASSUME trouble' # NodeTrouble PROVE HonestInv'
    BY DEF HonestInv
  <2>1. PICK k \in 1..Len(chain) - 1 : req.root = SubSeq(chain, 1, k)
    BY <1>1, <1>8 DEF RemoteInv, HonestInv, At
  <2>2. req'.root = SubSeq(chain, 1, k) /\ req'.message = HeaderOf(SubSeq(chain, 1, k))
    BY <1>6, <1>8, <1>10, <2>1
  <2>3. chain' = chain
    BY DEF GetHeader, nodeVars
  <2> QED BY <1>1, <1>7, <1>10, <2>2, <2>3 DEF HonestInv, At, Proofs
<1> QED BY <1>11, <1>12, <1>13 DEF RemoteInv

LEMMA GetGenesisInv == RemoteInv /\ GetGenesis => RemoteInv'
<1> SUFFICES ASSUME RemoteInv, GetGenesis PROVE RemoteInv'
  OBVIOUS
<1>1. req \in Handlers /\ req.q \in Requests /\ req.rows = <<>> /\ req.pc = "genesis"
  BY CallingRequest DEF RemoteInv, CoreInv, HandlerInv, GetGenesis, At
<1> DEFINE pc == IF req.q.kind = "info" THEN "done" ELSE "lookup"
<1>2. PICK x \in Answers(GenesisTime, {FalseGenesis}) : Told(x, GenesisTime) /\ genesis' = x
  BY DEF GetGenesis
<1>3. genesis' \in {Unknown, GenesisTime, FalseGenesis}
  BY <1>2 DEF Answers
<1>4. /\ lies' \in 0..MaxLies /\ trouble' \in {"none", "calls", "node"}
      /\ trouble' # NodeTrouble => trouble # NodeTrouble
  BY <1>2, ToldTruth DEF RemoteInv
<1>5. req' = Goto(pc) /\ pc \in PCs
  BY DEF GetGenesis, PCs
<1>6. /\ req' \in Handlers /\ req'.q = req.q /\ req'.pc = pc /\ req'.root = req.root
      /\ req'.message = req.message /\ req'.rows = <<>>
  BY <1>1, <1>5, Going
<1>7. CoreInv'
  BY <1>1, <1>3, <1>4, <1>6 DEF RemoteInv, CoreInv, GetGenesis, nodeVars
<1>8. req.q.kind \in {"proofs", "info"}
  BY <1>1, RemoteConstants DEF RemoteInv, HandlerInv, At
<1>9. HandlerInv'
  BY <1>1, <1>6, <1>8 DEF HandlerInv, At, Proofs
<1>10. HonestInv'
  <2> SUFFICES ASSUME trouble' # NodeTrouble, Proofs PROVE HonestInv'
    BY <1>6, <1>8 DEF HonestInv, At, Proofs
  <2>1. req'.pc = "lookup"
    BY <1>6 DEF Proofs
  <2>2. \E k \in 1..Len(chain) - 1 :
          req.root = SubSeq(chain, 1, k) /\ req.message = HeaderOf(SubSeq(chain, 1, k))
    BY <1>1, <1>4 DEF RemoteInv, HonestInv, At
  <2>3. chain' = chain
    BY DEF GetGenesis, nodeVars
  <2> QED BY <1>6, <2>1, <2>2, <2>3 DEF HonestInv, At, Proofs
<1> QED BY <1>7, <1>9, <1>10 DEF RemoteInv

\* The time found is one under which the root is stored.
LEMMA LookupInv == RemoteInv /\ Lookup => RemoteInv'
<1> SUFFICES ASSUME RemoteInv, Lookup PROVE RemoteInv'
  OBVIOUS
<1>1. /\ req \in Handlers /\ req.q \in Requests /\ req.rows = <<>> /\ req.pc = "lookup"
      /\ req.q.kind = "proofs" /\ req.ts \in Int
  BY CallingRequest DEF RemoteInv, CoreInv, HandlerInv, Lookup, At, Proofs, Handlers
<1>2. /\ chain' = chain /\ el' = el /\ reorgs' = reorgs /\ genesis' = genesis /\ lies' = lies
  BY DEF Lookup, nodeVars
<1>3. trouble \in {"none", "calls", "node"} /\ CallTrouble \in {"calls", "node"}
      /\ (CallTrouble # NodeTrouble => trouble # NodeTrouble)
  BY DEF RemoteInv, CoreInv, CallTrouble, NodeTrouble
<1>4. Genesis \in Int
  BY DEF RemoteInv, CoreInv, Genesis, Unknown, GenesisTime, FalseGenesis
<1>5. trouble # NodeTrouble =>
        \E k \in 1..Len(chain) - 1 :
           req.root = SubSeq(chain, 1, k) /\ req.message = HeaderOf(SubSeq(chain, 1, k))
  BY <1>1 DEF RemoteInv, HonestInv, At, Proofs
<1>6. PICK answered \in BOOLEAN :
        IF answered /\ Found(Stored(el, Genesis + req.ts))
        THEN /\ req' = [Goto(IF req.q.pending = {} THEN "tree" ELSE "pending") EXCEPT !.ts = Genesis + @]
             /\ UNCHANGED trouble
        ELSE /\ req' = IF req.ts + 1 < req.message.slot + Lookahead THEN [req EXCEPT !.ts = @ + 1] ELSE Failed
             /\ trouble' = IF answered /\ el = chain /\ ~TooLate THEN trouble ELSE CallTrouble
  BY DEF Lookup
<1>7. CASE answered /\ Found(Stored(el, Genesis + req.ts))
  <2> DEFINE pc == IF req.q.pending = {} THEN "tree" ELSE "pending"
  <2>1. req' = [Goto(pc) EXCEPT !.ts = Genesis + @] /\ trouble' = trouble /\ Stored(el, Genesis + req.ts) = req.root
    BY <1>6, <1>7 DEF Found
  <2>2. pc \in {"tree", "pending"} /\ pc \in PCs /\ (pc = "tree" => req.q.pending = {})
    BY DEF PCs
  <2>3. Genesis + req.ts \in Int
    BY <1>1, <1>4
  <2> HIDE DEF pc
  <2>4. /\ req' \in Handlers /\ req'.q = req.q /\ req'.pc = pc /\ req'.root = req.root
        /\ req'.message = req.message /\ req'.ts = Genesis + req.ts /\ req'.rows = <<>>
    BY <1>1, <2>1, <2>2, <2>3, Going DEF Handlers
  <2>5. CoreInv'
    BY <1>1, <1>2, <2>1, <2>4 DEF RemoteInv, CoreInv
  <2>6. HandlerInv'
    BY <1>1, <2>2, <2>4 DEF HandlerInv, At, Proofs
  <2>7. HonestInv'
    <3>1. Stored(el', req'.ts) = req'.root
      BY <1>2, <2>1, <2>4
    <3>2. req'.pc \in {"tree", "pending"} /\ (req'.pc = "tree" => req'.q.pending = {})
      BY <2>2, <2>4
    <3>3. trouble' # NodeTrouble =>
            \E k \in 1..Len(chain') - 1 :
               req'.root = SubSeq(chain', 1, k) /\ req'.message = HeaderOf(SubSeq(chain', 1, k))
      BY <1>2, <1>5, <2>1, <2>4
    <3> QED BY <1>1, <2>4, <3>1, <3>2, <3>3 DEF HonestInv, At, Proofs
  <2> QED BY <2>5, <2>6, <2>7 DEF RemoteInv
<1>8. CASE ~(answered /\ Found(Stored(el, Genesis + req.ts))) /\ req.ts + 1 < req.message.slot + Lookahead
  <2>1. req' = [req EXCEPT !.ts = @ + 1] /\ trouble' \in {"none", "calls", "node"}
        /\ (trouble' # NodeTrouble => trouble # NodeTrouble)
    BY <1>3, <1>6, <1>8
  <2>2. /\ req' \in Handlers /\ req'.q = req.q /\ req'.pc = "lookup" /\ req'.root = req.root
        /\ req'.message = req.message /\ req'.rows = <<>>
    BY <1>1, <2>1 DEF Handlers
  <2>3. CoreInv'
    BY <1>1, <1>2, <2>1, <2>2 DEF RemoteInv, CoreInv
  <2>4. HandlerInv'
    BY <1>1, <2>2 DEF HandlerInv, At, Proofs
  <2>5. HonestInv'
    BY <1>1, <1>2, <1>5, <2>1, <2>2 DEF HonestInv, At, Proofs
  <2> QED BY <2>3, <2>4, <2>5 DEF RemoteInv
<1>9. CASE ~(answered /\ Found(Stored(el, Genesis + req.ts))) /\ ~(req.ts + 1 < req.message.slot + Lookahead)
  <2>1. req' = Failed /\ trouble' \in {"none", "calls", "node"}
    BY <1>3, <1>6, <1>9
  <2> QED BY <1>1, <1>2, <2>1, FailedInv DEF RemoteInv, CoreInv, nodeVars
<1> QED BY <1>7, <1>8, <1>9

\* The state of the proven block is found under its slot.
LEMMA HonestState ==
  ASSUME RemoteInv, trouble # NodeTrouble,
         (Proofs /\ At({"pending", "tree", "rows"})) \/ (req.q.kind = "list" /\ At({"rows"}))
  PROVE  StateAt(req.message.slot) = req.message.state
<1>1. IsChain(chain) /\ chain \in Seq(States) /\ Len(chain) \in Nat
  BY DEF RemoteInv, CoreInv, IsChain
<1>2. PICK k \in 1..Len(chain) : req.message = HeaderOf(SubSeq(chain, 1, k))
  <2>1. CASE Proofs
    <3>1. PICK k \in 1..Len(chain) - 1 : req.message = HeaderOf(SubSeq(chain, 1, k))
      BY <2>1 DEF RemoteInv, HonestInv, At, Proofs
    <3>2. k \in 1..Len(chain)
      BY <1>1
    <3> QED BY <3>1, <3>2
  <2>2. CASE ~Proofs
    BY <2>2 DEF RemoteInv, HonestInv, At
  <2> QED BY <2>1, <2>2
<1>3. Last(SubSeq(chain, 1, k)) = chain[k] /\ k \in DOMAIN chain
  BY <1>1, Prefix
<1>4. req.message.slot = chain[k].slot /\ req.message.state = chain[k]
  BY <1>2, <1>3 DEF HeaderOf
<1> QED BY <1>1, <1>3, <1>4, StateOfBlock

\* A set of numbers up to a bound has a largest one.
LEMMA Largest ==
  ASSUME NEW n \in Nat, NEW S \in SUBSET (1..n), S # {}
  PROVE  \E j \in S : \A k \in S : k <= j
<1> DEFINE T == {n - j : j \in S}
           R == OpToRel(<, Nat)
<1>1. T \subseteq Nat /\ T # {}
  <2>1. \A j \in S : n - j \in Nat
    OBVIOUS
  <2>2. PICK j \in S : TRUE
    OBVIOUS
  <2>3. n - j \in T
    BY <2>2
  <2> QED BY <2>1, <2>3
<1>2. IsWellFoundedOn(R, Nat)
  BY NatLessThanWellFounded
<1>3. \A x, y \in Nat : y < x => <<y, x>> \in R
  BY DEF OpToRel
<1> HIDE DEF T, R
<1>4. PICK x \in T : \A y \in T : ~(<<y, x>> \in R)
  BY <1>1, <1>2, WFMin
<1>5. PICK j \in S : x = n - j
  BY DEF T
<1>6. \A k \in S : n - k \in T /\ n - k \in Nat
  BY <1>1 DEF T
<1>7. \A k \in S : ~(n - k < n - j)
  BY <1>1, <1>3, <1>4, <1>5, <1>6
<1> QED BY <1>7

\* The last entry of the pair, if there is one.
LEMMA LastEntryOfPair ==
  ASSUME NEW list \in Seq(Pairs), NEW p
  PROVE  /\ LastEntry(list, p) \in Nat
         /\ LastEntry(list, p) = 0 => \A j \in DOMAIN list : list[j] # p
         /\ LastEntry(list, p) # 0 => LastEntry(list, p) \in DOMAIN list /\ list[LastEntry(list, p)] = p
<1> DEFINE found == EntriesOf(list, p)
           P(j) == \A k \in found : k <= j
<1>1. found \subseteq 1..Len(list) /\ Len(list) \in Nat /\ DOMAIN list = 1..Len(list)
  BY DEF EntriesOf
<1>2. CASE found = {}
  BY <1>2 DEF LastEntry, EntriesOf
<1>3. CASE found # {}
  <2>1. \E j \in found : P(j)
    BY <1>1, <1>3, Largest
  <2>2. LastEntry(list, p) = CHOOSE j \in found : P(j)
    BY <1>3 DEF LastEntry
  <2>3. LastEntry(list, p) \in found
    BY <2>1, <2>2
  <2>4. LastEntry(list, p) \in DOMAIN list /\ list[LastEntry(list, p)] = p
    BY <2>3 DEF EntriesOf
  <2> QED BY <1>1, <2>3, <2>4
<1> QED BY <1>2, <1>3

\* The node has a state for every slot up to its head.
LEMMA StateTyped ==
  ASSUME IsChain(chain), Len(chain) >= 1, NEW slot \in Nat, HasState(slot)
  PROVE  StateAt(slot) \in States
<1>1. chain \in Seq(States) /\ Len(chain) \in Nat /\ DOMAIN chain = 1..Len(chain)
  BY DEF IsChain
<1>2. \A i \in DOMAIN chain : chain[i] \in States /\ chain[i].slot \in Nat
  BY <1>1, Blocks
<1> DEFINE S == {i \in 1..Len(chain) : chain[i].slot <= slot}
           P(i) == chain[i].slot <= slot /\ (i < Len(chain) => slot < chain[i + 1].slot)
<1>3. 1 \in S /\ S \in SUBSET (1..Len(chain))
  BY <1>1 DEF HasState
<1>4. PICK i \in S : \A k \in S : k <= i
  BY <1>1, <1>3, Largest
<1>5. i \in DOMAIN chain /\ P(i)
  <2>1. i \in 1..Len(chain) /\ chain[i].slot <= slot
    BY <1>4
  <2>2. ASSUME i < Len(chain) PROVE slot < chain[i + 1].slot
    <3>1. i + 1 \in 1..Len(chain) /\ i + 1 \notin S
      BY <1>1, <1>4, <2>1, <2>2
    <3>2. chain[i + 1].slot \in Nat
      BY <1>1, <1>2, <3>1
    <3> QED BY <3>1, <3>2
  <2> QED BY <1>1, <2>1, <2>2
<1> DEFINE c == CHOOSE j \in DOMAIN chain : P(j)
<1>6. c \in DOMAIN chain
  BY <1>5
<1>7. StateAt(slot) = [chain[c] EXCEPT !.slot = slot]
  BY DEF StateAt
<1> HIDE DEF c
<1> QED BY <1>2, <1>6, <1>7 DEF States

LEMMA GetPendingInv == RemoteInv /\ GetPending => RemoteInv'
<1> SUFFICES ASSUME RemoteInv, GetPending PROVE RemoteInv'
  OBVIOUS
<1>1. /\ req \in Handlers /\ req.q \in Requests /\ req.rows = <<>> /\ req.pc = "pending"
      /\ req.q.kind = "proofs" /\ req.message \in Messages /\ req.message.slot \in Nat
  BY CallingRequest DEF RemoteInv, CoreInv, HandlerInv, GetPending, At, Proofs, Handlers, Messages
<1>2. chain' = chain /\ el' = el /\ reorgs' = reorgs /\ genesis' = genesis
  BY DEF GetPending, nodeVars
<1>3. IsChain(chain) /\ Len(chain) >= 1 /\ HasState(req.message.slot)
  BY DEF RemoteInv, CoreInv, GetPending, IsChain
<1> DEFINE truth == StateAt(req.message.slot).pend
           others == {s.pend : s \in Claimable}
<1>4. PICK x \in Answers(truth, others) :
        /\ Told(x, truth)
        /\ \E p \in req.q.pending : req' = [Goto("tree") EXCEPT !.index = LastEntry(x, p)]
  BY DEF GetPending
<1>5. PICK p \in req.q.pending : req' = [Goto("tree") EXCEPT !.index = LastEntry(x, p)]
  BY <1>4
<1>6. x \in Seq(Pairs)
  <2>1. \A s \in States : s.pend \in Seq(Pairs)
    BY DEF States
  <2>2. StateAt(req.message.slot) \in States /\ Claimable \subseteq States
    BY <1>1, <1>3, StateTyped, ClaimsTyped
  <2> QED BY <1>4, <2>1, <2>2 DEF Answers
<1> HIDE DEF others
<1>7. /\ lies' \in 0..MaxLies /\ trouble' \in {"none", "calls", "node"}
      /\ trouble' # NodeTrouble => x = truth /\ trouble # NodeTrouble
  BY <1>4, ToldTruth DEF RemoteInv
<1> HIDE DEF truth
<1>8. LastEntry(x, p) \in Nat
  BY <1>6, LastEntryOfPair
<1>9. "tree" \in PCs
  BY DEF PCs
<1>10. /\ req' \in Handlers /\ req'.q = req.q /\ req'.pc = "tree" /\ req'.root = req.root
       /\ req'.message = req.message /\ req'.ts = req.ts /\ req'.index = LastEntry(x, p)
       /\ req'.rows = <<>>
  BY <1>1, <1>5, <1>8, <1>9, Going DEF Handlers
<1>11. CoreInv'
  BY <1>1, <1>2, <1>7, <1>10 DEF RemoteInv, CoreInv
<1>12. HandlerInv'
  BY <1>1, <1>10 DEF HandlerInv, At, Proofs
<1>13. HonestInv'
  <2> SUFFICES ASSUME trouble' # NodeTrouble PROVE HonestInv'
    BY DEF HonestInv
  <2>1. /\ \E k \in 1..Len(chain) - 1 :
             req.root = SubSeq(chain, 1, k) /\ req.message = HeaderOf(SubSeq(chain, 1, k))
        /\ Stored(el, req.ts) = req.root
    BY <1>1, <1>7 DEF RemoteInv, HonestInv, At, Proofs
  <2>2. x = req.message.state.pend
    <3>1. /\ trouble # NodeTrouble
          /\ (Proofs /\ At({"pending", "tree", "rows"})) \/ (req.q.kind = "list" /\ At({"rows"}))
      BY <1>1, <1>7 DEF At, Proofs
    <3>2. StateAt(req.message.slot) = req.message.state
      BY <3>1, HonestState
    <3> QED BY <1>7, <3>2 DEF truth
  <2>3. \A r \in req.q.pending : r = p
    BY <1>1, RemoteConstants
  <2>4. \A r \in req'.q.pending : EntryProven(r)'
    <3> SUFFICES EntryProven(p)'
      BY <1>10, <2>3
    <3>1. req'.message.state.pend = x
      BY <1>10, <2>2
    <3> QED BY <1>6, <1>10, <3>1, LastEntryOfPair DEF EntryProven
  <2> QED BY <1>1, <1>2, <1>10, <2>1, <2>4 DEF HonestInv, At, Proofs
<1> QED BY <1>11, <1>12, <1>13 DEF RemoteInv

LEMMA GetTreeInv == RemoteInv /\ GetTree => RemoteInv'
<1> SUFFICES ASSUME RemoteInv, GetTree PROVE RemoteInv'
  OBVIOUS
<1>1. /\ req \in Handlers /\ req.q \in Requests /\ req.rows = <<>> /\ req.pc = "tree"
      /\ req.q.kind = "proofs" /\ req.message \in Messages /\ req.message.slot \in Nat
  BY CallingRequest DEF RemoteInv, CoreInv, HandlerInv, GetTree, At, Proofs, Handlers, Messages
<1>2. chain' = chain /\ el' = el /\ reorgs' = reorgs /\ genesis' = genesis
  BY DEF GetTree, nodeVars
<1>3. IsChain(chain) /\ Len(chain) >= 1 /\ HasState(req.message.slot)
  BY DEF RemoteInv, CoreInv, GetTree, IsChain
<1> DEFINE truth == StateAt(req.message.slot)
           pc == RowsOrDone(0)
<1>4. PICK x \in Answers(truth, Claimable) :
        Told(x, truth) /\ req' = IF RootMatches(x, req.message) THEN [Goto(pc) EXCEPT !.tree = x] ELSE Failed
  BY DEF GetTree
<1>5. x \in States
  BY <1>1, <1>3, StateTyped, ClaimsTyped DEF Answers
<1> HIDE DEF truth
<1>6. /\ lies' \in 0..MaxLies /\ trouble' \in {"none", "calls", "node"}
      /\ trouble' # NodeTrouble => trouble # NodeTrouble
  BY <1>4, ToldTruth DEF RemoteInv
<1>7. Len(req.q.validators) \in Nat
  BY <1>1, RemoteConstants
<1>8. pc \in {"rows", "done"} /\ pc \in PCs /\ (pc = "rows" <=> 0 < Len(req.q.validators))
  BY DEF RowsOrDone, PCs
<1> HIDE DEF pc
<1>9. CASE x = req.message.state
  <2>1. req' = [Goto(pc) EXCEPT !.tree = x]
    BY <1>4, <1>9 DEF RootMatches
  <2>2. /\ req' \in Handlers /\ req'.q = req.q /\ req'.pc = pc /\ req'.root = req.root
        /\ req'.message = req.message /\ req'.ts = req.ts /\ req'.index = req.index
        /\ req'.tree = x /\ req'.rows = <<>>
    BY <1>1, <1>5, <1>8, <2>1, Going DEF Handlers
  <2>3. CoreInv'
    BY <1>1, <1>2, <1>6, <2>2 DEF RemoteInv, CoreInv
  <2>4. RowsShow'
    BY <2>2 DEF RowsShow
  <2>5. HandlerInv'
    BY <1>1, <1>7, <1>8, <1>9, <2>2, <2>4 DEF HandlerInv, At, Proofs
  <2>6. HonestInv'
    <3> SUFFICES ASSUME trouble' # NodeTrouble PROVE HonestInv'
      BY DEF HonestInv
    <3>1. /\ \E k \in 1..Len(chain) - 1 :
               req.root = SubSeq(chain, 1, k) /\ req.message = HeaderOf(SubSeq(chain, 1, k))
          /\ Stored(el, req.ts) = req.root
          /\ \A p \in req.q.pending : EntryProven(p)
      BY <1>1, <1>6 DEF RemoteInv, HonestInv, At, Proofs
    <3>2. \A p : EntryProven(p) => EntryProven(p)'
      BY <2>2 DEF EntryProven
    <3> QED BY <1>1, <1>2, <1>8, <2>2, <2>4, <3>1, <3>2 DEF HonestInv, At, Proofs
  <2> QED BY <2>3, <2>5, <2>6 DEF RemoteInv
<1>10. CASE x # req.message.state
  <2>1. req' = Failed /\ lies' \in 0..MaxLies
    BY <1>4, <1>6, <1>10 DEF RootMatches
  <2>2. req' = Begun(req.q, "failed") /\ req'.q = req.q /\ req' \in Handlers
    BY <1>1, <2>1, BegunHandler DEF Failed, Begun
  <2>3. CoreInv'
    BY <1>1, <1>2, <1>6, <2>2 DEF RemoteInv, CoreInv
  <2> QED BY <1>1, <2>2, <2>3, BegunKeeps DEF RemoteInv
<1> QED BY <1>9, <1>10

LEMMA GetRowInv == RemoteInv /\ GetRow => RemoteInv'
<1> SUFFICES ASSUME RemoteInv, GetRow PROVE RemoteInv'
  OBVIOUS
<1>1. /\ req \in Handlers /\ req.q \in Requests /\ req.rows \in Seq(Records) /\ req.pc = "rows"
      /\ req.message \in Messages /\ req.message.slot \in Nat /\ req.message.state \in States
      /\ (Proofs \/ req.q.kind = "list") /\ Len(req.rows) < Len(req.q.validators)
  BY CallingRequest DEF RemoteInv, CoreInv, HandlerInv, GetRow, At, Handlers, Messages
<1>2. chain' = chain /\ el' = el /\ reorgs' = reorgs /\ genesis' = genesis
  BY DEF GetRow, nodeVars
<1>3. IsChain(chain) /\ Len(chain) >= 1 /\ HasState(req.message.slot)
  BY DEF RemoteInv, CoreInv, GetRow, IsChain
<1> DEFINE n == Len(req.rows) + 1
           v == req.q.validators[n]
           truth == JsonOf(StateAt(req.message.slot), v)
           pc == RowsOrDone(n)
<1>4. PICK x \in Answers(truth, Records) :
        /\ Told(x, truth)
        /\ req' = IF LeafMatches(v, x) THEN [Goto(pc) EXCEPT !.rows = Append(@, x)] ELSE Failed
  BY DEF GetRow
<1>5. /\ req.q.validators \in Seq(Validators) /\ Len(req.q.validators) \in Nat
      /\ n \in Nat /\ n \in 1..Len(req.q.validators) /\ v \in Validators
  <2>1. req.q.validators \in Seq(Validators)
    BY <1>1, RemoteConstants
  <2> QED BY <1>1, <2>1
<1>6. x \in Records
  <2>1. StateAt(req.message.slot) \in States
    BY <1>1, <1>3, StateTyped
  <2>2. truth \in Records
    BY <1>5, <2>1 DEF States, JsonOf
  <2> QED BY <1>4, <2>2 DEF Answers
<1>7. /\ lies' \in 0..MaxLies /\ trouble' \in {"none", "calls", "node"}
      /\ trouble' # NodeTrouble => x = truth /\ trouble # NodeTrouble
  BY <1>4, ToldTruth DEF RemoteInv
<1>8. pc \in {"rows", "done"} /\ pc \in PCs /\ (pc = "rows" <=> n < Len(req.q.validators))
  BY DEF RowsOrDone, PCs
<1>9. trouble' # NodeTrouble => x = req.message.state.val[v]
  <2> SUFFICES ASSUME trouble' # NodeTrouble PROVE x = req.message.state.val[v]
    OBVIOUS
  <2>1. (Proofs /\ At({"pending", "tree", "rows"})) \/ (req.q.kind = "list" /\ At({"rows"}))
    BY <1>1 DEF At
  <2>2. StateAt(req.message.slot) = req.message.state
    BY <1>7, <2>1, HonestState
  <2> QED BY <1>7, <2>2 DEF JsonOf
<1> HIDE DEF truth, pc
<1>10. CASE LeafMatches(v, x)
  <2>1. req' = [Goto(pc) EXCEPT !.rows = Append(@, x)]
    BY <1>4, <1>10
  <2>2. Append(req.rows, x) \in Seq(Records) /\ Len(Append(req.rows, x)) = n
    BY <1>1, <1>6
  <2>3. /\ req' \in Handlers /\ req'.q = req.q /\ req'.pc = pc /\ req'.root = req.root
        /\ req'.message = req.message /\ req'.ts = req.ts /\ req'.index = req.index
        /\ req'.tree = req.tree /\ req'.rows = Append(req.rows, x)
    BY <1>1, <1>8, <2>1, <2>2, Going DEF Handlers
  <2>4. CoreInv'
    BY <1>1, <1>2, <1>7, <2>3 DEF RemoteInv, CoreInv
  <2>5. ASSUME RowsShow, x = req.message.state.val[v] PROVE RowsShow'
    <3> SUFFICES ASSUME NEW i \in 1..n PROVE Append(req.rows, x)[i] = req.message.state.val[req.q.validators[i]]
      BY <2>2, <2>3 DEF RowsShow
    <3>1. CASE i = n
      BY <1>1, <2>5, <3>1
    <3>2. CASE i # n
      <4>1. i \in DOMAIN req.rows /\ Append(req.rows, x)[i] = req.rows[i]
        BY <1>1, <3>2
      <4> QED BY <2>5, <4>1 DEF RowsShow
    <3> QED BY <3>1, <3>2
  <2>6. Proofs => req.tree = req.message.state
    BY <1>1 DEF RemoteInv, HandlerInv, At
  <2>7. Proofs /\ req.q.by = "service" => RowsShow'
    <3> SUFFICES ASSUME Proofs, req.q.by = "service" PROVE RowsShow'
      OBVIOUS
    <3>1. RowsShow
      BY <1>1 DEF RemoteInv, HandlerInv, At
    <3>2. x = req.message.state.val[v]
      BY <1>10, <2>6 DEF LeafMatches, LeafOf, Proofs
    <3> QED BY <2>5, <3>1, <3>2
  <2>8. HandlerInv'
    <3>1. pc = "done" => n = Len(req.q.validators)
      BY <1>5, <1>8
    <3>2. Len(req'.rows) = n
      BY <2>2, <2>3
    <3> HIDE DEF n, v
    <3> QED BY <1>1, <1>8, <2>3, <2>6, <2>7, <3>1, <3>2 DEF HandlerInv, At, Proofs
  <2>9. HonestInv'
    <3> SUFFICES ASSUME trouble' # NodeTrouble PROVE HonestInv'
      BY DEF HonestInv
    <3>1. RowsShow'
      <4>1. RowsShow
        BY <1>1, <1>7 DEF RemoteInv, HonestInv, At
      <4> QED BY <1>9, <2>5, <4>1
    <3>2. Proofs =>
            /\ \E k \in 1..Len(chain) - 1 :
                 req.root = SubSeq(chain, 1, k) /\ req.message = HeaderOf(SubSeq(chain, 1, k))
            /\ Stored(el, req.ts) = req.root
            /\ \A p \in req.q.pending : EntryProven(p)
      BY <1>1, <1>7 DEF RemoteInv, HonestInv, At
    <3>3. req.q.kind = "list" => \E k \in 1..Len(chain) : req.message = HeaderOf(SubSeq(chain, 1, k))
      BY <1>1, <1>7 DEF RemoteInv, HonestInv, At
    <3>4. \A p : EntryProven(p) => EntryProven(p)'
      BY <2>3 DEF EntryProven
    <3> HIDE DEF n, v
    <3> QED BY <1>1, <1>2, <1>8, <2>3, <3>1, <3>2, <3>3, <3>4 DEF HonestInv, At, Proofs
  <2> QED BY <2>4, <2>8, <2>9 DEF RemoteInv
<1>11. CASE ~LeafMatches(v, x)
  <2>1. req' = Failed
    BY <1>4, <1>11
  <2>2. req' = Begun(req.q, "failed") /\ req'.q = req.q /\ req' \in Handlers
    BY <1>1, <2>1, BegunHandler DEF Failed, Begun
  <2>3. CoreInv'
    BY <1>1, <1>2, <1>7, <2>2 DEF RemoteInv, CoreInv
  <2> QED BY <1>1, <2>2, <2>3, BegunKeeps DEF RemoteInv
<1> QED BY <1>10, <1>11

-----------------------------------------------------------------------------
(* The theorems                                                            *)

LEMMA StutterInv == RemoteInv /\ UNCHANGED vars => RemoteInv'
<1> SUFFICES ASSUME RemoteInv, UNCHANGED vars PROVE RemoteInv'
  OBVIOUS
<1>1. UNCHANGED <<chain, el, genesis, req, trouble, reorgs, lies>>
  BY DEF vars, nodeVars
<1>2. CoreInv' /\ HandlerInv'
  BY <1>1 DEF RemoteInv, CoreInv, HandlerInv, At, Proofs, RowsShow
<1>3. HonestInv'
  BY <1>1 DEF RemoteInv, HonestInv, At, Proofs, RowsShow, EntryProven
<1> QED BY <1>2, <1>3 DEF RemoteInv

(***************************************************************************)
(* What the remote prover relies on holds at every step of its handlers    *)
(* (remoteProofs and the routes around it), for any chain, requests and    *)
(* lies.                                                                   *)
(***************************************************************************)
THEOREM RemoteKept == Spec => []RemoteInv
<1>1. RemoteInv /\ [Next]_vars => RemoteInv'
  <2> SUFFICES ASSUME RemoteInv, [Next]_vars PROVE RemoteInv'
    OBVIOUS
  <2>1. CASE ChainNext
    BY <2>1, NewBlockInv, ReorgInv, SyncInv DEF ChainNext
  <2>2. CASE \E q \in Requests : Start(q)
    BY <2>2, StartInv
  <2>3. CASE CallNext
    BY <2>3, GetHeadInv, GetHeaderInv, GetGenesisInv, LookupInv, GetPendingInv, GetTreeInv,
       GetRowInv, RateLimitedInv, RefusedInv DEF CallNext
  <2>4. CASE UNCHANGED vars
    BY <2>4, StutterInv
  <2> QED BY <2>1, <2>2, <2>3, <2>4 DEF Next
<1> QED BY <1>1, InitInv, PTL DEF Spec

(***************************************************************************)
(* The variables keep their types.                                         *)
(***************************************************************************)
THEOREM RemoteTypeCorrect == Spec => []TypeOK
<1>1. RemoteInv => TypeOK
  BY DEF RemoteInv, CoreInv, IsChain, TypeOK, Handlers
<1> QED BY <1>1, RemoteKept, PTL

(***************************************************************************)
(* The fields that remote.ts answers are those of the state its proofs are *)
(* of, whatever the node says and however the chain reorganises.           *)
(***************************************************************************)
THEOREM OneState == Spec => []ProofsOfOneState
<1>1. RemoteInv => ProofsOfOneState
  BY DEF RemoteInv, HandlerInv, ProofsOfOneState, Answered, ShowsState, At, Proofs, RowsShow
<1> QED BY <1>1, RemoteKept, PTL

(***************************************************************************)
(* While the node keeps to the truth and its chain, what a request ends    *)
(* with verifies against EIP-4788, whatever blocks come between its calls. *)
(***************************************************************************)
THEOREM StableAnswers == Spec => []StableAnswersVerify
<1>1. RemoteInv => StableAnswersVerify
  <2> SUFFICES ASSUME RemoteInv, trouble # NodeTrouble PROVE StableAnswersVerify
    BY DEF StableAnswersVerify, Stable
  <2>1. chain \in Seq(States) /\ Len(chain) \in Nat
    BY DEF RemoteInv, CoreInv, IsChain
  <2>2. ASSUME Answered("proofs") PROVE Verifies
    <3>1. Proofs /\ At({"done"}) /\ At({"rows", "done"}) /\ Len(req.rows) = Len(req.q.validators)
      BY <2>2 DEF RemoteInv, HandlerInv, Answered, At, Proofs
    <3>2. PICK k \in 1..Len(chain) - 1 :
            req.root = SubSeq(chain, 1, k) /\ req.message = HeaderOf(SubSeq(chain, 1, k))
      BY <3>1 DEF RemoteInv, HonestInv, At
    <3>3. Stored(el, req.ts) = SubSeq(chain, 1, k) /\ RowsShow /\ \A p \in req.q.pending : EntryProven(p)
      BY <3>1, <3>2 DEF RemoteInv, HonestInv, At
    <3>4. k \in 1..Len(chain)
      BY <2>1
    <3>5. SubSeq(chain, 1, k) # NoRoot
      BY <2>1, <3>4, Prefix
    <3> QED BY <3>1, <3>2, <3>3, <3>5 DEF Verifies, ShowsState, RowsShow
  <2>3. ASSUME Answered("list") PROVE ShowsState(req.message.state)
    BY <2>3 DEF RemoteInv, HandlerInv, HonestInv, Answered, At, Proofs, ShowsState, RowsShow
  <2> QED BY <2>2, <2>3 DEF StableAnswersVerify
<1> QED BY <1>1, RemoteKept, PTL
=============================================================================
