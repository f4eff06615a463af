---------------------------- MODULE ProofService ----------------------------
(***************************************************************************)
(* The proof service of the local demo: proof-generator/src/server.ts with *)
(* simulate.ts and proofs.ts.  A simulated beacon state advances at every  *)
(* checkpoint and its block root is written into the EIP-4788 ring of a    *)
(* local fork (anvil, external).  Checkpoint handlers run one after the    *)
(* other (serial); fill-proofs handlers run between any two of their       *)
(* awaits.  A step is what a handler does from the answer to one call to   *)
(* the fork up to the next call, with the effect of the call answered.     *)
(* Time is counted in slots and the genesis is slot 0.                     *)
(*                                                                         *)
(* A root stands for the state it commits to.  A proof is a leaf with the  *)
(* tree its branch was read from: it verifies against a root if both are   *)
(* of that root's state.                                                   *)
(***************************************************************************)
EXTENDS Integers, Sequences, FiniteSets

CONSTANTS
  Validators,
  Personas,        \* validators snapshotted when the service starts
  CredsPrefix,     \* [Validators -> {1, 2}]
  InitialBalance,  \* [Validators -> Nat]
  BaseSlot,        \* slot of the real base state
  Fills,           \* fill-proofs requests, records [id, source, target]
  Checkpoints,     \* checkpoint requests, records [id, kind, source, target]
  ReplayPair,      \* [src, tgt] of the replayed mainnet consolidation, or NoPair
  ReplayWithdrawable,
  NoPair,
  LocalRoot,       \* the root a block mined on the fork carries
  SlotsPerEpoch, ExitLookahead, WithdrawabilityDelay,
  RingLength,      \* HISTORY_BUFFER_LENGTH
  Increment, MinActivation, MaxEffective,
  MaxDust,         \* the market's MAX_DUST_BALANCE
  FarFuture,
  MaxTime,         \* bound on the time at which users' blocks are mined
  MaxFailures      \* bound on the calls to the fork that fail

ASSUME ServiceConstants ==
  /\ Personas \subseteq Validators
  /\ CredsPrefix \in [Validators -> {1, 2}]
  /\ InitialBalance \in [Validators -> Nat]
  /\ \A r \in Fills \cup Checkpoints : r.source \in Validators /\ r.target \in Validators
  /\ \A c \in Checkpoints : c.kind \in {"accepted", "delivered"}
  /\ RingLength \in Nat \ {0} /\ SlotsPerEpoch \in Nat \ {0} /\ Increment \in Nat \ {0}
  /\ {BaseSlot, ReplayWithdrawable, FarFuture, ExitLookahead, WithdrawabilityDelay,
      MinActivation, MaxEffective} \subseteq Nat

VARIABLES
  sim,       \* the simulated state as last assigned
  tree,      \* the state last committed: what branches are read from
  simulated, \* the list of checkpoints served, as a number
  cache,     \* baseValidatorProofs
  clock,     \* timestamp of the fork's latest block
  nextTime,  \* set by setNextBlockTimestamp for one block; 0 when not set
  ring,      \* the fork's EIP-4788 ring: two storage slots for each index
  chain,     \* checkpoint requests chained by `serial`, the running one first
  handler,   \* [Checkpoints -> where its handler is]
  filling,   \* [Fills -> where its handler is]
  answers,   \* history: what checkpoint requests were served
  failures   \* calls to the fork that failed

simVars == <<sim, tree, simulated, cache>>
forkVars == <<clock, nextTime, ring>>
vars == <<simVars, forkVars, chain, handler, filling, answers, failures>>

EpochOf(slot) == slot \div SlotsPerEpoch
MinOf(a, b) == IF a <= b THEN a ELSE b
MaxOf(a, b) == IF a >= b THEN a ELSE b

Rounded(v, balance) ==
  MinOf(balance - (balance % Increment), IF CredsPrefix[v] = 2 THEN MaxEffective ELSE MinActivation)

\* The demo's data: nobody consolidates into a validator whose delivery is asked for, and
\* it holds less above its effective balance, which stays behind, than the market tolerates.
Deliveries == {c \in Checkpoints : c.kind = "delivered"}
Drainable(v) == InitialBalance[v] < Rounded(v, InitialBalance[v]) + MaxDust

ASSUME SourcesDrainable ==
  /\ MaxDust \in Nat \ {0}
  /\ \A c \in Deliveries : Drainable(c.source) /\ \A d \in Deliveries : c.source # d.target

BaseState ==
  [slot |-> BaseSlot,
   val |-> [v \in Validators |-> [withdrawable |-> FarFuture, balance |-> InitialBalance[v],
                                  eff |-> Rounded(v, InitialBalance[v])]],
   pend |-> <<>>]
BaseTimestamp == BaseSlot + 1

\* The real state after the block with the replayed request.
ReplayState ==
  [BaseState EXCEPT !.slot = BaseSlot + 2,
                    !.val[ReplayPair.src].withdrawable = ReplayWithdrawable,
                    !.pend = <<ReplayPair>>]

PairOf(c) == [src |-> c.source, tgt |-> c.target]
IsReplayed(c) == c.kind = "accepted" /\ PairOf(c) = ReplayPair

-----------------------------------------------------------------------------
(* Proofs                                                                  *)

\* Fields come from the view and the branch from the tree.
ValidatorProof(v) == [index |-> v, fields |-> sim.val[v], tree |-> tree]

Verifies(proof, root) == proof.tree = root /\ root.val[proof.index] = proof.fields

ServiceInit ==
  /\ sim = BaseState
  /\ tree = BaseState
  /\ simulated = 0
  /\ cache = [v \in Personas |-> [index |-> v, fields |-> BaseState.val[v], tree |-> BaseState]]
  /\ clock = BaseTimestamp
  /\ nextTime = 0
  /\ ring = [i \in 0..(RingLength - 1) |->
       IF i = BaseTimestamp % RingLength THEN [ts |-> BaseTimestamp, root |-> BaseState]
       ELSE [ts |-> 0, root |-> LocalRoot]]
  /\ chain = <<>>
  /\ handler = [c \in Checkpoints |-> [pc |-> "new"]]
  /\ filling = [f \in Fills |-> "new"]
  /\ answers = {}
  /\ failures = 0

-----------------------------------------------------------------------------
(* The simulated consensus layer                                           *)

QueueConsolidation(c) ==
  sim' = [sim EXCEPT
    !.val[c.source].withdrawable = EpochOf(sim.slot) + ExitLookahead + WithdrawabilityDelay,
    !.pend = Append(@, PairOf(c))]

ProcessConsolidation(c) ==
  LET moved    == MinOf(sim.val[c.source].balance, sim.val[c.source].eff)
      drained  == [sim.val EXCEPT ![c.source].balance = @ - moved]
      credited == [drained EXCEPT ![c.target].balance = @ + moved]
  IN sim' = [sim EXCEPT !.val =
       [v \in Validators |->
          IF v \in {c.source, c.target} THEN [credited[v] EXCEPT !.eff = Rounded(v, credited[v].balance)]
          ELSE credited[v]]]

\* Faulty variant: the slot does not follow the clock.
NextSlot(ts) == sim.slot + 1

SealedSlot(ts) == MaxOf(sim.slot + 1, ts)

\* Faulty variant: the changes are not committed to the tree.
SealUncommitted(ts) == sim' = [sim EXCEPT !.slot = SealedSlot(ts)] /\ tree' = tree

Seal(ts) == sim' = [sim EXCEPT !.slot = SealedSlot(ts)] /\ tree' = sim'

-----------------------------------------------------------------------------
(* The fork                                                                *)

\* A block is mined: at the time set for it if there is one.
BlockTimes(free) == IF nextTime # 0 THEN {nextTime} ELSE free

MineBlock(ts) ==
  /\ clock' = ts
  /\ nextTime' = 0
  /\ ring' = [ring EXCEPT ![ts % RingLength] = [ts |-> ts, root |-> LocalRoot]]

\* Somebody's transaction.
UserBlock ==
  /\ clock < MaxTime
  /\ \E ts \in BlockTimes({clock + 1, clock + 2}) : MineBlock(ts)
  /\ UNCHANGED <<simVars, chain, handler, filling, answers, failures>>

WriteTime(ts) == ring' = [ring EXCEPT ![ts % RingLength].ts = ts]
WriteRoot(ts, root) == ring' = [ring EXCEPT ![ts % RingLength].root = root]

-----------------------------------------------------------------------------
(* Checkpoint handlers                                                     *)

Resume(c, pc) == handler' = [handler EXCEPT ![c].pc = pc]

\* The request arrives, again after a failure; `serial` chains it.
Ask(c) ==
  /\ handler[c].pc \in {"new", "failed"}
  /\ handler' = [handler EXCEPT ![c] = [pc |-> "chained", asked |-> clock, advance |-> 1, ts |-> 0,
                                        root |-> LocalRoot]]
  /\ chain' = Append(chain, c)
  /\ UNCHANGED <<simVars, forkVars, filling, answers, failures>>

\* Faulty variant: handlers do not wait for one another.
AtOnce(c) == TRUE

Serial(c) == Head(chain) = c

\* Faulty variant: only a fulfilled handler lets the next one run.
NextOnSuccess(c, ok) == chain' = IF ok THEN Tail(chain) ELSE chain

\* The chain goes on whether or not the handler succeeded.
NextInChain(c, ok) == chain' = Tail(chain)

Answer(c, answer) ==
  /\ answers' = answers \cup {answer}
  /\ handler' = [handler EXCEPT ![c] = [pc |-> "done"]]
  /\ NextInChain(c, TRUE)

Fail(c) ==
  /\ answers' = answers
  /\ handler' = [handler EXCEPT ![c] = [pc |-> "failed"]]
  /\ NextInChain(c, FALSE)

\* Runs up to the first call.
Begin(c) ==
  /\ handler[c].pc = "chained" /\ Serial(c)
  /\ IF c.kind = "accepted"
     THEN /\ IF IsReplayed(c)
             THEN sim' = [sim EXCEPT !.val[c.source].withdrawable = ReplayWithdrawable]
             ELSE QueueConsolidation(c)
          /\ Resume(c, "latest")
          /\ UNCHANGED <<chain, answers>>
     ELSE /\ UNCHANGED sim
          /\ IF sim.val[c.source].withdrawable = FarFuture THEN Fail(c)
             ELSE Resume(c, "forward") /\ UNCHANGED <<chain, answers>>
  /\ UNCHANGED <<tree, simulated, cache, forkVars, filling, failures>>

\* Delivery: how far to advance the clock, then the transition.
FastForward(c) ==
  /\ handler[c].pc = "forward"
  /\ LET withdrawableTime == sim.val[c.source].withdrawable * SlotsPerEpoch
     IN handler' = [handler EXCEPT ![c].pc = "latest",
          ![c].advance = IF withdrawableTime > clock THEN withdrawableTime - clock + 1 ELSE 1]
  /\ ProcessConsolidation(c)
  /\ UNCHANGED <<tree, simulated, cache, forkVars, chain, filling, answers, failures>>

\* nextTimestamp: reads the latest block, ...
ReadLatest(c) ==
  /\ handler[c].pc = "latest"
  /\ handler' = [handler EXCEPT ![c].pc = "setTime", ![c].ts = clock + handler[c].advance]
  /\ UNCHANGED <<simVars, forkVars, chain, filling, answers, failures>>

\* ... sets the next block's time, which must be in the future, ...
SetTime(c) ==
  /\ handler[c].pc = "setTime"
  /\ IF handler[c].ts > clock
     THEN /\ nextTime' = handler[c].ts
          /\ Resume(c, "mine")
          /\ UNCHANGED <<chain, answers>>
     ELSE Fail(c) /\ UNCHANGED nextTime
  /\ UNCHANGED <<simVars, clock, ring, filling, failures>>

\* ... and mines it; then the state is sealed unless the root is a real one.
Mine(c) ==
  /\ handler[c].pc = "mine"
  /\ \E ts \in BlockTimes({clock + 1}) : MineBlock(ts)
  /\ IF IsReplayed(c) THEN UNCHANGED <<sim, tree>> ELSE Seal(handler[c].ts)
  /\ handler' = [handler EXCEPT ![c].pc = "injectTime",
       ![c].root = IF IsReplayed(c) THEN ReplayState ELSE tree']
  /\ UNCHANGED <<simulated, cache, chain, filling, answers, failures>>

InjectTime(c) ==
  /\ handler[c].pc = "injectTime"
  /\ WriteTime(handler[c].ts)
  /\ Resume(c, "injectRoot")
  /\ UNCHANGED <<simVars, clock, nextTime, chain, filling, answers, failures>>

\* The proofs are read after the last call: from the state as it is then.
SourceProof(c) ==
  IF IsReplayed(c)
  THEN [index |-> c.source, fields |-> ReplayState.val[c.source], tree |-> ReplayState]
  ELSE ValidatorProof(c.source)

\* The entry at the last index of the queue.
EntryProof(c) ==
  IF IsReplayed(c) THEN [entry |-> ReplayPair, tree |-> ReplayState]
  ELSE [entry |-> sim.pend[Len(sim.pend)], tree |-> tree]

\* The balance's leaf is read from the tree too.
BalanceProof(c) == [balance |-> tree.val[c.source].balance, tree |-> tree]

InjectRoot(c) ==
  /\ handler[c].pc = "injectRoot"
  /\ WriteRoot(handler[c].ts, handler[c].root)
  /\ simulated' = simulated + 1
  /\ Answer(c,
       [request |-> c, asked |-> handler[c].asked, ts |-> handler[c].ts,
        root |-> handler[c].root, source |-> SourceProof(c),
        extra |-> IF c.kind = "accepted" THEN EntryProof(c) ELSE BalanceProof(c),
        inRing |-> ring'[handler[c].ts % RingLength]])
  /\ UNCHANGED <<sim, tree, cache, clock, nextTime, filling, failures>>

\* A call to the fork fails: what was done to the simulated state stays done.
CallFails(c) ==
  /\ handler[c].pc \in {"forward", "latest", "setTime", "mine", "injectTime", "injectRoot"}
  /\ failures < MaxFailures
  /\ failures' = failures + 1
  /\ Fail(c)
  /\ UNCHANGED <<simVars, forkVars, filling>>

-----------------------------------------------------------------------------
(* Fill-proofs handlers                                                    *)

Available(f) == simulated = 0 \/ {f.source, f.target} \subseteq DOMAIN cache

\* snapshot: validators not seen yet get their proof now.
Snapshot(S) ==
  cache' = [v \in DOMAIN cache \cup S |-> IF v \in DOMAIN cache THEN cache[v] ELSE ValidatorProof(v)]

FillProofs(f) ==
  /\ filling[f] = "new"
  /\ IF Available(f)
     THEN Snapshot({f.source, f.target}) /\ filling' = [filling EXCEPT ![f] = "injectTime"]
     ELSE UNCHANGED cache /\ filling' = [filling EXCEPT ![f] = "refused"]
  /\ UNCHANGED <<sim, tree, simulated, forkVars, chain, handler, answers, failures>>

RestoreTime(f) ==
  /\ filling[f] = "injectTime"
  /\ WriteTime(BaseTimestamp)
  /\ filling' = [filling EXCEPT ![f] = "injectRoot"]
  /\ UNCHANGED <<simVars, clock, nextTime, chain, handler, answers, failures>>

\* The answer carries the cached proofs of both validators.
RestoreRoot(f) ==
  /\ filling[f] = "injectRoot"
  /\ WriteRoot(BaseTimestamp, BaseState)
  /\ filling' = [filling EXCEPT ![f] = "answered"]
  /\ UNCHANGED <<simVars, clock, nextTime, chain, handler, answers, failures>>

-----------------------------------------------------------------------------
Step(c) ==
  Begin(c) \/ FastForward(c) \/ ReadLatest(c) \/ SetTime(c) \/ Mine(c) \/ InjectTime(c) \/ InjectRoot(c)

FillNext == \E f \in Fills : FillProofs(f) \/ RestoreTime(f) \/ RestoreRoot(f)

Next ==
  \/ \E c \in Checkpoints : Ask(c) \/ Step(c) \/ CallFails(c)
  \/ FillNext
  \/ UserBlock

Spec == ServiceInit /\ [][Next]_vars

\* The fork answers every call.
FairSpec == Spec /\ \A c \in Checkpoints : WF_vars(Step(c))

-----------------------------------------------------------------------------
(***************************************************************************)
(* Every answer is one a contract on the fork accepts, whatever requests   *)
(* come in while its handler waits: each proof is of the state whose root  *)
(* the ring holds under the answer's timestamp when the answer is sent,    *)
(* and the pending consolidation it proves is the request's.  (A root that *)
(* shares the base root's index in the ring may be overwritten, and one    *)
(* that took so long to write that a block came with the next timestamp of *)
(* its index is stored under that one.)                                    *)
(***************************************************************************)
Given(kind) == {a \in answers : a.request.kind = kind}

AnswersVerify ==
  \A a \in Given("accepted") \cup Given("delivered") :
    /\ Verifies(a.source, a.root)
    /\ a.extra.tree = a.root
    /\ a.request.kind = "accepted" => a.extra.entry = PairOf(a.request)
    /\ a.ts % RingLength # BaseTimestamp % RingLength =>
         a.inRing.root = a.root /\ (a.inRing.ts = a.ts \/ a.inRing.ts >= a.ts + RingLength)

(***************************************************************************)
(* An answer settles the trade it was asked for: the root is later than    *)
(* anything mined before the request, so later than the fill; and a        *)
(* delivered state has the source past its withdrawable epoch and drained  *)
(* to dust, however the fork's clock moved while the handler waited.       *)
(***************************************************************************)
AnswersSettle ==
  /\ \A a \in Given("accepted") : a.ts > a.asked
  /\ \A a \in Given("delivered") :
       /\ a.ts > a.asked
       /\ a.source.fields.withdrawable <= EpochOf(a.root.slot)
       /\ a.extra.balance < MaxDust

(***************************************************************************)
(* Every checkpoint request is answered, also after a failed one: `serial` *)
(* chains on rejection as on success.                                      *)
(***************************************************************************)
RequestsAnswered ==
  \A c \in Checkpoints : handler[c].pc = "chained" ~> handler[c].pc \in {"done", "failed"}

(***************************************************************************)
(* server.ts:105: "Base-state proofs are cached per validator: they only   *)
(* depend on the unmodified base state."  So a cached proof verifies       *)
(* against the base root, the only one a fill uses it with.                *)
(***************************************************************************)
CachedProofsAreBase == \A v \in DOMAIN cache : Verifies(cache[v], BaseState)
=============================================================================
