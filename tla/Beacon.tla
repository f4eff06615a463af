------------------------------- MODULE Beacon -------------------------------
(***************************************************************************)
(* The consensus layer as StakePort uses it: the EIP-7251 consolidation    *)
(* request predeploy, process_consolidation_request, the queue of pending  *)
(* consolidations, exits, slashing, the withdrawal sweep, and the EIP-4788 *)
(* ring of beacon block roots through which contracts see the past.        *)
(*                                                                         *)
(* None of it is StakePort's own code: it is modelled from what the        *)
(* contracts and the proof generator rely on.  simulate.ts holds the       *)
(* repository's own statement of the two consolidation transitions.        *)
(*                                                                         *)
(* Time is counted in slots, and the timestamp of a block is its slot.     *)
(* Blocks may skip slots (missed slots).  A validator stands both for its  *)
(* index and for its pubkey: the registry is a bijection between them.     *)
(***************************************************************************)
EXTENDS Integers, Sequences, FiniteSetsExt

CONSTANTS
  Validators,       \* registry entries of interest
  Accounts,         \* execution-layer addresses
  WithdrawalAddress,\* [Validators -> Accounts], the address in the credentials
  CredsPrefix,      \* [Validators -> {0, 1, 2}], first byte of the credentials
  ActivationEpoch,  \* [Validators -> Nat]
  InitialBalance,   \* [Validators -> Nat]
  OwnRequests,      \* pairs <<source, target>> an owner may request by itself
  MayExit,          \* validators whose owner may initiate an exit
  MayBeSlashed,     \* validators that may be slashed
  NoValidator,      \* not a validator: "no target"
  SlotsPerEpoch,
  StartSlot,        \* slot of the first execution block considered
  MaxGap,           \* largest distance in slots between consecutive blocks
  RootsKept,        \* length of the EIP-4788 ring (8191)
  ExitDelay,        \* epochs from an accepted request to withdrawable (261)
  SlashDelay,       \* epochs from a slashing to withdrawable (8192)
  SweepPeriod,      \* epochs within which the withdrawal sweep reaches everyone
  CommitteePeriod,  \* SHARD_COMMITTEE_PERIOD (256 epochs)
  DequeueRate,      \* requests the predeploy hands over per block (2)
  QueueCap,         \* queue length beyond which the request fee is prohibitive
  Increment,        \* one effective-balance increment (1 ETH)
  MaxEffective,     \* MAX_EFFECTIVE_BALANCE_ELECTRA (2048 ETH)
  FarFuture,        \* FAR_FUTURE_EPOCH
  MaxSlot           \* bound on the clock

ASSUME BeaconConstants ==
  /\ NoValidator \notin Validators
  /\ WithdrawalAddress \in [Validators -> Accounts]
  /\ CredsPrefix \in [Validators -> {0, 1, 2}]
  /\ ActivationEpoch \in [Validators -> Nat]
  /\ InitialBalance \in [Validators -> Nat]
  /\ OwnRequests \subseteq Validators \X Validators
  /\ MayExit \cup MayBeSlashed \subseteq Validators
  /\ SlotsPerEpoch \in Nat \ {0} /\ MaxGap \in Nat \ {0} /\ RootsKept \in Nat \ {0}
  /\ ExitDelay \in Nat \ {0} /\ SweepPeriod \in Nat \ {0} /\ DequeueRate \in Nat \ {0}
  /\ Increment \in Nat \ {0} /\ StartSlot \in Nat \ {0}
  /\ SlashDelay \in Nat /\ CommitteePeriod \in Nat /\ QueueCap \in Nat
  /\ MaxEffective \in Nat /\ MaxSlot \in Nat /\ FarFuture \in Nat
  /\ StartSlot <= MaxSlot
  /\ MaxSlot + ExitDelay + SlashDelay < FarFuture

VARIABLES
  now,            \* slot of the current execution block
  validators,     \* the validator registry and balances
  pending,        \* state.pending_consolidations
  requestQueue,   \* requests waiting in the EIP-7251 predeploy
  roots,          \* the EIP-4788 ring: the provable beacon states
  accepted,       \* history: the request the consensus layer accepted
  movedTo         \* history: the validator that received the balance

beaconVars == <<now, validators, pending, requestQueue, roots, accepted, movedTo>>

EpochOf(slot) == slot \div SlotsPerEpoch

MinOf(a, b) == IF a <= b THEN a ELSE b
MaxOf(a, b) == IF a >= b THEN a ELSE b

(***************************************************************************)
(* An exit sets exit_epoch and withdrawable_epoch together, so one field   *)
(* stands for both: FarFuture means that no exit was initiated.            *)
(***************************************************************************)
ValidatorState ==
  [withdrawable : Nat, slashed : BOOLEAN, balance : Nat, eff : Nat]

Entry   == [src : Validators, tgt : Validators]
Request == [src : Validators, tgt : Validators, sender : Accounts, id : Nat]

NoAcceptance == [tgt |-> NoValidator, id |-> 0]
Acceptance   == [tgt : Validators \cup {NoValidator}, id : Nat]

\* What a root in the ring commits to: the state after the parent block `slot`.
Snapshot ==
  [ts : Nat, slot : Nat, val : [Validators -> ValidatorState], pend : SUBSET Entry]

Cap(v) == IF CredsPrefix[v] = 2 THEN MaxEffective ELSE 32 * Increment
Rounded(v, balance) == MinOf(Increment * (balance \div Increment), Cap(v))

IsExiting(s) == s.withdrawable # FarFuture
IsActiveNotExiting(v, s, epoch) ==
  ~s.slashed /\ ActivationEpoch[v] <= epoch /\ ~IsExiting(s)

EntriesOf(seq) == {seq[i] : i \in 1..Len(seq)}

SnapshotAt(ts, slot, vals, pend) ==
  [ts |-> ts, slot |-> slot, val |-> vals, pend |-> EntriesOf(pend)]

BeaconInit ==
  /\ now = StartSlot
  /\ validators = [v \in Validators |->
       [withdrawable |-> FarFuture, slashed |-> FALSE,
        balance |-> InitialBalance[v], eff |-> Rounded(v, InitialBalance[v])]]
  /\ pending = <<>>
  /\ requestQueue = <<>>
  /\ roots = {SnapshotAt(StartSlot, StartSlot - 1, validators, <<>>)}
  /\ accepted = [v \in Validators |-> NoAcceptance]
  /\ movedTo = [v \in Validators |-> NoValidator]

-----------------------------------------------------------------------------
(* The EIP-7251 predeploy                                                  *)

\* Faulty variant: the fee never stops anyone from requesting.
UnboundedEnqueue(sender, src, tgt, id) ==
  requestQueue' = Append(requestQueue, [src |-> src, tgt |-> tgt, sender |-> sender, id |-> id])

\* A call to the predeploy from `sender`; id is 0 unless a trade caused it.
Enqueue(sender, src, tgt, id) ==
  /\ Len(requestQueue) < QueueCap
  /\ requestQueue' = Append(requestQueue, [src |-> src, tgt |-> tgt, sender |-> sender, id |-> id])

\* The owner of a validator uses the predeploy without StakePort.
OwnRequest ==
  /\ \E r \in OwnRequests : Enqueue(WithdrawalAddress[r[1]], r[1], r[2], 0)
  /\ UNCHANGED <<now, validators, pending, roots, accepted, movedTo>>

\* The requests handed to the consensus layer at the end of the current block.
Dequeued == MinOf(DequeueRate, Len(requestQueue))

\* The conditions of process_consolidation_request a request meets.
Acceptable(r, epoch) ==
  LET s == validators[r.src]
      t == validators[r.tgt]
  IN /\ r.src # r.tgt
     /\ CredsPrefix[r.src] \in {1, 2}
     /\ WithdrawalAddress[r.src] = r.sender
     /\ CredsPrefix[r.tgt] = 2
     /\ IsActiveNotExiting(r.src, s, epoch)
     /\ IsActiveNotExiting(r.tgt, t, epoch)
     /\ ActivationEpoch[r.src] + CommitteePeriod <= epoch

(***************************************************************************)
(* The requests taken in this block: any acceptable ones that do not       *)
(* exclude one another.  The consensus layer may also drop an acceptable   *)
(* request (churn limit, full queue, pending partial withdrawals).         *)
(***************************************************************************)
AcceptChoices ==
  {A \in SUBSET (1..Dequeued) :
     /\ \A i \in A : Acceptable(requestQueue[i], EpochOf(now))
     /\ \A i, j \in A : i < j =>
          requestQueue[j].src # requestQueue[i].src /\ requestQueue[j].tgt # requestQueue[i].src}

\* The enumerations of A in queue order (there is exactly one).
InOrder(A) ==
  {f \in [1..Cardinality(A) -> A] :
     /\ \A i, j \in DOMAIN f : i < j => f[i] < f[j]
     /\ \A a \in A : \E i \in DOMAIN f : f[i] = a}

TakenFor(A, v) == {i \in A : requestQueue[i].src = v}

\* The registry once the requests in A have initiated their sources' exits.
PostState(A) ==
  [v \in Validators |->
     IF TakenFor(A, v) = {} THEN validators[v]
     ELSE [validators[v] EXCEPT !.withdrawable = EpochOf(now) + ExitDelay]]

NewEntries(f) ==
  [i \in DOMAIN f |-> [src |-> requestQueue[f[i]].src, tgt |-> requestQueue[f[i]].tgt]]

-----------------------------------------------------------------------------
(* Epoch processing                                                        *)

\* process_pending_consolidations consumes the first n entries: it stops at the
\* first one whose source is neither slashed nor withdrawable.
Consumes(n, pend, vals, epoch) ==
  LET Ready(i) == vals[pend[i].src].slashed \/ vals[pend[i].src].withdrawable <= epoch
  IN (\A i \in 1..n : Ready(i)) /\ (n < Len(pend) => ~Ready(n + 1))

\* The balance of a consumed entry moves unless its source was slashed.
Moves(n, pend, vals) == {pend[i] : i \in {j \in 1..n : ~vals[pend[j].src].slashed}}

MovedAmount(vals, v) == MinOf(vals[v].balance, vals[v].eff)

Gains(vals, moves) ==
  [v \in Validators |->
     MapThenSumSet(LAMBDA e : MovedAmount(vals, e.src), {e \in moves : e.tgt = v})]

\* Balances move, then effective balances follow (hysteresis ignored).
AfterMoves(vals, moves, gains) ==
  [v \in Validators |->
     LET isSource == \E e \in moves : e.src = v
         isTarget == \E e \in moves : e.tgt = v
         balance  == vals[v].balance - (IF isSource THEN MovedAmount(vals, v) ELSE 0) + gains[v]
     IN IF isSource \/ isTarget
        THEN [vals[v] EXCEPT !.balance = balance, !.eff = Rounded(v, balance)]
        ELSE vals[v]]

MovedAfter(moves) ==
  [v \in Validators |->
     IF \E e \in moves : e.src = v THEN (CHOOSE e \in moves : e.src = v).tgt ELSE movedTo[v]]

AcceptedAfter(A) ==
  [v \in Validators |->
     IF TakenFor(A, v) = {} THEN accepted[v]
     ELSE LET i == CHOOSE i \in TakenFor(A, v) : TRUE
          IN [tgt |-> requestQueue[i].tgt, id |-> requestQueue[i].id]]

\* pending_consolidations of the post-state.
QueueAfter(f) == pending \o NewEntries(f)

\* The beacon roots contract overwrites the slot `timestamp % RootsKept`.
RingAfter(next, A, f) ==
  {s \in roots : s.ts % RootsKept # next % RootsKept}
    \cup {SnapshotAt(next, now, PostState(A), QueueAfter(f))}

\* Everyone withdrawable for long enough has been swept by `epoch`.
SweptInTime(epoch) ==
  \A v \in Validators :
    validators[v].balance > 0 => epoch < validators[v].withdrawable + SweepPeriod

(***************************************************************************)
(* The current block ends, `gap` slots pass and the next block begins: the *)
(* predeploy hands over requests, of which the consensus layer takes A;    *)
(* the post-state becomes provable under the next block's timestamp; and   *)
(* crossing into a new epoch consumes n pending consolidations.  (The sums *)
(* in `gains` are natural numbers; saying so gives the provers the type of *)
(* a fold, which they cannot derive.)                                      *)
(***************************************************************************)
BlockStep(gap, A, f, n) ==
  LET next  == now + gap
      post  == PostState(A)
      queue == QueueAfter(f)
      moves == Moves(n, queue, post)
      gains == Gains(post, moves)
  IN /\ next <= MaxSlot
     /\ SweptInTime(EpochOf(next))
     /\ IF EpochOf(next) > EpochOf(now)
        THEN Consumes(n, queue, post, EpochOf(next))
        ELSE n = 0
     /\ gains \in [Validators -> Nat]
     /\ now' = next
     /\ requestQueue' = SubSeq(requestQueue, Dequeued + 1, Len(requestQueue))
     /\ accepted' = AcceptedAfter(A)
     /\ roots' = RingAfter(next, A, f)
     /\ pending' = SubSeq(queue, n + 1, Len(queue))
     /\ validators' = AfterMoves(post, moves, gains)
     /\ movedTo' = MovedAfter(moves)

NewBlock ==
  \E gap \in 1..MaxGap, A \in AcceptChoices : \E f \in InOrder(A) :
    \E n \in 0..Len(QueueAfter(f)) : BlockStep(gap, A, f, n)

-----------------------------------------------------------------------------
(* What else happens to a validator while a trade is open                  *)

Exit(v) ==
  /\ IsActiveNotExiting(v, validators[v], EpochOf(now))
  /\ validators' = [validators EXCEPT ![v].withdrawable = EpochOf(now) + ExitDelay]
  /\ UNCHANGED <<now, pending, requestQueue, roots, accepted, movedTo>>

Slash(v) ==
  /\ ~validators[v].slashed
  /\ ActivationEpoch[v] <= EpochOf(now)
  /\ EpochOf(now) < validators[v].withdrawable
  /\ validators' = [validators EXCEPT
       ![v].slashed = TRUE,
       ![v].withdrawable = IF @ = FarFuture THEN EpochOf(now) + SlashDelay
                           ELSE MaxOf(@, EpochOf(now) + SlashDelay)]
  /\ UNCHANGED <<now, pending, requestQueue, roots, accepted, movedTo>>

\* The withdrawal sweep reaches a withdrawable validator.
Sweep(v) ==
  /\ validators[v].withdrawable <= EpochOf(now)
  /\ validators[v].balance > 0
  /\ validators' = [validators EXCEPT ![v].balance = 0]
  /\ UNCHANGED <<now, pending, requestQueue, roots, accepted, movedTo>>

-----------------------------------------------------------------------------
BeaconTypeOK ==
  /\ now \in StartSlot..MaxSlot
  /\ validators \in [Validators -> ValidatorState]
  /\ pending \in Seq(Entry)
  /\ requestQueue \in Seq(Request)
  /\ Len(requestQueue) <= QueueCap
  /\ roots \subseteq Snapshot
  /\ accepted \in [Validators -> Acceptance]
  /\ movedTo \in [Validators -> Validators \cup {NoValidator}]
=============================================================================
