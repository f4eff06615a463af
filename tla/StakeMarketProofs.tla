------------------------- MODULE StakeMarketProofs -------------------------
(***************************************************************************)
(* Theorems about the market for every value of its constants: types and   *)
(* locks; what the registry, the queue of pending consolidations and the   *)
(* ring of roots keep; with that, what a request names, what a proof of    *)
(* acceptance or of its absence shows, and that the two windows fit the    *)
(* delays of the consensus layer; that the market implements the abstract  *)
(* delivery versus payment of DvP; and that its escrow is a sum.           *)
(***************************************************************************)
EXTENDS StakeMarket, FiniteSetTheorems, SequenceTheorems, WellFoundedInduction, TLAPS

(***************************************************************************)
(* Facts about the helpers                                                 *)
(***************************************************************************)

\* Division by a positive number keeps naturals natural.
LEMMA DivNat ==
  ASSUME NEW m \in Nat, NEW d \in Nat \ {0}
  PROVE  m \div d \in Nat
  OBVIOUS

LEMMA EpochNat ==
  ASSUME NEW slot \in Nat
  PROVE  EpochOf(slot) \in Nat
  BY DivNat, BeaconConstants DEF EpochOf

LEMMA RoundedNat ==
  ASSUME NEW v \in Validators, NEW b \in Nat
  PROVE  Rounded(v, b) \in Nat
  <1>1. b \div Increment \in Nat
    BY DivNat, BeaconConstants
  <1>2. Increment * (b \div Increment) \in Nat
    BY <1>1, BeaconConstants
  <1>3. Cap(v) \in Nat
    BY BeaconConstants DEF Cap
  <1> QED
    BY <1>2, <1>3 DEF Rounded, MinOf

LEMMA NowEpochNat ==
  ASSUME BeaconTypeOK
  PROVE  now \in Nat /\ EpochOf(now) \in Nat
  <1>1. now \in Nat
    BY BeaconConstants DEF BeaconTypeOK
  <1> QED
    BY <1>1, EpochNat

\* The registry after a block's requests, and after the balances moved.
LEMMA PostStateType ==
  ASSUME BeaconTypeOK, NEW A
  PROVE  PostState(A) \in [Validators -> ValidatorState]
  <1>1. EpochOf(now) \in Nat
    BY NowEpochNat
  <1>2. EpochOf(now) + ExitDelay \in Nat
    BY <1>1, BeaconConstants
  <1> SUFFICES ASSUME NEW v \in Validators
               PROVE  PostState(A)[v] \in ValidatorState
    BY DEF PostState
  <1> QED
    BY <1>2 DEF PostState, BeaconTypeOK, ValidatorState

LEMMA AfterMovesType ==
  ASSUME NEW vals \in [Validators -> ValidatorState], NEW moves,
         NEW gains \in [Validators -> Nat]
  PROVE  AfterMoves(vals, moves, gains) \in [Validators -> ValidatorState]
  <1> SUFFICES ASSUME NEW v \in Validators
               PROVE  AfterMoves(vals, moves, gains)[v] \in ValidatorState
    BY DEF AfterMoves
  <1> DEFINE isSource == \E e \in moves : e.src = v
             balance  == vals[v].balance - (IF isSource THEN MovedAmount(vals, v) ELSE 0) + gains[v]
  <1>1. balance \in Nat
    BY DEF ValidatorState, MovedAmount, MinOf
  <1>2. Rounded(v, balance) \in Nat
    BY <1>1, RoundedNat
  <1> QED
    BY <1>1, <1>2 DEF AfterMoves, ValidatorState

\* The requests taken in a block are requests of the queue.
LEMMA TakenRequests ==
  ASSUME BeaconTypeOK, NEW A \in AcceptChoices
  PROVE  /\ A \subseteq 1..Len(requestQueue)
         /\ \A i \in A : requestQueue[i] \in Request
         /\ Cardinality(A) \in Nat
         /\ Dequeued \in Nat /\ Dequeued <= Len(requestQueue)
  <1>1. Len(requestQueue) \in Nat
    BY DEF BeaconTypeOK
  <1>2. Dequeued \in Nat /\ Dequeued <= Len(requestQueue)
    BY <1>1, BeaconConstants DEF Dequeued, MinOf
  <1>3. A \subseteq 1..Dequeued
    BY DEF AcceptChoices
  <1>4. A \subseteq 1..Len(requestQueue)
    BY <1>1, <1>2, <1>3
  <1>5. \A i \in A : requestQueue[i] \in Request
    BY <1>4, ElementOfSeq DEF BeaconTypeOK
  <1>6. IsFiniteSet(1..Dequeued)
    BY <1>2, FS_Interval
  <1>7. IsFiniteSet(A)
    BY <1>3, <1>6, FS_Subset
  <1> QED
    BY <1>2, <1>4, <1>5, <1>7, FS_CardinalityType

\* The entries a block adds form a sequence of entries.
LEMMA NewEntriesType ==
  ASSUME BeaconTypeOK, NEW A \in AcceptChoices, NEW f \in InOrder(A)
  PROVE  /\ NewEntries(f) \in Seq(Entry)
         /\ Len(NewEntries(f)) = Cardinality(A)
         /\ f \in [1..Cardinality(A) -> A]
         /\ \A i \in 1..Cardinality(A) : NewEntries(f)[i] =
              [src |-> requestQueue[f[i]].src, tgt |-> requestQueue[f[i]].tgt]
  <1>1. f \in [1..Cardinality(A) -> A]
    BY DEF InOrder
  <1>2. \A i \in 1..Cardinality(A) : requestQueue[f[i]] \in Request
    BY <1>1, TakenRequests
  <1>3. NewEntries(f) \in [1..Cardinality(A) -> Entry]
    BY <1>1, <1>2 DEF NewEntries, Entry, Request
  <1>4. Cardinality(A) \in Nat
    BY TakenRequests
  <1>5. NewEntries(f) \in Seq(Entry)
    BY <1>3, <1>4
  <1> QED
    BY <1>1, <1>3, <1>4, <1>5 DEF NewEntries

LEMMA SnapshotType ==
  ASSUME NEW ts \in Nat, NEW slot \in Nat, NEW vals \in [Validators -> ValidatorState],
         NEW pend \in Seq(Entry)
  PROVE  SnapshotAt(ts, slot, vals, pend) \in Snapshot
  <1>1. EntriesOf(pend) \subseteq Entry
    BY DEF EntriesOf
  <1> QED
    BY <1>1 DEF SnapshotAt, Snapshot

(***************************************************************************)
(* Type correctness of the consensus layer's state                         *)
(***************************************************************************)
LEMMA BeaconInitType == BeaconInit => BeaconTypeOK
  <1> SUFFICES ASSUME BeaconInit PROVE BeaconTypeOK
    OBVIOUS
  <1>1. validators \in [Validators -> ValidatorState]
    BY RoundedNat, BeaconConstants DEF BeaconInit, ValidatorState
  <1>2. <<>> \in Seq(Entry)
    OBVIOUS
  <1> StartSlot \in Nat /\ StartSlot - 1 \in Nat
    BY BeaconConstants
  <1>3. SnapshotAt(StartSlot, StartSlot - 1, validators, <<>>) \in Snapshot
    BY <1>1, <1>2, SnapshotType
  <1> QED
    BY <1>1, <1>3, BeaconConstants DEF BeaconInit, BeaconTypeOK, NoAcceptance, Acceptance

\* A call to the predeploy appends a well-formed request.
LEMMA EnqueueType ==
  ASSUME BeaconTypeOK, NEW sender \in Accounts, NEW src \in Validators,
         NEW tgt \in Validators, NEW id \in Nat, Enqueue(sender, src, tgt, id)
  PROVE  requestQueue' \in Seq(Request) /\ Len(requestQueue') <= QueueCap
  <1>1. [src |-> src, tgt |-> tgt, sender |-> sender, id |-> id] \in Request
    BY DEF Request
  <1> QED
    BY <1>1, BeaconConstants DEF BeaconTypeOK, Enqueue

LEMMA BlockStepType ==
  ASSUME BeaconTypeOK, NEW gap \in 1..MaxGap, NEW A \in AcceptChoices, NEW f \in InOrder(A),
         NEW n \in 0..Len(QueueAfter(f)), BlockStep(gap, A, f, n)
  PROVE  BeaconTypeOK'
  <1> DEFINE post  == PostState(A)
             queue == QueueAfter(f)
             moves == Moves(n, queue, post)
             gains == Gains(post, moves)
  <1>1. now \in Nat /\ now + gap \in Nat /\ now + gap \in StartSlot..MaxSlot
    BY BeaconConstants DEF BlockStep, BeaconTypeOK
  <1>2. post \in [Validators -> ValidatorState]
    BY PostStateType
  <1>3. queue \in Seq(Entry)
    BY NewEntriesType, ConcatProperties DEF QueueAfter, BeaconTypeOK
  <1>4. moves \subseteq Entry
    BY <1>3, ElementOfSeq DEF Moves
  <1>5. now' \in StartSlot..MaxSlot
    BY <1>1 DEF BlockStep
  <1>6. validators' \in [Validators -> ValidatorState]
    BY <1>2, AfterMovesType DEF BlockStep
  <1>7. pending' \in Seq(Entry)
    <2>1. pending' = SubSeq(queue, n + 1, Len(queue))
      BY DEF BlockStep
    <2>2. \A i \in (n+1)..Len(queue) : queue[i] \in Entry
      BY <1>3, ElementOfSeq
    <2> QED
      BY <1>3, <2>1, <2>2, SubSeqProperties
  <1>8. requestQueue' \in Seq(Request) /\ Len(requestQueue') <= QueueCap
    <2>1. Dequeued \in Nat /\ Dequeued <= Len(requestQueue)
      BY TakenRequests
    <2>2. requestQueue' = SubSeq(requestQueue, Dequeued + 1, Len(requestQueue))
      BY DEF BlockStep
    <2>3. \A i \in (Dequeued + 1)..Len(requestQueue) : requestQueue[i] \in Request
      BY <2>1, ElementOfSeq DEF BeaconTypeOK
    <2>4. Len(requestQueue) \in Nat /\ requestQueue \in Seq(Request)
      BY DEF BeaconTypeOK
    <2>5. /\ SubSeq(requestQueue, Dequeued + 1, Len(requestQueue)) \in Seq(Request)
          /\ Len(SubSeq(requestQueue, Dequeued + 1, Len(requestQueue))) <= Len(requestQueue)
      BY <2>1, <2>3, <2>4, SubSeqProperties
    <2> QED
      BY <2>2, <2>4, <2>5, BeaconConstants DEF BeaconTypeOK
  <1>9. roots' \subseteq Snapshot
    <2>1. SnapshotAt(now + gap, now, post, queue) \in Snapshot
      BY <1>1, <1>2, <1>3, SnapshotType
    <2> QED
      BY <2>1 DEF BlockStep, BeaconTypeOK, RingAfter
  <1>10. accepted' \in [Validators -> Acceptance]
    <2> SUFFICES ASSUME NEW v \in Validators
                 PROVE  AcceptedAfter(A)[v] \in Acceptance
      BY DEF BlockStep, AcceptedAfter
    <2>1. CASE TakenFor(A, v) = {}
      BY <2>1 DEF AcceptedAfter, BeaconTypeOK
    <2>2. CASE TakenFor(A, v) # {}
      <3> DEFINE i == CHOOSE i \in TakenFor(A, v) : TRUE
      <3>1. i \in A
        BY <2>2 DEF TakenFor
      <3>2. requestQueue[i] \in Request
        BY <3>1, TakenRequests
      <3> QED
        BY <2>2, <3>2 DEF AcceptedAfter, Acceptance, Request
    <2> QED
      BY <2>1, <2>2
  <1>11. movedTo' \in [Validators -> Validators \cup {NoValidator}]
    <2> SUFFICES ASSUME NEW v \in Validators
                 PROVE  MovedAfter(moves)[v] \in Validators \cup {NoValidator}
      BY DEF BlockStep, MovedAfter
    <2>1. CASE \E e \in moves : e.src = v
      BY <1>4, <2>1 DEF MovedAfter, Entry
    <2>2. CASE ~ \E e \in moves : e.src = v
      BY <2>2 DEF MovedAfter, BeaconTypeOK
    <2> QED
      BY <2>1, <2>2
  <1> QED
    BY <1>5, <1>6, <1>7, <1>8, <1>9, <1>10, <1>11 DEF BeaconTypeOK

LEMMA NewBlockType == BeaconTypeOK /\ NewBlock => BeaconTypeOK'
  <1> SUFFICES ASSUME BeaconTypeOK, NewBlock PROVE BeaconTypeOK'
    OBVIOUS
  <1>1. PICK gap \in 1..MaxGap, A \in AcceptChoices : \E f \in InOrder(A) :
          \E n \in 0..Len(QueueAfter(f)) : BlockStep(gap, A, f, n)
    BY DEF NewBlock
  <1>2. PICK f \in InOrder(A) : \E n \in 0..Len(QueueAfter(f)) : BlockStep(gap, A, f, n)
    BY <1>1
  <1>3. PICK n \in 0..Len(QueueAfter(f)) : BlockStep(gap, A, f, n)
    BY <1>2
  <1> QED
    BY <1>3, BlockStepType

\* The steps of BeaconNext one by one.
LEMMA BeaconStepType ==
  ASSUME BeaconTypeOK, BeaconNext
  PROVE  BeaconTypeOK'
  <1>1. CASE OwnRequest
    <2>1. PICK r \in OwnRequests : Enqueue(WithdrawalAddress[r[1]], r[1], r[2], 0)
      BY <1>1 DEF OwnRequest
    <2>2. r[1] \in Validators /\ r[2] \in Validators /\ WithdrawalAddress[r[1]] \in Accounts
      BY BeaconConstants
    <2>3. requestQueue' \in Seq(Request) /\ Len(requestQueue') <= QueueCap
      BY <2>1, <2>2, EnqueueType
    <2> QED
      BY <1>1, <2>3 DEF OwnRequest, BeaconTypeOK
  <1>2. CASE NewBlock
    BY <1>2, NewBlockType
  <1>3. ASSUME NEW v \in MayExit, Exit(v)
        PROVE  BeaconTypeOK'
    <2>1. v \in Validators /\ EpochOf(now) + ExitDelay \in Nat
      BY NowEpochNat, BeaconConstants
    <2>2. validators' \in [Validators -> ValidatorState]
      BY <1>3, <2>1 DEF Exit, BeaconTypeOK, ValidatorState
    <2> QED
      BY <1>3, <2>2 DEF Exit, BeaconTypeOK
  <1>4. ASSUME NEW v \in MayBeSlashed, Slash(v)
        PROVE  BeaconTypeOK'
    <2>1. v \in Validators /\ EpochOf(now) + SlashDelay \in Nat
      BY NowEpochNat, BeaconConstants
    <2>2. validators' \in [Validators -> ValidatorState]
      BY <1>4, <2>1 DEF Slash, BeaconTypeOK, ValidatorState, MaxOf
    <2> QED
      BY <1>4, <2>2 DEF Slash, BeaconTypeOK
  <1>5. ASSUME NEW v \in Validators, Sweep(v)
        PROVE  BeaconTypeOK'
    <2>1. validators' \in [Validators -> ValidatorState]
      BY <1>5 DEF Sweep, BeaconTypeOK, ValidatorState
    <2> QED
      BY <1>5, <2>1 DEF Sweep, BeaconTypeOK
  <1> QED
    BY <1>1, <1>2, <1>3, <1>4, <1>5 DEF BeaconNext

(***************************************************************************)
(* Type correctness of the market's own state                              *)
(***************************************************************************)
MarketTypeOK ==
  /\ nextTradeId \in 1..(MaxTrades + 1)
  /\ trades \in [TradeIds -> Trade \cup {NoTrade}]
  /\ nonceUsed \subseteq Accounts \X Nonces
  /\ activeTradeBySource \in [Validators -> 0..MaxTrades]
  /\ weth \in [Holders -> Nat]

OrdersTypeOK ==
  /\ listed \subseteq Orders
  /\ policyOf \in [Orders -> Policies \cup {"none"}]
  /\ delegated \subseteq Sellers

LEMMA TypeParts ==
  TypeOK <=> BeaconTypeOK /\ Policy!EligibilityTypeOK /\ MarketTypeOK /\ OrdersTypeOK
  BY DEF TypeOK, MarketTypeOK, OrdersTypeOK

\* The payment of a fill is a number of wei.
LEMMA QuotesNat ==
  ASSUME NEW o \in Orders, NEW amount \in Nat
  PROVE  Quotes(o, amount) \subseteq Nat
  <1>1. o.price \in Nat
    BY MarketConstants DEF Order
  <1>2. ASSUME NEW ref \in RefPrices, o.price <= Bps
        PROVE  (((amount * ref) \div PriceUnit) * (Bps - o.price)) \div Bps \in Nat
    <2>1. amount * ref \in Nat
      BY MarketConstants
    <2>2. (amount * ref) \div PriceUnit \in Nat
      BY <2>1, DivNat, MarketConstants
    <2>3. Bps - o.price \in Nat
      BY <1>1, <1>2, MarketConstants
    <2>4. ((amount * ref) \div PriceUnit) * (Bps - o.price) \in Nat
      BY <2>2, <2>3
    <2> QED
      BY <2>4, DivNat, MarketConstants
  <1> QED
    BY <1>1, <1>2 DEF Quotes

\* A fill, wherever its payment comes from, keeps the market's types.
LEMMA FillType ==
  ASSUME TypeOK, NEW o \in Orders, NEW target \in Validators, NEW state \in roots,
         NEW buyer \in Accounts, NEW payment, FillFor(o, target, state, buyer, payment)
  PROVE  /\ payment \in Nat
         /\ BeaconTypeOK'
         /\ nextTradeId' \in 1..(MaxTrades + 1)
         /\ trades' \in [TradeIds -> Trade \cup {NoTrade}]
         /\ nonceUsed' \subseteq Accounts \X Nonces
         /\ activeTradeBySource' \in [Validators -> 0..MaxTrades]
  <1> DEFINE amount == state.val[o.sourceIndex].eff
  <1>1. /\ o.seller \in Accounts /\ o.sourceIndex \in Validators
        /\ o.sourcePubkey \in Validators /\ o.nonce \in Nonces
    BY MarketConstants DEF Order
  <1>2. target \in Validators /\ buyer \in Accounts
    OBVIOUS
  <1>3. state \in Snapshot
    BY DEF TypeOK, BeaconTypeOK
  <1>4. amount \in Nat
    BY <1>1, <1>3 DEF Snapshot, ValidatorState
  <1>5. payment \in Nat
    BY <1>4, QuotesNat DEF FillFor
  <1>6. now \in Nat
    BY NowEpochNat DEF TypeOK
  <1>7. nextTradeId \in 1..MaxTrades
    BY MarketConstants DEF FillFor, OpenTrade, UseNonce, FillsLeft, TypeOK
  <1>8. BeaconTypeOK'
    <2>1. Enqueue(o.seller, o.sourcePubkey, target, nextTradeId)
      BY DEF FillFor, RequestConsolidation
    <2>2. requestQueue' \in Seq(Request) /\ Len(requestQueue') <= QueueCap
      BY <1>1, <1>2, <1>7, <2>1, EnqueueType DEF TypeOK
    <2> QED
      BY <2>2 DEF FillFor, RequestConsolidation, TypeOK, BeaconTypeOK
  <1>9. trades' \in [TradeIds -> Trade \cup {NoTrade}]
    <2> DEFINE t == [seller |-> o.seller, buyer |-> buyer, sourceIndex |-> o.sourceIndex,
                     targetIndex |-> target, sourcePubkey |-> o.sourcePubkey,
                     amount |-> amount, filledAt |-> now, withdrawableEpoch |-> 0,
                     status |-> "RequestSubmitted", payment |-> payment, nonce |-> o.nonce]
    <2>1. t \in Trade
      BY <1>1, <1>2, <1>4, <1>5, <1>6 DEF Trade, Status
    <2>2. trades' = [trades EXCEPT ![nextTradeId] = t]
      BY DEF FillFor, OpenTrade, UseNonce
    <2> QED
      BY <2>1, <2>2 DEF TypeOK
  <1>10. nextTradeId' \in 1..(MaxTrades + 1)
    BY <1>7, MarketConstants DEF FillFor, OpenTrade, UseNonce
  <1>11. nonceUsed' \subseteq Accounts \X Nonces
    BY <1>1 DEF FillFor, OpenTrade, UseNonce, TypeOK
  <1>12. activeTradeBySource' \in [Validators -> 0..MaxTrades]
    <2>1. activeTradeBySource' = [activeTradeBySource EXCEPT ![o.sourceIndex] = nextTradeId]
      BY DEF FillFor, OpenTrade, UseNonce
    <2>2. nextTradeId \in 0..MaxTrades /\ activeTradeBySource \in [Validators -> 0..MaxTrades]
      BY <1>7, MarketConstants DEF TypeOK
    <2> QED
      BY <2>1, <2>2
  <1> QED
    BY <1>5, <1>8, <1>9, <1>10, <1>11, <1>12

\* A trade that ends.
LEMMA CloseType ==
  ASSUME TypeOK, NEW id \in TradeIds, trades[id] \in Trade,
         NEW outcome \in {"Delivered", "Failed"}, NEW payee \in Accounts,
         Close(id, outcome, payee)
  PROVE  TypeOK'
  <1> DEFINE t == trades[id]
  <1>1. t.payment \in Nat /\ t.sourceIndex \in Validators
    BY DEF Trade
  <1>2. trades' \in [TradeIds -> Trade \cup {NoTrade}]
    <2>1. trades' = [trades EXCEPT ![id].status = outcome]
      BY DEF Close, ReleaseSource
    <2>2. [t EXCEPT !.status = outcome] \in Trade
      BY DEF Trade, Status
    <2> QED
      BY <2>1, <2>2 DEF TypeOK
  <1>3. weth' \in [Holders -> Nat]
    <2>1. weth \in [Holders -> Nat] /\ Market \in Holders /\ payee \in Holders /\ payee # Market
      BY MarketConstants DEF TypeOK, Holders
    <2>2. /\ weth[Market] >= t.payment
          /\ weth' = [weth EXCEPT ![Market] = @ - t.payment, ![payee] = @ + t.payment]
      BY DEF Close, PaymentHeld, ReleaseSource
    <2>3. weth[Market] - t.payment \in Nat /\ weth[payee] + t.payment \in Nat
      BY <1>1, <2>1, <2>2
    <2> QED
      BY <2>1, <2>2, <2>3
  <1>4. activeTradeBySource' \in [Validators -> 0..MaxTrades]
    <2>1. activeTradeBySource' = [activeTradeBySource EXCEPT ![t.sourceIndex] = 0]
      BY DEF Close, ReleaseSource
    <2>2. 0 \in 0..MaxTrades
      BY MarketConstants
    <2> QED
      BY <2>1, <2>2 DEF TypeOK
  <1>5. MarketTypeOK'
    BY <1>2, <1>3, <1>4 DEF MarketTypeOK, Close, ReleaseSource, TypeOK
  <1>6. BeaconTypeOK' /\ Policy!EligibilityTypeOK' /\ OrdersTypeOK'
    BY DEF TypeOK, Close, beaconVars, orderVars, eligibilityVars, BeaconTypeOK,
           Policy!EligibilityTypeOK, OrdersTypeOK
  <1> QED
    BY <1>5, <1>6 DEF TypeOK, MarketTypeOK, OrdersTypeOK

\* A settled or open trade is a record, not the default one.
LEMMA FilledIsTrade ==
  ASSUME TypeOK, NEW id \in TradeIds, trades[id].status # "None"
  PROVE  trades[id] \in Trade
  BY DEF TypeOK, NoTrade

LEMMA SettleType ==
  ASSUME TypeOK, SettleNext
  PROVE  TypeOK'
  <1> USE DEF OpenStatus
  <1>1. PICK id \in TradeIds :
          \/ \E state \in roots :
               \/ ProveAccepted(id, state)
               \/ ProveDelivered(id, state)
               \/ ProveNotAccepted(id, state)
               \/ ProveFailed(id, state)
          \/ RefundExpired(id)
    BY DEF SettleNext
  <1>2. trades[id] \in Trade
    BY <1>1, FilledIsTrade
       DEF ProveAccepted, ProveDelivered, ProveNotAccepted, ProveFailed, RefundExpired,
           ShowsAcceptance, ShowsDelivery, ShowsNoAcceptance, ShowsSlashing,
           Expired, MayFail, Fail
  <1>3. trades[id].seller \in Accounts /\ trades[id].buyer \in Accounts
    BY <1>2 DEF Trade
  <1>4. ASSUME NEW state \in roots, ProveAccepted(id, state)
        PROVE  TypeOK'
    <2>1. state.val[trades[id].sourceIndex].withdrawable \in Nat
      BY <1>2 DEF TypeOK, BeaconTypeOK, Snapshot, ValidatorState, Trade
    <2>2. trades' = [trades EXCEPT
             ![id].withdrawableEpoch = state.val[trades[id].sourceIndex].withdrawable,
             ![id].status = "Accepted"]
      BY <1>4 DEF ProveAccepted
    <2>3. trades' \in [TradeIds -> Trade \cup {NoTrade}]
      <3>1. [trades[id] EXCEPT
               !.withdrawableEpoch = state.val[trades[id].sourceIndex].withdrawable,
               !.status = "Accepted"] \in Trade
        BY <1>2, <2>1 DEF Trade, Status
      <3> QED
        BY <2>2, <3>1 DEF TypeOK
    <2>4. MarketTypeOK'
      BY <1>4, <2>3 DEF ProveAccepted, TypeOK, MarketTypeOK
    <2>5. BeaconTypeOK' /\ Policy!EligibilityTypeOK' /\ OrdersTypeOK'
      BY <1>4 DEF ProveAccepted, TypeOK, beaconVars, orderVars, eligibilityVars, BeaconTypeOK,
             Policy!EligibilityTypeOK, OrdersTypeOK
    <2> QED
      BY <2>4, <2>5 DEF TypeOK, MarketTypeOK, OrdersTypeOK
  <1>5. ASSUME NEW state \in roots,
               ProveDelivered(id, state) \/ ProveNotAccepted(id, state) \/ ProveFailed(id, state)
        PROVE  TypeOK'
    BY <1>2, <1>3, <1>5, CloseType DEF ProveDelivered, ProveNotAccepted, ProveFailed, Fail
  <1>6. CASE RefundExpired(id)
    BY <1>2, <1>3, <1>6, CloseType DEF RefundExpired, Fail
  <1> QED
    BY <1>1, <1>4, <1>5, <1>6

(***************************************************************************)
(* The market in any company: the Aqua app, the hook and the pages fill    *)
(* orders for other buyers and from other purses than a single caller of   *)
(* the market, sellers list and cancel at any time, and the World ID       *)
(* server signs attestations as they come.                                 *)
(***************************************************************************)
AnyFill ==
  \E o \in Orders, target \in Validators, state \in roots, buyer \in Accounts :
    \E payment :
      /\ FillFor(o, target, state, buyer, payment)
      /\ \/ weth' = [weth EXCEPT ![Market] = @ + payment]
         \/ \E payer \in Accounts :
              /\ weth[payer] >= payment
              /\ weth' = [weth EXCEPT ![payer] = @ - payment, ![Market] = @ + payment]

AnyOffer ==
  \/ \E o \in Orders : ListOrder(o)
  \/ \E o \in Orders, policy \in Policies : ListOrderWithPolicy(o, policy)
  \/ \E o \in Orders : CancelOrder(o.seller, o.nonce)
  \/ \E seller \in Sellers : SetDelegation(seller)

AnyAttest ==
  \E a :
    /\ a.registry \in Registries /\ a.account \in Accounts
    /\ a.nullifier \in Nullifiers /\ a.expiresAt \in Nat
    /\ Attest(a)

MarketNext == AnyOffer \/ AnyFill \/ SettleNext \/ AnyAttest \/ BeaconNext

LEMMA FillIsAnyFill ==
  ASSUME NEW o \in Orders, NEW target \in Targets, NEW state \in roots, NEW buyer \in Buyers,
         \/ FillWithEth(o, target, state, buyer)
         \/ \E payer \in Payers : Fill(o, target, state, buyer, payer)
  PROVE  AnyFill
  <1>1. target \in Validators /\ buyer \in Accounts /\ Payers \subseteq Accounts
    BY MarketConstants
  <1>2. CASE FillWithEth(o, target, state, buyer)
    BY <1>1, <1>2 DEF FillWithEth, AnyFill
  <1>3. CASE \E payer \in Payers : Fill(o, target, state, buyer, payer)
    BY <1>1, <1>3 DEF Fill, TransferSucceeds, AnyFill
  <1> QED
    BY <1>2, <1>3

LEMMA NextIsMarketNext == [Next]_vars => [MarketNext]_vars
  <1> SUFFICES ASSUME Next PROVE MarketNext
    OBVIOUS
  <1>1. CASE FillNext
    BY <1>1, FillIsAnyFill DEF FillNext, MarketNext
  <1>2. CASE AttestNext
    BY <1>2, AttestationConstants DEF AttestNext, AnyAttest, MarketNext
  <1> QED
    BY <1>1, <1>2 DEF Next, SellerNext, AnyOffer, MarketNext

LEMMA AnyFillType ==
  ASSUME TypeOK, AnyFill
  PROVE  TypeOK'
  <1>1. PICK o \in Orders, target \in Validators, state \in roots, buyer \in Accounts :
          \E payment :
            /\ FillFor(o, target, state, buyer, payment)
            /\ \/ weth' = [weth EXCEPT ![Market] = @ + payment]
               \/ \E payer \in Accounts :
                    /\ weth[payer] >= payment
                    /\ weth' = [weth EXCEPT ![payer] = @ - payment, ![Market] = @ + payment]
    BY DEF AnyFill
  <1>2. PICK payment :
          /\ FillFor(o, target, state, buyer, payment)
          /\ \/ weth' = [weth EXCEPT ![Market] = @ + payment]
             \/ \E payer \in Accounts :
                  /\ weth[payer] >= payment
                  /\ weth' = [weth EXCEPT ![payer] = @ - payment, ![Market] = @ + payment]
    BY <1>1
  <1>3. /\ weth \in [Holders -> Nat] /\ Market \in Holders
        /\ \A a \in Accounts : a \in Holders /\ a # Market
    BY MarketConstants DEF TypeOK, Holders
  <1>4. MarketTypeOK' /\ BeaconTypeOK'
    <2>1. payment \in Nat
      BY <1>2, FillType
    <2>2. ASSUME NEW payer \in Accounts, weth[payer] >= payment,
                 weth' = [weth EXCEPT ![payer] = @ - payment, ![Market] = @ + payment]
          PROVE  weth' \in [Holders -> Nat]
      <3>1. weth[payer] - payment \in Nat /\ weth[Market] + payment \in Nat
        BY <1>3, <2>1, <2>2
      <3> QED
        BY <1>3, <2>2, <3>1
    <2>3. weth' \in [Holders -> Nat]
      BY <1>2, <1>3, <2>1, <2>2
    <2> QED
      BY <1>2, <2>3, FillType DEF MarketTypeOK
  <1>5. Policy!EligibilityTypeOK' /\ OrdersTypeOK'
    BY <1>2 DEF FillFor, TypeOK, orderVars, eligibilityVars, Policy!EligibilityTypeOK,
                OrdersTypeOK
  <1> QED
    BY <1>4, <1>5 DEF TypeOK, MarketTypeOK, OrdersTypeOK

LEMMA SellerType ==
  ASSUME TypeOK, AnyOffer
  PROVE  TypeOK'
  <1>1. BeaconTypeOK' /\ Policy!EligibilityTypeOK'
    BY DEF AnyOffer, ListOrder, ListOrderWithPolicy, CancelOrder, UseNonce,
           SetDelegation, TypeOK,
           beaconVars, eligibilityVars, BeaconTypeOK, Policy!EligibilityTypeOK
  <1>2. OrdersTypeOK'
    BY DEF AnyOffer, ListOrder, ListOrderWithPolicy, CancelOrder, UseNonce,
           SetDelegation, TypeOK,
           orderVars, OrdersTypeOK
  <1>3. \A o \in Orders : o.seller \in Accounts /\ o.nonce \in Nonces
    BY MarketConstants DEF Order
  <1>4. MarketTypeOK'
    BY <1>3 DEF AnyOffer, ListOrder, ListOrderWithPolicy, CancelOrder, UseNonce,
           SetDelegation, TypeOK,
           tradeVars, MarketTypeOK
  <1> QED
    BY <1>1, <1>2, <1>4 DEF TypeOK, MarketTypeOK, OrdersTypeOK

LEMMA InitType == Init => TypeOK
  <1> SUFFICES ASSUME Init PROVE TypeOK
    OBVIOUS
  <1>1. BeaconTypeOK
    BY BeaconInitType DEF Init
  <1>2. MarketTypeOK
    BY MarketConstants DEF Init, MarketTypeOK, Holders
  <1>3. Policy!EligibilityTypeOK /\ OrdersTypeOK
    BY DEF Init, Policy!EligibilityInit, Policy!EligibilityTypeOK, OrdersTypeOK
  <1> QED
    BY <1>1, <1>2, <1>3 DEF TypeOK, MarketTypeOK, OrdersTypeOK

LEMMA StepType == TypeOK /\ [MarketNext]_vars => TypeOK'
  <1> SUFFICES ASSUME TypeOK, [MarketNext]_vars PROVE TypeOK'
    OBVIOUS
  <1>1. CASE AnyOffer
    BY <1>1, SellerType
  <1>2. CASE AnyFill
    BY <1>2, AnyFillType
  <1>3. CASE SettleNext
    BY <1>3, SettleType
  <1>4. CASE AnyAttest
    <2>1. PICK a :
            /\ a.registry \in Registries /\ a.account \in Accounts
            /\ a.nullifier \in Nullifiers /\ a.expiresAt \in Nat
            /\ Attest(a)
      BY <1>4 DEF AnyAttest
    <2>2. Policy!EligibilityTypeOK'
      BY <2>1 DEF Attest, TypeOK, Policy!EligibilityTypeOK, Policy!Attest
    <2> QED
      BY <2>1, <2>2 DEF Attest, TypeOK, BeaconTypeOK, beaconVars, orderVars, tradeVars
  <1>5. CASE BeaconNext
    <2>1. BeaconTypeOK'
      BY <1>5, BeaconStepType DEF TypeOK
    <2> QED
      BY <1>5, <2>1 DEF BeaconNext, TypeOK, orderVars, tradeVars, eligibilityVars,
         Policy!EligibilityTypeOK
  <1>6. CASE UNCHANGED vars
    BY <1>6 DEF TypeOK, vars, beaconVars, orderVars, tradeVars, eligibilityVars, BeaconTypeOK,
       Policy!EligibilityTypeOK
  <1> QED
    BY <1>1, <1>2, <1>3, <1>4, <1>5, <1>6 DEF MarketNext

(***************************************************************************)
(* Every reachable state of the market and of the consensus layer has its  *)
(* type: balances and escrow never go negative, the trade counter and the  *)
(* locks stay within the trades there are.                                 *)
(***************************************************************************)
THEOREM TypeCorrect == Spec => []TypeOK
  BY InitType, StepType, NextIsMarketNext, PTL DEF Spec

(***************************************************************************)
(* One stake, one sale: the locks and the nonces                           *)
(***************************************************************************)

\* Trades are numbered in the order of the fills.
FreshIds == \A id \in TradeIds : id >= nextTradeId => ~IsFilled(id)

SaleInv == FreshIds /\ SourceLock /\ NonceFilledOnce

LEMMA OpenIsFilled ==
  ASSUME NEW id, IsOpen(id)
  PROVE  IsFilled(id)
  BY DEF IsOpen, IsFilled, OpenStatus

LEMMA SaleInit == Init => SaleInv
  <1> SUFFICES ASSUME Init PROVE SaleInv
    OBVIOUS
  <1>1. \A id \in TradeIds : ~IsFilled(id)
    BY DEF Init, IsFilled, NoTrade
  <1>2. \A v \in Validators : activeTradeBySource[v] = 0
    BY DEF Init
  <1> QED
    BY <1>1, <1>2, OpenIsFilled DEF SaleInv, FreshIds, SourceLock, NonceFilledOnce

\* A fill takes a fresh id, an unlocked source and an unused nonce.
LEMMA FillKeepsSale ==
  ASSUME TypeOK, SaleInv, NEW o \in Orders, NEW target \in Validators, NEW state \in roots,
         NEW buyer \in Accounts, NEW payment, FillFor(o, target, state, buyer, payment)
  PROVE  SaleInv'
  <1> DEFINE new == nextTradeId
  <1>1. /\ o.seller \in Accounts /\ o.sourceIndex \in Validators /\ o.nonce \in Nonces
    BY MarketConstants DEF Order
  <1>2. new \in TradeIds /\ new # 0 /\ nextTradeId' = new + 1
    BY MarketConstants DEF FillFor, OpenTrade, UseNonce, FillsLeft, TypeOK, TradeIds
  <1>3. /\ trades \in [TradeIds -> Trade \cup {NoTrade}]
        /\ activeTradeBySource \in [Validators -> 0..MaxTrades]
    BY DEF TypeOK
  <1>4. /\ trades'[new].status = "RequestSubmitted" /\ trades'[new].seller = o.seller
        /\ trades'[new].nonce = o.nonce /\ trades'[new].sourceIndex = o.sourceIndex
    BY <1>2, <1>3 DEF FillFor, OpenTrade, UseNonce
  <1>5. \A id \in TradeIds : id # new => trades'[id] = trades[id]
    BY <1>3 DEF FillFor, OpenTrade, UseNonce
  <1>6. /\ activeTradeBySource[o.sourceIndex] = 0
        /\ activeTradeBySource'[o.sourceIndex] = new
        /\ \A v \in Validators : v # o.sourceIndex =>
             activeTradeBySource'[v] = activeTradeBySource[v]
    BY <1>1, <1>3 DEF FillFor, OpenTrade, UseNonce, CheckOrder, SourceUnlocked
  <1>7. /\ <<o.seller, o.nonce>> \notin nonceUsed
        /\ nonceUsed' = nonceUsed \cup {<<o.seller, o.nonce>>}
    BY DEF FillFor, OpenTrade, UseNonce, CheckOrder, SourceUnlocked
  <1>8. ~IsFilled(new)
    BY <1>2, MarketConstants DEF SaleInv, FreshIds, TypeOK
  <1>9. FreshIds'
    <2> SUFFICES ASSUME NEW id \in TradeIds, id >= new + 1
                 PROVE  ~IsFilled(id)'
      BY <1>2 DEF FreshIds
    <2>1. id # new /\ id >= new
      BY <1>2 DEF TradeIds
    <2> QED
      BY <1>5, <2>1 DEF SaleInv, FreshIds, IsFilled
  <1>10. SourceLock'
    <2>1. ASSUME NEW id \in TradeIds, IsOpen(id)'
          PROVE  activeTradeBySource'[trades'[id].sourceIndex] = id
      <3>1. CASE id = new
        BY <1>4, <1>6, <3>1
      <3>2. CASE id # new
        <4>1. IsOpen(id) /\ trades'[id] = trades[id]
          BY <1>5, <2>1, <3>2 DEF IsOpen
        <4>2. activeTradeBySource[trades[id].sourceIndex] = id /\ id # 0
          BY <4>1 DEF SaleInv, SourceLock, TradeIds
        <4>3. trades[id].sourceIndex \in Validators
          BY <1>3, <4>1, OpenIsFilled DEF IsFilled, NoTrade, Trade
        <4> QED
          BY <1>6, <4>1, <4>2, <4>3
      <3> QED
        BY <3>1, <3>2
    <2>2. ASSUME NEW v \in Validators, activeTradeBySource'[v] # 0
          PROVE  /\ IsOpen(activeTradeBySource[v])'
                 /\ trades'[activeTradeBySource'[v]].sourceIndex = v
      <3>1. CASE v = o.sourceIndex
        BY <1>4, <1>6, <3>1 DEF IsOpen, OpenStatus
      <3>2. CASE v # o.sourceIndex
        <4> DEFINE id == activeTradeBySource[v]
        <4>1. activeTradeBySource'[v] = id /\ id # 0
          BY <1>6, <2>2, <3>2
        <4>2. IsOpen(id) /\ trades[id].sourceIndex = v
          BY <4>1 DEF SaleInv, SourceLock
        <4>3. id # new
          BY <1>8, <4>2, OpenIsFilled
        <4>4. id \in TradeIds
          BY <1>3, <4>1, MarketConstants DEF TradeIds
        <4>5. trades'[id] = trades[id]
          BY <1>5, <4>3, <4>4
        <4> QED
          BY <4>1, <4>2, <4>5 DEF IsOpen
      <3> QED
        BY <3>1, <3>2
    <2> QED
      BY <2>1, <2>2 DEF SourceLock
  <1>11. NonceFilledOnce'
    <2>1. ASSUME NEW id \in TradeIds, IsFilled(id)', id # new
          PROVE  /\ IsFilled(id) /\ trades'[id] = trades[id]
                 /\ <<trades[id].seller, trades[id].nonce>> \in nonceUsed
      BY <1>5, <2>1 DEF IsFilled, SaleInv, NonceFilledOnce
    <2>2. ASSUME NEW id \in TradeIds, IsFilled(id)'
          PROVE  <<trades'[id].seller, trades'[id].nonce>> \in nonceUsed'
      BY <1>4, <1>7, <2>1, <2>2
    <2>3. ASSUME NEW i \in TradeIds, NEW j \in TradeIds, IsFilled(i)', IsFilled(j)',
                 trades'[i].seller = trades'[j].seller, trades'[i].nonce = trades'[j].nonce
          PROVE  i = j
      <3>1. CASE i = new /\ j # new
        BY <1>4, <1>7, <2>1, <2>3, <3>1
      <3>2. CASE j = new /\ i # new
        BY <1>4, <1>7, <2>1, <2>3, <3>2
      <3>3. CASE i # new /\ j # new
        BY <2>1, <2>3, <3>3 DEF SaleInv, NonceFilledOnce
      <3> QED
        BY <3>1, <3>2, <3>3
    <2> QED
      BY <2>2, <2>3 DEF NonceFilledOnce
  <1> QED
    BY <1>9, <1>10, <1>11 DEF SaleInv

\* Settling changes neither who sold what nor which nonces are used.
LEMMA SettledNonces ==
  ASSUME TypeOK, SaleInv, NEW id \in TradeIds, IsFilled(id),
         NEW t, trades' = [trades EXCEPT ![id] = t],
         t.status # "None", t.seller = trades[id].seller, t.nonce = trades[id].nonce,
         nextTradeId' = nextTradeId, nonceUsed' = nonceUsed
  PROVE  FreshIds' /\ NonceFilledOnce'
  <1>1. \A i \in TradeIds : i # id => trades'[i] = trades[i]
    BY DEF TypeOK
  <1>2. trades'[id] = t
    BY DEF TypeOK
  <1>3. \A i \in TradeIds : /\ IsFilled(i)' <=> IsFilled(i)
                            /\ trades'[i].seller = trades[i].seller
                            /\ trades'[i].nonce = trades[i].nonce
    BY <1>1, <1>2 DEF IsFilled
  <1>4. FreshIds'
    BY <1>3 DEF SaleInv, FreshIds
  <1>5. NonceFilledOnce'
    BY <1>3 DEF SaleInv, NonceFilledOnce
  <1> QED
    BY <1>4, <1>5

\* An ending releases its own source and no other.
LEMMA CloseKeepsSale ==
  ASSUME TypeOK, SaleInv, NEW id \in TradeIds, IsOpen(id), trades[id] \in Trade,
         NEW outcome \in {"Delivered", "Failed"}, NEW payee \in Accounts,
         Close(id, outcome, payee)
  PROVE  SaleInv'
  <1> DEFINE t == [trades[id] EXCEPT !.status = outcome]
             source == trades[id].sourceIndex
  <1>1. /\ trades \in [TradeIds -> Trade \cup {NoTrade}]
        /\ activeTradeBySource \in [Validators -> 0..MaxTrades]
    BY DEF TypeOK
  <1>2. /\ t.status = outcome /\ t.seller = trades[id].seller /\ t.nonce = trades[id].nonce
        /\ t.sourceIndex = source /\ source \in Validators
    BY DEF Trade
  <1>3. trades' = [trades EXCEPT ![id] = t]
    BY DEF Close, ReleaseSource
  <1>4. FreshIds' /\ NonceFilledOnce'
    BY <1>2, <1>3, SettledNonces, OpenIsFilled DEF Close, ReleaseSource
  <1>5. /\ trades'[id] = t
        /\ \A i \in TradeIds : i # id => trades'[i] = trades[i]
    BY <1>1, <1>3
  <1>6. /\ activeTradeBySource'[source] = 0
        /\ \A v \in Validators : v # source => activeTradeBySource'[v] = activeTradeBySource[v]
    BY <1>1, <1>2 DEF Close, ReleaseSource
  <1>7. activeTradeBySource[source] = id
    BY DEF SaleInv, SourceLock
  <1>8. ASSUME NEW i \in TradeIds, IsOpen(i)'
        PROVE  activeTradeBySource'[trades'[i].sourceIndex] = i
    <2>1. i # id
      BY <1>2, <1>5, <1>8 DEF IsOpen, OpenStatus
    <2>2. IsOpen(i) /\ trades'[i] = trades[i]
      BY <1>5, <1>8, <2>1 DEF IsOpen
    <2>3. activeTradeBySource[trades[i].sourceIndex] = i
      BY <2>2 DEF SaleInv, SourceLock
    <2>4. trades[i].sourceIndex \in Validators
      BY <1>1, <2>2, OpenIsFilled DEF IsFilled, NoTrade, Trade
    <2> QED
      BY <1>6, <1>7, <2>1, <2>2, <2>3, <2>4
  <1>9. ASSUME NEW v \in Validators, activeTradeBySource'[v] # 0
        PROVE  /\ IsOpen(activeTradeBySource[v])'
               /\ trades'[activeTradeBySource'[v]].sourceIndex = v
    <2> DEFINE i == activeTradeBySource[v]
    <2>1. v # source /\ activeTradeBySource'[v] = i /\ i # 0
      BY <1>6, <1>9
    <2>2. IsOpen(i) /\ trades[i].sourceIndex = v
      BY <2>1 DEF SaleInv, SourceLock
    <2>3. i # id
      BY <2>1, <2>2
    <2>4. i \in TradeIds
      BY <1>1, <2>1, MarketConstants DEF TradeIds
    <2>5. trades'[i] = trades[i]
      BY <1>5, <2>3, <2>4
    <2> QED
      BY <2>1, <2>2, <2>5 DEF IsOpen
  <1> QED
    BY <1>4, <1>8, <1>9 DEF SaleInv, SourceLock

\* Acceptance keeps a trade open and its source locked.
LEMMA AcceptKeepsSale ==
  ASSUME TypeOK, SaleInv, NEW id \in TradeIds, NEW state, ProveAccepted(id, state)
  PROVE  SaleInv'
  <1> DEFINE t == [trades[id] EXCEPT
                     !.withdrawableEpoch = state.val[trades[id].sourceIndex].withdrawable,
                     !.status = "Accepted"]
  <1>1. trades[id].status = "RequestSubmitted"
    BY DEF ProveAccepted, ShowsAcceptance
  <1>2. trades[id] \in Trade /\ IsOpen(id)
    BY <1>1, FilledIsTrade DEF IsOpen, OpenStatus
  <1>3. trades' = [trades EXCEPT ![id] = t]
    BY DEF ProveAccepted
  <1>4. /\ t.status = "Accepted" /\ t.seller = trades[id].seller /\ t.nonce = trades[id].nonce
        /\ t.sourceIndex = trades[id].sourceIndex
    BY <1>2 DEF Trade
  <1>5. FreshIds' /\ NonceFilledOnce'
    BY <1>2, <1>3, <1>4, SettledNonces, OpenIsFilled DEF ProveAccepted
  <1>6. activeTradeBySource' = activeTradeBySource
    BY DEF ProveAccepted
  <1>7. trades \in [TradeIds -> Trade \cup {NoTrade}]
    BY DEF TypeOK
  <1>8. \A i \in TradeIds : /\ IsOpen(i)' <=> IsOpen(i)
                            /\ trades'[i].sourceIndex = trades[i].sourceIndex
    BY <1>2, <1>3, <1>4, <1>7 DEF IsOpen, OpenStatus
  <1>9. \A v \in Validators : activeTradeBySource[v] # 0 => activeTradeBySource[v] \in TradeIds
    BY MarketConstants DEF TypeOK, TradeIds
  <1>10. SourceLock'
    <2>1. ASSUME NEW i \in TradeIds, IsOpen(i)'
          PROVE  activeTradeBySource'[trades'[i].sourceIndex] = i
      BY <1>6, <1>8, <2>1 DEF SaleInv, SourceLock
    <2>2. ASSUME NEW v \in Validators, activeTradeBySource'[v] # 0
          PROVE  /\ IsOpen(activeTradeBySource[v])'
                 /\ trades'[activeTradeBySource'[v]].sourceIndex = v
      <3>1. /\ IsOpen(activeTradeBySource[v])
            /\ trades[activeTradeBySource[v]].sourceIndex = v
            /\ activeTradeBySource[v] \in TradeIds
        BY <1>6, <1>9, <2>2 DEF SaleInv, SourceLock
      <3> QED
        BY <1>6, <1>8, <3>1 DEF IsOpen
    <2> QED
      BY <2>1, <2>2 DEF SourceLock
  <1> QED
    BY <1>5, <1>10 DEF SaleInv

LEMMA SaleStep == TypeOK /\ SaleInv /\ [MarketNext]_vars => SaleInv'
  <1> SUFFICES ASSUME TypeOK, SaleInv, [MarketNext]_vars PROVE SaleInv'
    OBVIOUS
  <1>1. ASSUME trades' = trades, activeTradeBySource' = activeTradeBySource,
               nextTradeId' = nextTradeId, nonceUsed \subseteq nonceUsed'
        PROVE  SaleInv'
    BY <1>1 DEF SaleInv, FreshIds, SourceLock, NonceFilledOnce, IsOpen, IsFilled
  <1>2. CASE AnyOffer
    BY <1>1, <1>2 DEF AnyOffer, ListOrder, ListOrderWithPolicy, CancelOrder, UseNonce,
           SetDelegation,
                      tradeVars
  <1>3. CASE AnyFill
    BY <1>3, FillKeepsSale DEF AnyFill
  <1>4. CASE SettleNext
    <2>1. PICK id \in TradeIds :
            \/ \E state \in roots :
                 \/ ProveAccepted(id, state)
                 \/ ProveDelivered(id, state)
                 \/ ProveNotAccepted(id, state)
                 \/ ProveFailed(id, state)
            \/ RefundExpired(id)
      BY <1>4 DEF SettleNext
    <2>2. IsOpen(id)
      BY <2>1 DEF ProveAccepted, ProveDelivered, ProveNotAccepted, ProveFailed, RefundExpired,
           ShowsAcceptance, ShowsDelivery, ShowsNoAcceptance, ShowsSlashing,
           Expired, MayFail, Fail,
                  IsOpen, OpenStatus
    <2>3. trades[id] \in Trade
      BY <2>2, FilledIsTrade, OpenIsFilled DEF IsFilled
    <2>4. trades[id].seller \in Accounts /\ trades[id].buyer \in Accounts
      BY <2>3 DEF Trade
    <2>5. CASE \E outcome \in {"Delivered", "Failed"}, payee \in Accounts :
                 Close(id, outcome, payee)
      BY <2>2, <2>3, <2>5, CloseKeepsSale
    <2>6. CASE \E state \in roots : ProveAccepted(id, state)
      BY <2>6, AcceptKeepsSale
    <2> QED
      BY <2>1, <2>4, <2>5, <2>6
         DEF ProveDelivered, ProveNotAccepted, ProveFailed, RefundExpired,
           Expired, MayFail, Fail
  <1>5. CASE AnyAttest
    BY <1>1, <1>5 DEF AnyAttest, Attest, tradeVars
  <1>6. CASE BeaconNext
    BY <1>1, <1>6 DEF BeaconNext, tradeVars
  <1>7. CASE UNCHANGED vars
    BY <1>1, <1>7 DEF vars, tradeVars
  <1> QED
    BY <1>2, <1>3, <1>4, <1>5, <1>6, <1>7 DEF MarketNext

(***************************************************************************)
(* However many orders, sellers, fills and failures there are, a source is *)
(* locked exactly by its open trade: no stake is in two open sales.        *)
(***************************************************************************)
THEOREM NoDoubleSale == Spec => []SourceLock
  <1>1. Spec => []SaleInv
    BY TypeCorrect, SaleInit, SaleStep, NextIsMarketNext, PTL DEF Spec
  <1> QED
    BY <1>1, PTL DEF SaleInv

(***************************************************************************)
(* However orders are listed, signed, cancelled and filled again, a nonce  *)
(* of a seller is filled at most once.                                     *)
(***************************************************************************)
THEOREM NonceOnce == Spec => []NonceFilledOnce
  <1>1. Spec => []SaleInv
    BY TypeCorrect, SaleInit, SaleStep, NextIsMarketNext, PTL DEF Spec
  <1> QED
    BY <1>1, PTL DEF SaleInv

-----------------------------------------------------------------------------
(***************************************************************************)
(* The consensus layer.  What the market's proofs rest on: facts about the *)
(* registry, the queue of pending consolidations and the ring of roots,    *)
(* which every step of the consensus layer keeps.                          *)
(***************************************************************************)

(***************************************************************************)
(* Slots and epochs                                                        *)
(***************************************************************************)
LEMMA DivBounds ==
  ASSUME NEW m \in Nat, NEW d \in Nat \ {0}
  PROVE  /\ m \div d \in Nat
         /\ d * (m \div d) <= m
         /\ m < d * (m \div d) + d
  OBVIOUS

LEMMA EpochBounds ==
  ASSUME NEW slot \in Nat
  PROVE  /\ EpochOf(slot) \in Nat
         /\ EpochOf(slot) <= slot
         /\ SlotsPerEpoch * EpochOf(slot) <= slot
         /\ slot < SlotsPerEpoch * EpochOf(slot) + SlotsPerEpoch
  <1>1. SlotsPerEpoch \in Nat \ {0}
    BY BeaconConstants
  <1>2. /\ EpochOf(slot) \in Nat
        /\ SlotsPerEpoch * EpochOf(slot) <= slot
        /\ slot < SlotsPerEpoch * EpochOf(slot) + SlotsPerEpoch
    BY <1>1, DivBounds DEF EpochOf
  <1>3. EpochOf(slot) <= SlotsPerEpoch * EpochOf(slot)
    BY <1>1, <1>2
  <1> QED
    BY <1>1, <1>2, <1>3

LEMMA EpochMonotone ==
  ASSUME NEW a \in Nat, NEW b \in Nat, a <= b
  PROVE  EpochOf(a) <= EpochOf(b)
  BY BeaconConstants DEF EpochOf

\* Roots less than a ring's length apart do not share a slot of the ring.
LEMMA RingSlotsDiffer ==
  ASSUME NEW a \in Nat, NEW b \in Nat, NEW d \in Nat \ {0}, a < b, b < a + d
  PROVE  a % d # b % d
  <1> DEFINE q == (b \div d) - (a \div d)
  <1>1. a % d = a - d * (a \div d) /\ b % d = b - d * (b \div d)
    OBVIOUS
  <1>2. a \div d \in Int /\ b \div d \in Int
    OBVIOUS
  <1>3. SUFFICES ASSUME a % d = b % d PROVE FALSE
    OBVIOUS
  <1>4. d * q = b - a /\ q \in Int
    BY <1>1, <1>2, <1>3
  <1> HIDE DEF q
  <1>5. (q >= 1 => d * q >= d) /\ (q <= 0 => d * q <= 0)
    BY <1>4
  <1> QED
    BY <1>4, <1>5

LEMMA ClockBounds ==
  ASSUME BeaconTypeOK
  PROVE  /\ now \in Nat /\ now <= MaxSlot
         /\ EpochOf(now) \in Nat /\ EpochOf(now) <= now /\ EpochOf(now) <= MaxSlot
         /\ MaxSlot \in Nat /\ ExitDelay \in Nat \ {0} /\ SlashDelay \in Nat
         /\ FarFuture \in Nat /\ MaxSlot + ExitDelay + SlashDelay < FarFuture
  <1>1. now \in Nat /\ now <= MaxSlot
    BY BeaconConstants DEF BeaconTypeOK
  <1>2. EpochOf(now) \in Nat /\ EpochOf(now) <= now
    BY <1>1, EpochBounds
  <1> QED
    BY <1>1, <1>2, BeaconConstants

(***************************************************************************)
(* The invariant                                                           *)
(***************************************************************************)
IsAccepted(v) == accepted[v].tgt # NoValidator
AcceptedPair(v) == [src |-> v, tgt |-> accepted[v].tgt]

\* Acceptance initiates the exit, so it happens once.
AcceptedExits == \A v \in Validators : IsAccepted(v) => IsExiting(validators[v])

PendingAccepted == \A i \in 1..Len(pending) : pending[i].tgt = accepted[pending[i].src].tgt

MovedAccepted ==
  \A v \in Validators : movedTo[v] # NoValidator => movedTo[v] = accepted[v].tgt

\* An accepted stake has moved or waits to, unless a slashing stops it.
AcceptedKept ==
  \A v \in Validators : IsAccepted(v) /\ ~validators[v].slashed =>
    \/ movedTo[v] = accepted[v].tgt
    \/ \E i \in 1..Len(pending) : pending[i] = AcceptedPair(v)

\* Sources become withdrawable in the order of the queue.
QueueOrdered ==
  \A i, j \in 1..Len(pending) :
    i < j /\ ~validators[pending[i].src].slashed =>
      validators[pending[i].src].withdrawable <= validators[pending[j].src].withdrawable

\* Whatever is still in the queue is not withdrawable yet.
QueueWaits ==
  \A i \in 1..Len(pending) : ~validators[pending[i].src].slashed =>
    /\ EpochOf(now) < validators[pending[i].src].withdrawable
    /\ validators[pending[i].src].withdrawable <= EpochOf(now) + ExitDelay

\* A provable state lies in the past: what it shows has happened, and a source
\* that it shows withdrawable after an accepted request has moved.
RootPast(s) ==
  /\ s.ts <= now /\ s.slot <= now
  /\ \A e \in s.pend : e.tgt = accepted[e.src].tgt
  /\ \A v \in Validators :
       /\ IsExiting(s.val[v]) => IsExiting(validators[v])
       /\ s.val[v].slashed => validators[v].slashed
       /\ IsAccepted(v) /\ ~s.val[v].slashed /\ s.val[v].withdrawable <= EpochOf(s.slot)
            => movedTo[v] = accepted[v].tgt

RootsPast == \A s \in roots : RootPast(s)

QueueInv == PendingAccepted /\ AcceptedKept /\ QueueOrdered /\ QueueWaits

ConsensusInv == AcceptedExits /\ MovedAccepted /\ QueueInv /\ RootsPast

LEMMA ConsensusInit == BeaconInit => ConsensusInv
  <1> SUFFICES ASSUME BeaconInit PROVE ConsensusInv
    OBVIOUS
  <1>1. pending = <<>> /\ Len(pending) = 0 /\ 1..Len(pending) = {}
    BY DEF BeaconInit
  <1>2. \A v \in Validators : accepted[v].tgt = NoValidator /\ movedTo[v] = NoValidator
    BY DEF BeaconInit, NoAcceptance
  <1>3. \A v \in Validators : ~validators[v].slashed /\ validators[v].withdrawable = FarFuture
    BY DEF BeaconInit
  <1>4. QueueInv
    BY <1>1, <1>2 DEF QueueInv, PendingAccepted, AcceptedKept, QueueOrdered, QueueWaits, IsAccepted
  <1>5. AcceptedExits /\ MovedAccepted
    BY <1>2 DEF AcceptedExits, MovedAccepted, IsAccepted
  <1>6. ASSUME NEW s \in roots
        PROVE  RootPast(s)
    <2>1. s.ts = StartSlot /\ s.slot = StartSlot - 1 /\ s.val = validators /\ s.pend = {}
      BY <1>1 DEF BeaconInit, SnapshotAt, EntriesOf
    <2>2. now = StartSlot /\ StartSlot \in Nat
      BY BeaconConstants DEF BeaconInit
    <2> QED
      BY <1>2, <2>1, <2>2 DEF RootPast, IsAccepted
  <1> QED
    BY <1>4, <1>5, <1>6 DEF ConsensusInv, RootsPast

(***************************************************************************)
(* One block                                                               *)
(***************************************************************************)

\* A request that is taken is acceptable, and the only one of its source.
LEMMA TakenIsAcceptable ==
  ASSUME BeaconTypeOK, NEW A \in AcceptChoices, NEW i \in A
  PROVE  LET r == requestQueue[i]
         IN /\ r \in Request /\ i \in 1..Len(requestQueue) /\ i <= Dequeued
            /\ ~IsExiting(validators[r.src]) /\ ~validators[r.src].slashed
            /\ TakenFor(A, r.src) = {i}
            /\ AcceptedAfter(A)[r.src] = [tgt |-> r.tgt, id |-> r.id]
            /\ PostState(A)[r.src] =
                 [validators[r.src] EXCEPT !.withdrawable = EpochOf(now) + ExitDelay]
  <1> DEFINE r == requestQueue[i]
  <1>1. r \in Request /\ i \in 1..Len(requestQueue) /\ A \subseteq 1..Len(requestQueue)
    BY TakenRequests
  <1>2. r.src \in Validators
    BY <1>1 DEF Request
  <1>3. A \subseteq 1..Dequeued /\ Dequeued \in Nat
    BY TakenRequests DEF AcceptChoices
  <1>4. ~IsExiting(validators[r.src]) /\ ~validators[r.src].slashed
    BY DEF AcceptChoices, Acceptable, IsActiveNotExiting
  <1>5. ASSUME NEW j \in A, requestQueue[j].src = r.src
        PROVE  j = i
    <2>1. i \in Int /\ j \in Int
      BY <1>1
    <2>2. ~(i < j) /\ ~(j < i)
      BY <1>5 DEF AcceptChoices
    <2> QED
      BY <2>1, <2>2
  <1>6. TakenFor(A, r.src) = {i}
    BY <1>5 DEF TakenFor
  <1>7. AcceptedAfter(A)[r.src] = [tgt |-> r.tgt, id |-> r.id]
    <2>1. TakenFor(A, r.src) # {} /\ (CHOOSE k \in TakenFor(A, r.src) : TRUE) = i
      BY <1>6
    <2> QED
      BY <1>2, <2>1 DEF AcceptedAfter
  <1>8. PostState(A)[r.src] = [validators[r.src] EXCEPT !.withdrawable = EpochOf(now) + ExitDelay]
    BY <1>2, <1>6 DEF PostState
  <1> QED
    BY <1>1, <1>3, <1>4, <1>6, <1>7, <1>8

LEMMA UntakenIsKept ==
  ASSUME NEW A, NEW v \in Validators, TakenFor(A, v) = {}
  PROVE  AcceptedAfter(A)[v] = accepted[v] /\ PostState(A)[v] = validators[v]
  BY DEF AcceptedAfter, PostState

\* Per validator: either its request was taken in this block, and then it was
\* not exiting and not yet accepted, or nothing about it changes.
LEMMA TakenOrKept ==
  ASSUME BeaconTypeOK, ConsensusInv, NEW A \in AcceptChoices, NEW v \in Validators
  PROVE  \/ /\ ~IsAccepted(v) /\ ~IsExiting(validators[v]) /\ ~validators[v].slashed
            /\ PostState(A)[v] = [validators[v] EXCEPT !.withdrawable = EpochOf(now) + ExitDelay]
            /\ movedTo[v] = NoValidator
            /\ \E i \in A : requestQueue[i].src = v
         \/ AcceptedAfter(A)[v] = accepted[v] /\ PostState(A)[v] = validators[v]
  <1>1. CASE TakenFor(A, v) = {}
    BY <1>1, UntakenIsKept
  <1>2. CASE TakenFor(A, v) # {}
    <2>1. PICK i \in A : requestQueue[i].src = v
      BY <1>2 DEF TakenFor
    <2>2. /\ ~IsExiting(validators[v]) /\ ~validators[v].slashed
          /\ PostState(A)[v] = [validators[v] EXCEPT !.withdrawable = EpochOf(now) + ExitDelay]
      BY <2>1, TakenIsAcceptable
    <2>3. ~IsAccepted(v)
      BY <2>2 DEF ConsensusInv, AcceptedExits
    <2>4. movedTo[v] = NoValidator
      BY <2>3 DEF ConsensusInv, MovedAccepted, IsAccepted
    <2> QED
      BY <2>1, <2>2, <2>3, <2>4
  <1> QED
    BY <1>1, <1>2

\* An entry of the queue was pending before or comes from a request taken now.
LEMMA QueueEntries ==
  ASSUME BeaconTypeOK, NEW A \in AcceptChoices, NEW f \in InOrder(A)
  PROVE  LET q == QueueAfter(f)
             m == Len(pending)
         IN /\ q \in Seq(Entry) /\ m \in Nat /\ m <= Len(q) /\ pending \in Seq(Entry)
            /\ \A i \in 1..m : q[i] = pending[i]
            /\ \A i \in 1..Len(q) : i > m =>
                 \E a \in A : q[i] = [src |-> requestQueue[a].src, tgt |-> requestQueue[a].tgt]
            /\ \A a \in A : \E i \in 1..Len(q) :
                 q[i] = [src |-> requestQueue[a].src, tgt |-> requestQueue[a].tgt]
  <1> DEFINE q == QueueAfter(f)
             m == Len(pending)
             c == Cardinality(A)
             new == NewEntries(f)
  <1>1. /\ new \in Seq(Entry) /\ Len(new) = c /\ f \in [1..c -> A] /\ c \in Nat
        /\ \A k \in 1..c : new[k] = [src |-> requestQueue[f[k]].src, tgt |-> requestQueue[f[k]].tgt]
    BY NewEntriesType, TakenRequests
  <1>2. pending \in Seq(Entry) /\ m \in Nat
    BY DEF BeaconTypeOK
  <1>3. /\ q \in Seq(Entry) /\ Len(q) = m + c
        /\ \A i \in 1..(m + c) : q[i] = IF i <= m THEN pending[i] ELSE new[i - m]
    BY <1>1, <1>2, ConcatProperties DEF QueueAfter
  <1>4. \A i \in 1..m : q[i] = pending[i]
    BY <1>1, <1>2, <1>3
  <1>5. ASSUME NEW i \in 1..Len(q), i > m
        PROVE  \E a \in A : q[i] = [src |-> requestQueue[a].src, tgt |-> requestQueue[a].tgt]
    <2>1. i - m \in 1..c /\ q[i] = new[i - m]
      BY <1>1, <1>2, <1>3, <1>5
    <2>2. f[i - m] \in A
      BY <1>1, <2>1
    <2> QED
      BY <1>1, <2>1, <2>2
  <1>6. ASSUME NEW a \in A
        PROVE  \E i \in 1..Len(q) : q[i] = [src |-> requestQueue[a].src, tgt |-> requestQueue[a].tgt]
    <2>1. PICK k \in 1..c : f[k] = a
      BY <1>1 DEF InOrder
    <2>2. m + k \in 1..Len(q) /\ ~(m + k <= m) /\ (m + k) - m = k
      BY <1>1, <1>2, <1>3
    <2>3. q[m + k] = new[k]
      BY <1>3, <2>2
    <2> QED
      BY <1>1, <2>1, <2>2, <2>3
  <1> QED
    BY <1>1, <1>2, <1>3, <1>4, <1>5, <1>6

\* What a block does to the registry, apart from the balances.
LEMMA BlockRegistry ==
  ASSUME BeaconTypeOK, NEW gap \in 1..MaxGap, NEW A \in AcceptChoices, NEW f \in InOrder(A),
         NEW n \in 0..Len(QueueAfter(f)), BlockStep(gap, A, f, n)
  PROVE  /\ \A v \in Validators :
              /\ validators'[v].withdrawable = PostState(A)[v].withdrawable
              /\ validators'[v].slashed = PostState(A)[v].slashed
         /\ now \in Nat /\ now' = now + gap /\ now' \in Nat /\ now < now' /\ now' <= MaxSlot
         /\ EpochOf(now) \in Nat /\ EpochOf(now') \in Nat /\ EpochOf(now) <= EpochOf(now')
         /\ PostState(A) \in [Validators -> ValidatorState]
  <1> DEFINE post  == PostState(A)
             moves == Moves(n, QueueAfter(f), post)
             gains == Gains(post, moves)
  <1>1. post \in [Validators -> ValidatorState]
    BY PostStateType
  <1>2. validators' = AfterMoves(post, moves, gains)
    BY DEF BlockStep
  <1>3. ASSUME NEW v \in Validators
        PROVE  /\ validators'[v].withdrawable = post[v].withdrawable
               /\ validators'[v].slashed = post[v].slashed
    <2>1. post[v] \in ValidatorState
      BY <1>1
    <2> HIDE DEF post, moves, gains
    <2> QED
      BY <1>2, <2>1 DEF AfterMoves, ValidatorState
  <1>4. now \in Nat /\ now' = now + gap /\ now' \in Nat /\ now < now' /\ now' <= MaxSlot
    BY NowEpochNat, BeaconConstants DEF BlockStep
  <1>5. EpochOf(now) \in Nat /\ EpochOf(now') \in Nat /\ EpochOf(now) <= EpochOf(now')
    <2>1. EpochOf(now) \in Nat /\ EpochOf(now') \in Nat
      BY <1>4, EpochBounds
    <2> QED
      BY <1>4, <2>1, EpochMonotone
  <1> QED
    BY <1>1, <1>3, <1>4, <1>5

\* An accepted request is never replaced, and a block slashes nobody.
LEMMA BlockKeepsPast ==
  ASSUME BeaconTypeOK, ConsensusInv, NEW gap \in 1..MaxGap, NEW A \in AcceptChoices,
         NEW f \in InOrder(A), NEW n \in 0..Len(QueueAfter(f)), BlockStep(gap, A, f, n),
         NEW v \in Validators
  PROVE  /\ IsAccepted(v) => accepted'[v] = accepted[v]
         /\ IsExiting(validators[v]) =>
              IsExiting(validators'[v]) /\ validators'[v].withdrawable = validators[v].withdrawable
         /\ validators'[v].slashed = validators[v].slashed
         /\ accepted'[v] # accepted[v] =>
              /\ ~IsExiting(validators[v]) /\ ~validators[v].slashed
              /\ validators'[v].withdrawable = EpochOf(now) + ExitDelay
  <1>1. accepted' = AcceptedAfter(A)
    BY DEF BlockStep
  <1>2. /\ validators'[v].withdrawable = PostState(A)[v].withdrawable
        /\ validators'[v].slashed = PostState(A)[v].slashed
    BY BlockRegistry
  <1>3. validators[v] \in ValidatorState
    BY DEF BeaconTypeOK
  <1>4. CASE /\ ~IsAccepted(v) /\ ~IsExiting(validators[v]) /\ ~validators[v].slashed
             /\ PostState(A)[v] = [validators[v] EXCEPT !.withdrawable = EpochOf(now) + ExitDelay]
    BY <1>2, <1>3, <1>4 DEF ValidatorState
  <1>5. CASE AcceptedAfter(A)[v] = accepted[v] /\ PostState(A)[v] = validators[v]
    BY <1>1, <1>2, <1>5 DEF IsExiting
  <1> QED
    BY <1>4, <1>5, TakenOrKept

\* The queue after this block's requests, before the epoch consumes any of it:
\* it holds accepted pairs only, in the order of their withdrawable epochs.
LEMMA BlockQueue ==
  ASSUME BeaconTypeOK, ConsensusInv, NEW gap \in 1..MaxGap, NEW A \in AcceptChoices,
         NEW f \in InOrder(A), NEW n \in 0..Len(QueueAfter(f)), BlockStep(gap, A, f, n)
  PROVE  LET q == QueueAfter(f)
         IN /\ \A i \in 1..Len(q) :
                 /\ q[i] \in Entry
                 /\ q[i].tgt = accepted'[q[i].src].tgt
                 /\ ~validators'[q[i].src].slashed =>
                      /\ EpochOf(now) < validators'[q[i].src].withdrawable
                      /\ validators'[q[i].src].withdrawable <= EpochOf(now) + ExitDelay
            /\ \A i, j \in 1..Len(q) : i < j /\ ~validators'[q[i].src].slashed =>
                 validators'[q[i].src].withdrawable <= validators'[q[j].src].withdrawable
            /\ \A v \in Validators : IsAccepted(v)' /\ ~validators'[v].slashed =>
                 \/ movedTo[v] = accepted'[v].tgt
                 \/ \E i \in 1..Len(q) : q[i] = AcceptedPair(v)'
  <1> DEFINE q == QueueAfter(f)
             m == Len(pending)
             taken(a) == [src |-> requestQueue[a].src, tgt |-> requestQueue[a].tgt]
             W(i) == validators'[q[i].src].withdrawable
             S(i) == validators'[q[i].src].slashed
  <1>1. /\ q \in Seq(Entry) /\ m \in Nat /\ m <= Len(q) /\ pending \in Seq(Entry)
        /\ \A i \in 1..m : q[i] = pending[i]
        /\ \A i \in 1..Len(q) : i > m => \E a \in A : q[i] = taken(a)
        /\ \A a \in A : \E i \in 1..Len(q) : q[i] = taken(a)
    BY QueueEntries
  <1> HIDE DEF q
  <1>2. \A i \in 1..Len(q) : q[i] \in Entry /\ q[i].src \in Validators /\ q[i].tgt \in Validators
    <2>1. \A i \in 1..Len(q) : q[i] \in Entry
      BY <1>1, ElementOfSeq
    <2> QED
      BY <2>1 DEF Entry
  <1>3. EpochOf(now) \in Nat /\ ExitDelay \in Nat \ {0} /\ EpochOf(now) + ExitDelay \in Nat
    BY NowEpochNat, BeaconConstants
  <1>4. accepted' = AcceptedAfter(A)
    BY DEF BlockStep
  <1>5. ASSUME NEW i \in 1..m
        PROVE  /\ q[i].tgt = accepted'[q[i].src].tgt
               /\ W(i) = validators[pending[i].src].withdrawable
               /\ S(i) = validators[pending[i].src].slashed
               /\ i \in 1..Len(q) /\ q[i] = pending[i]
    <2>1. i \in 1..Len(q) /\ q[i] = pending[i]
      BY <1>1
    <2>2. q[i].src \in Validators /\ q[i].tgt = accepted[q[i].src].tgt /\ q[i].tgt # NoValidator
      BY <1>2, <2>1, BeaconConstants DEF ConsensusInv, QueueInv, PendingAccepted
    <2>3. IsAccepted(q[i].src) /\ IsExiting(validators[q[i].src])
      BY <2>2 DEF ConsensusInv, AcceptedExits, IsAccepted
    <2> QED
      BY <2>1, <2>2, <2>3, BlockKeepsPast
  <1>6. ASSUME NEW i \in 1..Len(q), i > m
        PROVE  /\ q[i].tgt = accepted'[q[i].src].tgt
               /\ W(i) = EpochOf(now) + ExitDelay
    <2>1. PICK a \in A : q[i] = taken(a)
      BY <1>1, <1>6
    <2> DEFINE r == requestQueue[a]
    <2>2. /\ r \in Request
          /\ AcceptedAfter(A)[r.src] = [tgt |-> r.tgt, id |-> r.id]
          /\ PostState(A)[r.src] = [validators[r.src] EXCEPT !.withdrawable = EpochOf(now) + ExitDelay]
      BY TakenIsAcceptable
    <2>3. r.src \in Validators /\ validators[r.src] \in ValidatorState
      BY <2>2 DEF Request, BeaconTypeOK
    <2>4. PostState(A)[r.src].withdrawable = EpochOf(now) + ExitDelay
      BY <2>2, <2>3 DEF ValidatorState
    <2>5. validators'[r.src].withdrawable = EpochOf(now) + ExitDelay
      BY <2>3, <2>4, BlockRegistry
    <2>6. q[i].src = r.src /\ q[i].tgt = r.tgt
      BY <2>1
    <2> QED
      BY <1>4, <2>2, <2>5, <2>6
  <1>7. ASSUME NEW i \in 1..Len(q), ~S(i)
        PROVE  EpochOf(now) < W(i) /\ W(i) <= EpochOf(now) + ExitDelay
    <2>1. CASE i <= m
      <3>1. i \in 1..m
        BY <2>1
      <3> QED
        BY <1>5, <1>7, <3>1 DEF ConsensusInv, QueueInv, QueueWaits
    <2>2. CASE i > m
      BY <1>3, <1>6, <2>2
    <2> QED
      BY <1>1, <2>1, <2>2
  <1>8. ASSUME NEW i \in 1..Len(q), NEW j \in 1..Len(q), i < j, ~S(i)
        PROVE  W(i) <= W(j)
    <2>1. CASE j <= m
      <3>1. i \in 1..m /\ j \in 1..m
        BY <1>8, <2>1
      <3> QED
        BY <1>5, <1>8, <3>1 DEF ConsensusInv, QueueInv, QueueOrdered
    <2>2. CASE j > m
      BY <1>6, <1>7, <1>8, <2>2
    <2> QED
      BY <1>1, <2>1, <2>2
  <1>9. ASSUME NEW v \in Validators, IsAccepted(v)', ~validators'[v].slashed
        PROVE  \/ movedTo[v] = accepted'[v].tgt
               \/ \E i \in 1..Len(q) : q[i] = AcceptedPair(v)'
    <2>1. CASE accepted'[v] = accepted[v]
      <3>1. IsAccepted(v) /\ ~validators[v].slashed
        BY <1>9, <2>1, BlockKeepsPast DEF IsAccepted
      <3>2. \/ movedTo[v] = accepted[v].tgt
            \/ \E i \in 1..m : pending[i] = AcceptedPair(v)
        BY <3>1 DEF ConsensusInv, QueueInv, AcceptedKept
      <3>3. AcceptedPair(v)' = AcceptedPair(v)
        BY <2>1 DEF AcceptedPair
      <3> QED
        BY <1>5, <2>1, <3>2, <3>3
    <2>2. CASE accepted'[v] # accepted[v]
      <3>1. PICK a \in A : requestQueue[a].src = v
        BY <1>4, <2>2, TakenOrKept
      <3>2. accepted'[v] = [tgt |-> requestQueue[a].tgt, id |-> requestQueue[a].id]
        BY <1>4, <3>1, TakenIsAcceptable
      <3>3. AcceptedPair(v)' = taken(a)
        BY <3>1, <3>2 DEF AcceptedPair
      <3> QED
        BY <1>1, <3>3
    <2> QED
      BY <2>1, <2>2
  <1>10. \A i \in 1..Len(q) : q[i].tgt = accepted'[q[i].src].tgt
    <2> TAKE i \in 1..Len(q)
    <2>1. i <= m => i \in 1..m
      OBVIOUS
    <2> QED
      BY <1>1, <1>5, <1>6, <2>1
  <1> QED
    BY <1>2, <1>7, <1>8, <1>9, <1>10 DEF q

\* The balances a block moves are those of consumed, unslashed pairs.
LEMMA BlockMoves ==
  ASSUME BeaconTypeOK, ConsensusInv, NEW gap \in 1..MaxGap, NEW A \in AcceptChoices,
         NEW f \in InOrder(A), NEW n \in 0..Len(QueueAfter(f)), BlockStep(gap, A, f, n)
  PROVE  LET q == QueueAfter(f)
         IN /\ \A v \in Validators : movedTo'[v] = movedTo[v] \/ movedTo'[v] = accepted'[v].tgt
            /\ \A i \in 1..n : i \in 1..Len(q) /\ ~validators'[q[i].src].slashed =>
                 movedTo'[q[i].src] = accepted'[q[i].src].tgt
            /\ \A v \in Validators : movedTo[v] # NoValidator =>
                 movedTo'[v] = movedTo[v] /\ movedTo[v] = accepted'[v].tgt
  <1> DEFINE q     == QueueAfter(f)
             post  == PostState(A)
             moves == Moves(n, q, post)
  <1>1. \A i \in 1..Len(q) : q[i] \in Entry /\ q[i].tgt = accepted'[q[i].src].tgt
    BY BlockQueue
  <1>2. q \in Seq(Entry) /\ Len(q) \in Nat /\ n \in 0..Len(q)
    BY QueueEntries
  <1>3. movedTo' = MovedAfter(moves)
    BY DEF BlockStep
  <1>4. ASSUME NEW e \in moves
        PROVE  e.src \in Validators /\ e.tgt = accepted'[e.src].tgt
    <2>1. PICK i \in 1..n : e = q[i]
      BY DEF Moves
    <2>2. i \in 1..Len(q)
      BY <1>2
    <2> QED
      BY <1>1, <2>1, <2>2 DEF Entry
  <1>5. ASSUME NEW v \in Validators, \E e \in moves : e.src = v
        PROVE  movedTo'[v] = accepted'[v].tgt
    <2> DEFINE e == CHOOSE e \in moves : e.src = v
    <2>1. e \in moves /\ e.src = v
      BY <1>5
    <2>2. movedTo'[v] = e.tgt
      BY <1>3, <1>5 DEF MovedAfter
    <2> QED
      BY <1>4, <2>1, <2>2
  <1>6. ASSUME NEW v \in Validators, ~ \E e \in moves : e.src = v
        PROVE  movedTo'[v] = movedTo[v]
    BY <1>3, <1>6 DEF MovedAfter
  <1>7. ASSUME NEW i \in 1..n, i \in 1..Len(q), ~validators'[q[i].src].slashed
        PROVE  movedTo'[q[i].src] = accepted'[q[i].src].tgt
    <2>1. q[i].src \in Validators
      BY <1>1, <1>7 DEF Entry
    <2>2. ~post[q[i].src].slashed
      BY <1>7, <2>1, BlockRegistry
    <2>3. q[i] \in moves
      BY <2>2 DEF Moves
    <2> QED
      BY <1>5, <2>1, <2>3
  <1>8. ASSUME NEW v \in Validators, movedTo[v] # NoValidator
        PROVE  movedTo'[v] = movedTo[v] /\ movedTo[v] = accepted'[v].tgt
    <2>1. movedTo[v] = accepted[v].tgt /\ IsAccepted(v)
      BY <1>8 DEF ConsensusInv, MovedAccepted, IsAccepted
    <2>2. accepted'[v] = accepted[v]
      BY <2>1, BlockKeepsPast
    <2> QED
      BY <1>5, <1>6, <2>1, <2>2
  <1> QED
    BY <1>5, <1>6, <1>7, <1>8

\* What the epoch leaves in the queue is not withdrawable: the epoch stops at
\* the first such pair, and later ones become withdrawable later.
LEMMA BlockKeepsQueue ==
  ASSUME BeaconTypeOK, ConsensusInv, NEW gap \in 1..MaxGap, NEW A \in AcceptChoices,
         NEW f \in InOrder(A), NEW n \in 0..Len(QueueAfter(f)), BlockStep(gap, A, f, n)
  PROVE  QueueInv'
  <1> DEFINE q == QueueAfter(f)
             L == Len(q)
             W(i) == validators'[q[i].src].withdrawable
             S(i) == validators'[q[i].src].slashed
  <1>1. /\ \A i \in 1..L :
             /\ q[i] \in Entry
             /\ q[i].tgt = accepted'[q[i].src].tgt
             /\ ~S(i) => EpochOf(now) < W(i) /\ W(i) <= EpochOf(now) + ExitDelay
        /\ \A i, j \in 1..L : i < j /\ ~S(i) => W(i) <= W(j)
        /\ \A v \in Validators : IsAccepted(v)' /\ ~validators'[v].slashed =>
             \/ movedTo[v] = accepted'[v].tgt
             \/ \E i \in 1..L : q[i] = AcceptedPair(v)'
    BY BlockQueue
  <1>2. q \in Seq(Entry) /\ L \in Nat /\ n \in 0..L
    BY QueueEntries
  <1>3. /\ EpochOf(now) \in Nat /\ EpochOf(now') \in Nat /\ EpochOf(now) <= EpochOf(now')
        /\ ExitDelay \in Nat \ {0} /\ now' = now + gap
    BY BlockRegistry, BeaconConstants
  <1>4. pending' = SubSeq(q, n + 1, L)
    BY DEF BlockStep
  <1>5. \A i \in 1..L : q[i].src \in Validators /\ W(i) \in Nat
    <2>1. BeaconTypeOK'
      BY BlockStepType
    <2> QED
      BY <1>1, <2>1 DEF Entry, BeaconTypeOK, ValidatorState
  <1>6. /\ Len(pending') = L - n /\ Len(pending') \in Nat
        /\ \A i \in 1..Len(pending') : pending'[i] = q[i + n] /\ i + n \in 1..L
    <2>1. \A i \in (n + 1)..L : q[i] \in Entry
      BY <1>1, <1>2
    <2>2. Len(pending') = IF n + 1 <= L THEN L - (n + 1) + 1 ELSE 0
      BY <1>2, <1>4, <2>1, SubSeqProperties
    <2>3. Len(pending') = L - n
      BY <1>2, <2>2
    <2>4. ASSUME NEW i \in 1..(L - n)
          PROVE  pending'[i] = q[i + n] /\ i + n \in 1..L
      <3>1. i + n \in 1..L /\ (n + 1) + i - 1 = i + n
        BY <1>2
      <3> QED
        BY <1>2, <1>4, <2>1, <2>2, <3>1, SubSeqProperties
    <2> QED
      BY <1>2, <2>3, <2>4
  <1> HIDE DEF q
  <1>7. ASSUME NEW i \in 1..L, n < i, ~S(i)
        PROVE  EpochOf(now') < W(i)
    <2>1. CASE EpochOf(now') > EpochOf(now)
      <3>1. Consumes(n, q, PostState(A), EpochOf(now'))
        BY <1>3, <2>1 DEF BlockStep, q
      <3>2. n + 1 \in 1..L /\ n < L
        BY <1>2, <1>7
      <3>3. /\ ~PostState(A)[q[n + 1].src].slashed
            /\ ~(PostState(A)[q[n + 1].src].withdrawable <= EpochOf(now'))
        BY <3>1, <3>2 DEF Consumes, q
      <3>4. ~S(n + 1) /\ ~(W(n + 1) <= EpochOf(now'))
        BY <1>5, <3>2, <3>3, BlockRegistry
      <3>5. W(n + 1) <= W(i)
        <4>1. CASE i = n + 1
          BY <1>5, <4>1
        <4>2. CASE i # n + 1
          BY <1>1, <1>2, <1>7, <3>2, <3>4, <4>2
        <4> QED
          BY <4>1, <4>2
      <3> QED
        BY <1>3, <1>5, <3>2, <3>4, <3>5
    <2>2. CASE ~(EpochOf(now') > EpochOf(now))
      BY <1>1, <1>3, <1>7, <2>2
    <2> QED
      BY <2>1, <2>2
  <1>8. PendingAccepted'
    BY <1>1, <1>6 DEF PendingAccepted
  <1>9. QueueOrdered'
    <2> SUFFICES ASSUME NEW i \in 1..Len(pending'), NEW j \in 1..Len(pending'), i < j,
                        ~validators'[pending'[i].src].slashed
                 PROVE  validators'[pending'[i].src].withdrawable
                          <= validators'[pending'[j].src].withdrawable
      BY DEF QueueOrdered
    <2>1. i + n \in 1..L /\ j + n \in 1..L /\ i + n < j + n
      BY <1>2, <1>6
    <2> QED
      BY <1>1, <1>6, <2>1
  <1>10. QueueWaits'
    <2> SUFFICES ASSUME NEW i \in 1..Len(pending'), ~validators'[pending'[i].src].slashed
                 PROVE  /\ EpochOf(now') < validators'[pending'[i].src].withdrawable
                        /\ validators'[pending'[i].src].withdrawable <= EpochOf(now') + ExitDelay
      BY DEF QueueWaits
    <2>1. i + n \in 1..L /\ n < i + n /\ pending'[i] = q[i + n]
      BY <1>2, <1>6
    <2>2. EpochOf(now') < W(i + n)
      BY <1>7, <2>1
    <2>3. W(i + n) <= EpochOf(now) + ExitDelay
      BY <1>1, <2>1
    <2> QED
      BY <1>3, <1>5, <2>1, <2>2, <2>3
  <1>11. AcceptedKept'
    <2> SUFFICES ASSUME NEW v \in Validators, IsAccepted(v)', ~validators'[v].slashed
                 PROVE  \/ movedTo'[v] = accepted'[v].tgt
                        \/ \E i \in 1..Len(pending') : pending'[i] = AcceptedPair(v)'
      BY DEF AcceptedKept
    <2>1. CASE movedTo[v] = accepted'[v].tgt
      BY <2>1, BlockMoves
    <2>2. ASSUME NEW i \in 1..L, q[i] = AcceptedPair(v)'
          PROVE  \/ movedTo'[v] = accepted'[v].tgt
                 \/ \E k \in 1..Len(pending') : pending'[k] = AcceptedPair(v)'
      <3>1. q[i].src = v
        BY <2>2 DEF AcceptedPair
      <3>2. CASE i <= n
        <4>1. i \in 1..n
          BY <1>2, <3>2
        <4> QED
          BY <3>1, <4>1, BlockMoves DEF q
      <3>3. CASE i > n
        <4>1. i - n \in 1..Len(pending') /\ (i - n) + n = i
          BY <1>2, <1>6, <3>3
        <4> QED
          BY <1>6, <2>2, <4>1
      <3> QED
        BY <1>2, <3>2, <3>3
    <2> QED
      BY <1>1, <2>1, <2>2
  <1> QED
    BY <1>8, <1>9, <1>10, <1>11 DEF QueueInv

LEMMA BlockKeepsRoots ==
  ASSUME BeaconTypeOK, ConsensusInv, NEW gap \in 1..MaxGap, NEW A \in AcceptChoices,
         NEW f \in InOrder(A), NEW n \in 0..Len(QueueAfter(f)), BlockStep(gap, A, f, n)
  PROVE  RootsPast'
  <1> DEFINE post == PostState(A)
             q    == QueueAfter(f)
             new  == SnapshotAt(now', now, post, q)
  <1>1. /\ now \in Nat /\ now' \in Nat /\ now < now' /\ now <= MaxSlot
        /\ EpochOf(now) \in Nat /\ ExitDelay \in Nat \ {0} /\ MaxSlot \in Nat
        /\ FarFuture \in Nat /\ MaxSlot < FarFuture
    BY BlockRegistry, BeaconConstants
  <1>2. \A s \in roots' : s \in roots \/ s = new
    BY DEF BlockStep, RingAfter
  <1>3. \A v \in Validators : /\ post[v] \in ValidatorState
                              /\ validators'[v].withdrawable = post[v].withdrawable
                              /\ validators'[v].slashed = post[v].slashed
    BY BlockRegistry
  <1>4. ASSUME NEW s \in roots
        PROVE  RootPast(s)'
    <2>1. RootPast(s) /\ s \in Snapshot
      BY DEF ConsensusInv, RootsPast, BeaconTypeOK
    <2>2. /\ s.slot \in Nat /\ s.ts \in Nat
          /\ \A v \in Validators : s.val[v].withdrawable \in Nat
          /\ \A e \in s.pend : e.src \in Validators /\ e.tgt \in Validators
      BY <2>1 DEF Snapshot, ValidatorState, Entry
    <2>3. s.ts <= now' /\ s.slot <= now'
      BY <1>1, <2>1, <2>2 DEF RootPast
    <2>4. ASSUME NEW e \in s.pend
          PROVE  e.tgt = accepted'[e.src].tgt
      <3>1. e.tgt = accepted[e.src].tgt /\ IsAccepted(e.src)
        BY <2>1, <2>2, BeaconConstants DEF RootPast, IsAccepted
      <3> QED
        BY <2>2, <3>1, BlockKeepsPast
    <2>5. ASSUME NEW v \in Validators
          PROVE  /\ IsExiting(s.val[v]) => IsExiting(validators'[v])
                 /\ s.val[v].slashed => validators'[v].slashed
      BY <2>1, BlockKeepsPast DEF RootPast
    <2>6. ASSUME NEW v \in Validators, IsAccepted(v)', ~s.val[v].slashed,
                 s.val[v].withdrawable <= EpochOf(s.slot)
          PROVE  movedTo'[v] = accepted'[v].tgt
      <3>1. CASE accepted'[v] = accepted[v]
        <4>1. IsAccepted(v) /\ movedTo[v] = accepted[v].tgt
          BY <2>1, <2>6, <3>1 DEF RootPast, IsAccepted
        <4> QED
          BY <3>1, <4>1, BlockMoves DEF IsAccepted
      <3>2. CASE accepted'[v] # accepted[v]
        <4>1. ~IsExiting(validators[v])
          BY <3>2, BlockKeepsPast
        <4>2. s.val[v].withdrawable = FarFuture
          BY <2>1, <4>1 DEF RootPast, IsExiting
        <4>3. EpochOf(s.slot) <= s.slot /\ EpochOf(s.slot) \in Nat /\ s.slot <= now
          BY <2>1, <2>2, EpochBounds DEF RootPast
        <4> QED
          BY <1>1, <2>2, <2>6, <4>2, <4>3
      <3> QED
        BY <3>1, <3>2
    <2> QED
      BY <2>3, <2>4, <2>5, <2>6 DEF RootPast
  <1>5. ASSUME NEW s, s = new
        PROVE  RootPast(s)'
    <2>1. /\ s.ts = now' /\ s.slot = now /\ s.val = post
          /\ s.pend = {q[i] : i \in 1..Len(q)}
      BY <1>5 DEF SnapshotAt, EntriesOf
    <2>2. \A e \in s.pend : e.tgt = accepted'[e.src].tgt
      BY <2>1, BlockQueue
    <2>3. ASSUME NEW v \in Validators
          PROVE  /\ IsExiting(post[v]) => IsExiting(validators'[v])
                 /\ post[v].slashed => validators'[v].slashed
      BY <1>3 DEF IsExiting
    <2>4. ASSUME NEW v \in Validators, IsAccepted(v)', ~post[v].slashed,
                 post[v].withdrawable <= EpochOf(now)
          PROVE  movedTo'[v] = accepted'[v].tgt
      <3>1. ~(EpochOf(now) < validators'[v].withdrawable)
        BY <1>1, <1>3, <2>4 DEF ValidatorState
      <3>2. \/ movedTo[v] = accepted'[v].tgt
            \/ \E i \in 1..Len(q) : q[i] = AcceptedPair(v)'
        BY <1>3, <2>4, BlockQueue
      <3>3. ASSUME NEW i \in 1..Len(q), q[i] = AcceptedPair(v)'
            PROVE  FALSE
        <4>1. q[i].src = v
          BY <3>3 DEF AcceptedPair
        <4>2. ~validators'[q[i].src].slashed
          BY <1>3, <2>4, <4>1
        <4> QED
          BY <3>1, <4>1, <4>2, BlockQueue
      <3>4. movedTo[v] = accepted'[v].tgt
        BY <3>2, <3>3
      <3> QED
        BY <2>4, <3>4, BlockMoves DEF IsAccepted
    <2> HIDE DEF new, post
    <2> QED
      BY <1>1, <2>1, <2>2, <2>3, <2>4 DEF RootPast
  <1> QED
    BY <1>2, <1>4, <1>5 DEF RootsPast

LEMMA BlockKeepsConsensus ==
  ASSUME BeaconTypeOK, ConsensusInv, NEW gap \in 1..MaxGap, NEW A \in AcceptChoices,
         NEW f \in InOrder(A), NEW n \in 0..Len(QueueAfter(f)), BlockStep(gap, A, f, n)
  PROVE  ConsensusInv'
  <1>1. AcceptedExits'
    <2> SUFFICES ASSUME NEW v \in Validators, IsAccepted(v)'
                 PROVE  IsExiting(validators'[v])
      BY DEF AcceptedExits
    <2>1. CASE accepted'[v] = accepted[v]
      BY <2>1, BlockKeepsPast DEF ConsensusInv, AcceptedExits, IsAccepted
    <2>2. CASE accepted'[v] # accepted[v]
      <3>1. validators'[v].withdrawable = EpochOf(now) + ExitDelay
        BY <2>2, BlockKeepsPast
      <3>2. EpochOf(now) <= now /\ now \in Nat /\ now <= MaxSlot /\ EpochOf(now) \in Nat
        BY ClockBounds
      <3> QED
        BY <3>1, <3>2, BeaconConstants DEF IsExiting
    <2> QED
      BY <2>1, <2>2
  <1>2. MovedAccepted'
    BY BlockMoves DEF MovedAccepted
  <1> QED
    BY <1>1, <1>2, BlockKeepsQueue, BlockKeepsRoots DEF ConsensusInv

(***************************************************************************)
(* The other steps of the consensus layer                                  *)
(***************************************************************************)

\* Steps that only add requests to the predeploy, or do not touch it at all.
LEMMA RequestsKeepConsensus ==
  ASSUME ConsensusInv, UNCHANGED <<now, validators, pending, roots, accepted, movedTo>>
  PROVE  ConsensusInv'
  BY DEF ConsensusInv, AcceptedExits, MovedAccepted, QueueInv, PendingAccepted, AcceptedKept,
         QueueOrdered, QueueWaits, RootsPast, RootPast, IsAccepted, AcceptedPair

\* Steps of one validator: it keeps exiting, it keeps being slashed, and while
\* it is not slashed, an exit that was initiated keeps its epoch.
RegistryMoves ==
  /\ UNCHANGED <<now, pending, requestQueue, roots, accepted, movedTo>>
  /\ \A v \in Validators :
       /\ IsExiting(validators[v]) => IsExiting(validators'[v])
       /\ validators[v].slashed => validators'[v].slashed
       /\ IsExiting(validators[v]) => validators[v].withdrawable <= validators'[v].withdrawable
       /\ IsExiting(validators[v]) /\ ~validators'[v].slashed =>
            validators'[v].withdrawable = validators[v].withdrawable

LEMMA RegistryKeepsConsensus ==
  ASSUME BeaconTypeOK, ConsensusInv, BeaconTypeOK', RegistryMoves
  PROVE  ConsensusInv'
  <1> USE DEF RegistryMoves
  <1>1. \A i \in 1..Len(pending) : pending[i] \in Entry /\ pending[i].src \in Validators
    <2>1. \A i \in 1..Len(pending) : pending[i] \in Entry
      BY ElementOfSeq DEF BeaconTypeOK
    <2> QED
      BY <2>1 DEF Entry
  <1>2. \A i \in 1..Len(pending) : IsExiting(validators[pending[i].src])
    <2> TAKE i \in 1..Len(pending)
    <2>1. pending[i].tgt \in Validators
      BY <1>1 DEF Entry
    <2> QED
      BY <1>1, <2>1, BeaconConstants
         DEF ConsensusInv, QueueInv, PendingAccepted, AcceptedExits, IsAccepted
  <1>3. AcceptedExits' /\ MovedAccepted' /\ PendingAccepted' /\ AcceptedKept'
    BY DEF ConsensusInv, AcceptedExits, MovedAccepted, QueueInv, PendingAccepted, AcceptedKept,
           IsAccepted, AcceptedPair
  <1>4. \A v \in Validators : validators[v].withdrawable \in Nat /\ validators'[v].withdrawable \in Nat
    BY DEF BeaconTypeOK, ValidatorState
  <1>5. QueueOrdered'
    <2> SUFFICES ASSUME NEW i \in 1..Len(pending), NEW j \in 1..Len(pending), i < j,
                        ~validators'[pending[i].src].slashed
                 PROVE  validators'[pending[i].src].withdrawable
                          <= validators'[pending[j].src].withdrawable
      BY DEF QueueOrdered
    <2>1. /\ validators'[pending[i].src].withdrawable = validators[pending[i].src].withdrawable
          /\ ~validators[pending[i].src].slashed
      BY <1>1, <1>2
    <2>2. validators[pending[j].src].withdrawable <= validators'[pending[j].src].withdrawable
      BY <1>1, <1>2
    <2>3. validators[pending[i].src].withdrawable <= validators[pending[j].src].withdrawable
      BY <2>1 DEF ConsensusInv, QueueInv, QueueOrdered
    <2> QED
      BY <1>1, <1>4, <2>1, <2>2, <2>3
  <1>6. QueueWaits'
    BY <1>1, <1>2 DEF ConsensusInv, QueueInv, QueueWaits
  <1>7. RootsPast'
    BY DEF ConsensusInv, RootsPast, RootPast, IsAccepted
  <1> QED
    BY <1>3, <1>5, <1>6, <1>7 DEF ConsensusInv, QueueInv

LEMMA ExitMovesRegistry ==
  ASSUME BeaconTypeOK, NEW v \in Validators, Exit(v)
  PROVE  RegistryMoves
  <1>1. EpochOf(now) + ExitDelay \in Nat /\ EpochOf(now) + ExitDelay # FarFuture
    BY ClockBounds
  <1>2. /\ ~IsExiting(validators[v])
        /\ validators' = [validators EXCEPT ![v].withdrawable = EpochOf(now) + ExitDelay]
    BY DEF Exit, IsActiveNotExiting
  <1>3. \A w \in Validators : w # v => validators'[w] = validators[w]
    BY <1>2 DEF BeaconTypeOK
  <1>4. /\ validators'[v].withdrawable = EpochOf(now) + ExitDelay
        /\ validators'[v].slashed = validators[v].slashed
    BY <1>2 DEF BeaconTypeOK, ValidatorState
  <1>5. \A w \in Validators : validators[w].withdrawable \in Nat
    BY DEF BeaconTypeOK, ValidatorState
  <1> QED
    BY <1>1, <1>2, <1>3, <1>4, <1>5 DEF Exit, IsExiting, RegistryMoves

LEMMA SlashMovesRegistry ==
  ASSUME BeaconTypeOK, NEW v \in Validators, Slash(v)
  PROVE  RegistryMoves
  <1> DEFINE w == validators[v].withdrawable
             e == EpochOf(now) + SlashDelay
  <1>1. e \in Nat /\ e < FarFuture /\ FarFuture \in Nat
    BY ClockBounds
  <1>2. validators' = [validators EXCEPT
            ![v].slashed = TRUE,
            ![v].withdrawable = IF @ = FarFuture THEN e ELSE MaxOf(@, e)]
    BY DEF Slash
  <1>3. \A u \in Validators : u # v => validators'[u] = validators[u]
    BY <1>2 DEF BeaconTypeOK
  <1>4. /\ validators'[v].withdrawable = IF w = FarFuture THEN e ELSE MaxOf(w, e)
        /\ validators'[v].slashed
    BY <1>2 DEF BeaconTypeOK, ValidatorState
  <1>5. \A u \in Validators : validators[u].withdrawable \in Nat
    BY DEF BeaconTypeOK, ValidatorState
  <1>6. IsExiting(validators[v]) => IsExiting(validators'[v]) /\ w <= validators'[v].withdrawable
    BY <1>1, <1>4, <1>5 DEF IsExiting, MaxOf
  <1> HIDE DEF w, e
  <1>7. \A u \in Validators :
           /\ IsExiting(validators[u]) => IsExiting(validators'[u])
           /\ validators[u].slashed => validators'[u].slashed
           /\ IsExiting(validators[u]) => validators[u].withdrawable <= validators'[u].withdrawable
           /\ IsExiting(validators[u]) /\ ~validators'[u].slashed =>
                validators'[u].withdrawable = validators[u].withdrawable
    BY <1>3, <1>4, <1>5, <1>6 DEF w
  <1> QED
    BY <1>7 DEF Slash, RegistryMoves

LEMMA SweepMovesRegistry ==
  ASSUME BeaconTypeOK, NEW v \in Validators, Sweep(v)
  PROVE  RegistryMoves
  <1>1. validators' = [validators EXCEPT ![v].balance = 0]
    BY DEF Sweep
  <1>2. \A u \in Validators : /\ validators'[u].withdrawable = validators[u].withdrawable
                              /\ validators'[u].slashed = validators[u].slashed
                              /\ validators[u].withdrawable \in Nat
    BY <1>1 DEF BeaconTypeOK, ValidatorState
  <1> QED
    BY <1>2 DEF Sweep, IsExiting, RegistryMoves

LEMMA BeaconSteps ==
  ASSUME BeaconTypeOK, BeaconNext
  PROVE  OwnRequest \/ NewBlock \/ RegistryMoves
  BY ExitMovesRegistry, SlashMovesRegistry, SweepMovesRegistry, BeaconConstants DEF BeaconNext

LEMMA ConsensusStep == TypeOK /\ ConsensusInv /\ [MarketNext]_vars => ConsensusInv'
  <1> SUFFICES ASSUME TypeOK, ConsensusInv, [MarketNext]_vars PROVE ConsensusInv'
    OBVIOUS
  <1>1. BeaconTypeOK /\ BeaconTypeOK'
    BY StepType DEF TypeOK
  <1>2. CASE UNCHANGED <<now, validators, pending, roots, accepted, movedTo>>
    BY <1>2, RequestsKeepConsensus
  <1>3. CASE AnyFill
    BY <1>2, <1>3 DEF AnyFill, FillFor, RequestConsolidation
  <1>4. CASE BeaconNext
    <2>1. CASE OwnRequest
      BY <1>2, <2>1 DEF OwnRequest
    <2>2. CASE NewBlock
      BY <1>1, <2>2, BlockKeepsConsensus DEF NewBlock
    <2>3. CASE RegistryMoves
      BY <1>1, <2>3, RegistryKeepsConsensus
    <2> QED
      BY <1>1, <1>4, <2>1, <2>2, <2>3, BeaconSteps
  <1>5. CASE AnyOffer \/ AnyAttest \/ UNCHANGED vars
    BY <1>2, <1>5 DEF AnyOffer, ListOrder, ListOrderWithPolicy, CancelOrder, UseNonce,
       SetDelegation, AnyAttest, Attest, vars, beaconVars
  <1>6. CASE SettleNext
    BY <1>2, <1>6 DEF SettleNext, ProveAccepted, ProveDelivered, ProveNotAccepted, ProveFailed,
       RefundExpired, Fail, Close, beaconVars
  <1> QED
    BY <1>3, <1>4, <1>5, <1>6 DEF MarketNext

(***************************************************************************)
(* Whatever is requested, dropped, slashed and swept, an accepted stake    *)
(* waits in the queue until it moves to the target it was accepted for,    *)
(* and what a root in the ring shows has happened.                         *)
(***************************************************************************)
THEOREM ConsensusKept == Spec => []ConsensusInv
  <1>1. Init => ConsensusInv
    BY ConsensusInit DEF Init
  <1> QED
    BY <1>1, ConsensusStep, NextIsMarketNext, TypeCorrect, PTL DEF Spec

(***************************************************************************)
(* The invariant                                                           *)
(***************************************************************************)

\* The request at place i of the predeploy's queue is its trade's, and it has
\* waited no longer than the blocks that brought it there.
RequestOfTrade(i) ==
  LET r == requestQueue[i]
      t == trades[r.id]
  IN /\ r.id < nextTradeId /\ IsFilled(r.id)
     /\ r.src = t.sourceIndex /\ r.tgt = t.targetIndex
     /\ r.sender = WithdrawalAddress[r.src]
     /\ (now - t.filledAt) * DequeueRate <= (QueueCap - i) * MaxGap

RequestsOfTrades == \A i \in 1..Len(requestQueue) : requestQueue[i].id # 0 => RequestOfTrade(i)

FilledInPast == \A id \in TradeIds : IsFilled(id) => trades[id].filledAt <= now

AcceptedIds == \A v \in Validators : accepted[v].id < nextTradeId

\* A root that proves the contrary of an acceptance is older than the delay.
SeenAfterDelay(id) ==
  \A s \in roots : s.ts > trades[id].filledAt + DequeueDelay =>
    IsExiting(s.val[trades[id].sourceIndex])

ExitsLate(id) ==
  EpochOf(trades[id].filledAt) + ExitDelay <= validators[trades[id].sourceIndex].withdrawable

\* The first block in whose epoch the pair can be consumed comes at this slot.
FirstMove(id) == trades[id].filledAt + (ExitDelay - 1) * SlotsPerEpoch + 1

\* A root proves the acceptance of `id`: the newest one while the pair is
\* pending, and one that stays in the ring to the end of the window after it.
LastingProof(id) ==
  LET t    == trades[id]
      pair == [src |-> t.sourceIndex, tgt |-> t.targetIndex]
  IN \E s \in roots :
       /\ s.ts > t.filledAt /\ pair \in s.pend
       /\ \/ s.ts = now /\ \E i \in 1..Len(pending) : pending[i] = pair
          \/ FirstMove(id) <= s.ts

ProofLasts(id) ==
  /\ ~validators[trades[id].sourceIndex].slashed
  /\ now <= trades[id].filledAt + AcceptWindow
  => LastingProof(id)

AcceptanceShown ==
  \A id \in TradeIds : OwnRequestAccepted(id) =>
    SeenAfterDelay(id) /\ ExitsLate(id) /\ ProofLasts(id)

TermsInv == RequestsOfTrades /\ FilledInPast /\ AcceptedIds /\ AcceptanceShown

\* A trade is proven accepted only by its own pair.
AcceptedTrades ==
  \A id \in WithStatus({"Accepted", "Delivered"}) :
    accepted[trades[id].sourceIndex].tgt = trades[id].targetIndex

OutcomeInv == AcceptedTrades /\ DeliveredStakeMoved /\ RefundKillsRequest

(***************************************************************************)
(* The queue of the predeploy drains within the delay                      *)
(***************************************************************************)
LEMMA QueueAdvances ==
  ASSUME NEW waited \in Int, NEW rate \in Int, NEW places \in Int, NEW gap \in Nat,
         NEW maxGap \in Nat, gap <= maxGap, rate >= 0,
         waited * rate <= (places - rate) * maxGap
  PROVE  (waited + gap) * rate <= places * maxGap
  <1>1. (waited + gap) * rate = waited * rate + gap * rate
    OBVIOUS
  <1>2. gap * rate <= maxGap * rate
    OBVIOUS
  <1>3. (places - rate) * maxGap = places * maxGap - maxGap * rate
    OBVIOUS
  <1>4. /\ waited * rate \in Int /\ gap * rate \in Int /\ maxGap * rate \in Int
        /\ places * maxGap \in Int
    OBVIOUS
  <1> QED
    BY <1>1, <1>2, <1>3, <1>4

LEMMA ProductNat ==
  ASSUME NEW a \in Nat, NEW b \in Nat
  PROVE  a * b \in Nat
  OBVIOUS

LEMMA QueueConstants == QueueCap \in Nat /\ MaxGap \in Nat /\ DequeueRate \in Nat
  BY BeaconConstants

LEMMA ProductBelow ==
  ASSUME NEW a \in Int, NEW b \in Int, NEW r \in Nat \ {0}, a * r < r * b
  PROVE  a < b
  <1>1. r * b - a * r = r * (b - a)
    OBVIOUS
  <1>2. b - a <= 0 => r * (b - a) <= 0
    OBVIOUS
  <1> QED
    BY <1>1, <1>2

\* A request that still waits was made no longer ago than the delay.
LEMMA QueuedRecently ==
  ASSUME TypeOK, RequestsOfTrades, NEW i \in 1..Len(requestQueue), requestQueue[i].id # 0
  PROVE  /\ requestQueue[i].id \in TradeIds /\ trades[requestQueue[i].id] \in Trade
         /\ now <= trades[requestQueue[i].id].filledAt + DequeueDelay
  <1> DEFINE r == requestQueue[i]
             t == trades[r.id]
             waited == now - t.filledAt
  <1>1. r \in Request
    BY ElementOfSeq DEF TypeOK, BeaconTypeOK
  <1>2. RequestOfTrade(i) /\ r.id \in Nat
    BY <1>1 DEF RequestsOfTrades, Request
  <1>3. r.id \in TradeIds
    BY <1>2, MarketConstants DEF RequestOfTrade, TradeIds, TypeOK
  <1>4. t \in Trade
    BY <1>2, <1>3, FilledIsTrade DEF RequestOfTrade, IsFilled
  <1>5. t.filledAt \in Nat /\ now \in Nat
    BY <1>4, ClockBounds DEF Trade, TypeOK
  <1>6. waited * DequeueRate <= (QueueCap - i) * MaxGap
    BY <1>2 DEF RequestOfTrade
  <1>7. /\ QueueCap \in Nat /\ MaxGap \in Nat \ {0} /\ DequeueRate \in Nat \ {0}
        /\ DequeueDelay \in Nat /\ waited \in Int /\ i \in Nat \ {0}
    BY <1>5, BeaconConstants, MarketConstants
  <1>8. (QueueCap - i) * MaxGap <= (QueueCap - 1) * MaxGap
    <2>1. (QueueCap - i) * MaxGap = (QueueCap - 1) * MaxGap - (i - 1) * MaxGap
      BY <1>7
    <2>2. (i - 1) * MaxGap \in Nat
      BY <1>7, ProductNat
    <2>3. (QueueCap - 1) * MaxGap \in Int
      BY <1>7
    <2> QED
      BY <2>1, <2>2, <2>3
  <1>9. waited * DequeueRate < DequeueRate * (DequeueDelay + 1)
    <2>1. (QueueCap - 1) * MaxGap < DequeueRate * (DequeueDelay + 1)
      BY DelaysMatchConsensusLayer
    <2>2. /\ waited * DequeueRate \in Int /\ (QueueCap - 1) * MaxGap \in Int
          /\ (QueueCap - i) * MaxGap \in Int /\ DequeueRate * (DequeueDelay + 1) \in Int
      BY <1>7
    <2> QED
      BY <1>6, <1>8, <2>1, <2>2
  <1>10. waited < DequeueDelay + 1
    BY <1>7, <1>9, ProductBelow
  <1> QED
    BY <1>3, <1>4, <1>5, <1>7, <1>10

(***************************************************************************)
(* Steps of the market                                                     *)
(***************************************************************************)
LEMMA TermsInit == Init => TermsInv /\ OutcomeInv
  <1> SUFFICES ASSUME Init PROVE TermsInv /\ OutcomeInv
    OBVIOUS
  <1>1. \A id \in TradeIds : trades[id].status = "None"
    BY DEF Init, NoTrade
  <1>2. requestQueue = <<>> /\ 1..Len(requestQueue) = {}
    BY DEF Init, BeaconInit
  <1>3. \A v \in Validators : accepted[v].id = 0
    BY DEF Init, BeaconInit, NoAcceptance
  <1>4. TermsInv
    BY <1>1, <1>2, <1>3 DEF Init, TermsInv, RequestsOfTrades, FilledInPast, AcceptedIds,
       AcceptanceShown, OwnRequestAccepted, IsFilled
  <1>5. OutcomeInv
    BY <1>1 DEF OutcomeInv, AcceptedTrades, DeliveredStakeMoved, RefundKillsRequest, WithStatus
  <1> QED
    BY <1>4, <1>5

\* Trades keep their terms when they settle, and no ids are given out.
SameTerms ==
  /\ nextTradeId' = nextTradeId
  /\ \A id \in TradeIds :
       /\ IsFilled(id)' <=> IsFilled(id)
       /\ IsFilled(id) =>
            /\ trades'[id].sourceIndex = trades[id].sourceIndex
            /\ trades'[id].targetIndex = trades[id].targetIndex
            /\ trades'[id].filledAt = trades[id].filledAt

LEMMA SettleKeepsTerms ==
  ASSUME TypeOK, TermsInv, SameTerms, UNCHANGED beaconVars
  PROVE  TermsInv'
  <1>1. RequestsOfTrades'
    <2> SUFFICES ASSUME NEW i \in 1..Len(requestQueue), requestQueue[i].id # 0
                 PROVE  RequestOfTrade(i)'
      BY DEF RequestsOfTrades, beaconVars
    <2>1. RequestOfTrade(i) /\ requestQueue[i].id \in TradeIds
      BY QueuedRecently DEF TermsInv, RequestsOfTrades
    <2> QED
      BY <2>1 DEF RequestOfTrade, SameTerms, beaconVars
  <1>2. FilledInPast' /\ AcceptedIds'
    BY DEF TermsInv, FilledInPast, AcceptedIds, SameTerms, beaconVars
  <1>3. AcceptanceShown'
    <2> SUFFICES ASSUME NEW id \in TradeIds, OwnRequestAccepted(id)'
                 PROVE  SeenAfterDelay(id)' /\ ExitsLate(id)' /\ ProofLasts(id)'
      BY DEF AcceptanceShown
    <2>1. OwnRequestAccepted(id) /\ IsFilled(id)
      BY DEF OwnRequestAccepted, SameTerms, beaconVars
    <2>2. SeenAfterDelay(id) /\ ExitsLate(id) /\ ProofLasts(id)
      BY <2>1 DEF TermsInv, AcceptanceShown
    <2> QED
      BY <2>1, <2>2 DEF SeenAfterDelay, ExitsLate, ProofLasts, LastingProof, FirstMove,
         SameTerms, beaconVars
  <1> QED
    BY <1>1, <1>2, <1>3 DEF TermsInv

LEMMA CloseKeepsTerms ==
  ASSUME TypeOK, NEW id \in TradeIds, IsOpen(id),
         NEW outcome \in {"Delivered", "Failed"}, NEW payee, Close(id, outcome, payee)
  PROVE  /\ SameTerms /\ UNCHANGED beaconVars
         /\ trades'[id].status = outcome
         /\ \A i \in TradeIds : i # id => trades'[i] = trades[i]
  <1>1. trades[id] \in Trade
    BY FilledIsTrade, OpenIsFilled DEF IsFilled
  <1>2. trades' = [trades EXCEPT ![id].status = outcome]
    BY DEF Close
  <1>3. \A i \in TradeIds : i # id => trades'[i] = trades[i]
    BY <1>2 DEF TypeOK
  <1>4. /\ trades'[id].status = outcome
        /\ trades'[id].sourceIndex = trades[id].sourceIndex
        /\ trades'[id].targetIndex = trades[id].targetIndex
        /\ trades'[id].filledAt = trades[id].filledAt
    BY <1>1, <1>2 DEF TypeOK, Trade
  <1> QED
    BY <1>3, <1>4, OpenIsFilled DEF SameTerms, IsFilled, Close

LEMMA AcceptKeepsTerms ==
  ASSUME TypeOK, NEW id \in TradeIds, NEW state, ProveAccepted(id, state)
  PROVE  /\ SameTerms /\ UNCHANGED beaconVars
         /\ trades'[id].status = "Accepted"
         /\ \A i \in TradeIds : i # id => trades'[i] = trades[i]
  <1>1. trades[id] \in Trade /\ IsFilled(id)
    BY FilledIsTrade DEF ProveAccepted, ShowsAcceptance, IsFilled
  <1>2. trades' = [trades EXCEPT
          ![id].withdrawableEpoch = state.val[trades[id].sourceIndex].withdrawable,
          ![id].status = "Accepted"]
    BY DEF ProveAccepted
  <1>3. \A i \in TradeIds : i # id => trades'[i] = trades[i]
    BY <1>2 DEF TypeOK
  <1>4. /\ trades'[id].status = "Accepted"
        /\ trades'[id].sourceIndex = trades[id].sourceIndex
        /\ trades'[id].targetIndex = trades[id].targetIndex
        /\ trades'[id].filledAt = trades[id].filledAt
    BY <1>1, <1>2 DEF TypeOK, Trade
  <1> QED
    BY <1>1, <1>3, <1>4 DEF SameTerms, IsFilled, ProveAccepted

\* The settlement steps, by what they do to the trade.
LEMMA SettleSteps ==
  ASSUME TypeOK, SettleNext
  PROVE  \E id \in TradeIds :
           /\ IsOpen(id) /\ trades[id] \in Trade
           /\ \/ \E state \in roots : ProveAccepted(id, state)
              \/ \E state \in roots :
                   ProveDelivered(id, state) /\ Close(id, "Delivered", trades[id].seller)
              \/ /\ Close(id, "Failed", trades[id].buyer)
                 /\ \/ \E state \in roots : ProveNotAccepted(id, state) \/ ProveFailed(id, state)
                    \/ RefundExpired(id)
  <1>1. PICK id \in TradeIds :
          \/ \E state \in roots :
               \/ ProveAccepted(id, state)
               \/ ProveDelivered(id, state)
               \/ ProveNotAccepted(id, state)
               \/ ProveFailed(id, state)
          \/ RefundExpired(id)
    BY DEF SettleNext
  <1>2. IsOpen(id)
    BY <1>1 DEF ProveAccepted, ProveDelivered, ProveNotAccepted, ProveFailed, RefundExpired,
       ShowsAcceptance, ShowsDelivery, ShowsNoAcceptance, ShowsSlashing,
       Expired, MayFail, IsOpen, OpenStatus
  <1>3. trades[id] \in Trade
    BY <1>2, FilledIsTrade, OpenIsFilled DEF IsFilled
  <1> QED
    BY <1>1, <1>2, <1>3 DEF ProveDelivered, ProveNotAccepted, ProveFailed, RefundExpired, Fail

\* A fill leaves the earlier trades alone and asks for its own stake.
LEMMA FillFacts ==
  ASSUME TypeOK, NEW o \in Orders, NEW target \in Validators, NEW state \in roots,
         NEW buyer \in Accounts, NEW payment, FillFor(o, target, state, buyer, payment)
  PROVE  LET new == nextTradeId
             n   == Len(requestQueue)
         IN /\ new \in TradeIds /\ nextTradeId' = new + 1 /\ new \in Nat
            /\ o.sourcePubkey = o.sourceIndex /\ WithdrawalAddress[o.sourceIndex] = o.seller
            /\ o.sourceIndex \in Validators /\ target \in Validators
            /\ \A id \in TradeIds : id # new => trades'[id] = trades[id]
            /\ trades'[new].sourceIndex = o.sourceIndex /\ trades'[new].targetIndex = target
            /\ trades'[new].filledAt = now /\ trades'[new].status = "RequestSubmitted"
            /\ n \in Nat /\ n < QueueCap /\ Len(requestQueue') = n + 1
            /\ requestQueue'[n + 1].src = o.sourcePubkey /\ requestQueue'[n + 1].tgt = target
            /\ requestQueue'[n + 1].sender = o.seller /\ requestQueue'[n + 1].id = new
            /\ \A i \in 1..n : requestQueue'[i] = requestQueue[i]
            /\ UNCHANGED <<now, validators, pending, roots, accepted, movedTo>>
  <1> DEFINE new == nextTradeId
             r   == [src |-> o.sourcePubkey, tgt |-> target, sender |-> o.seller, id |-> new]
             n   == Len(requestQueue)
  <1>1. /\ o.seller \in Accounts /\ o.sourceIndex \in Validators /\ target \in Validators
        /\ o.sourcePubkey = o.sourceIndex /\ WithdrawalAddress[o.sourceIndex] = o.seller
    BY MarketConstants DEF Order, FillFor, CheckValidators, ProvesPubkey
  <1>2. new \in TradeIds /\ nextTradeId' = new + 1 /\ new \in Nat
    BY MarketConstants DEF FillFor, OpenTrade, UseNonce, FillsLeft, TypeOK, TradeIds
  <1>3. /\ \A id \in TradeIds : id # new => trades'[id] = trades[id]
        /\ trades'[new].sourceIndex = o.sourceIndex /\ trades'[new].targetIndex = target
        /\ trades'[new].filledAt = now /\ trades'[new].status = "RequestSubmitted"
    BY <1>2 DEF FillFor, OpenTrade, UseNonce, TypeOK
  <1>4. /\ n < QueueCap /\ requestQueue' = Append(requestQueue, r)
        /\ UNCHANGED <<now, validators, pending, roots, accepted, movedTo>>
    BY DEF FillFor, RequestConsolidation, Enqueue
  <1>5. requestQueue \in Seq(Request) /\ n \in Nat
    BY DEF TypeOK, BeaconTypeOK
  <1>6. r \in Request
    BY <1>1, <1>2 DEF Request
  <1>7. /\ Len(requestQueue') = n + 1 /\ requestQueue'[n + 1] = r
        /\ \A i \in 1..n : requestQueue'[i] = requestQueue[i]
    BY <1>4, <1>5, <1>6, AppendProperties
  <1> QED
    BY <1>1, <1>2, <1>3, <1>4, <1>5, <1>7

LEMMA FillKeepsTerms ==
  ASSUME TypeOK, SaleInv, TermsInv, OutcomeInv,
         NEW o \in Orders, NEW target \in Validators, NEW state \in roots,
         NEW buyer \in Accounts, NEW payment, FillFor(o, target, state, buyer, payment)
  PROVE  TermsInv' /\ OutcomeInv'
  <1> DEFINE new == nextTradeId
             n   == Len(requestQueue)
  <1>1. /\ new \in TradeIds /\ nextTradeId' = new + 1 /\ new \in Nat
        /\ o.sourcePubkey = o.sourceIndex /\ WithdrawalAddress[o.sourceIndex] = o.seller
        /\ o.sourceIndex \in Validators /\ target \in Validators
        /\ \A id \in TradeIds : id # new => trades'[id] = trades[id]
        /\ trades'[new].sourceIndex = o.sourceIndex /\ trades'[new].targetIndex = target
        /\ trades'[new].filledAt = now /\ trades'[new].status = "RequestSubmitted"
        /\ n \in Nat /\ n < QueueCap /\ Len(requestQueue') = n + 1
        /\ requestQueue'[n + 1].src = o.sourcePubkey /\ requestQueue'[n + 1].tgt = target
        /\ requestQueue'[n + 1].sender = o.seller /\ requestQueue'[n + 1].id = new
        /\ \A i \in 1..n : requestQueue'[i] = requestQueue[i]
        /\ UNCHANGED <<now, validators, pending, roots, accepted, movedTo>>
    BY FillFacts
  <1>2. RequestsOfTrades'
    <2> SUFFICES ASSUME NEW i \in 1..(n + 1), requestQueue'[i].id # 0
                 PROVE  RequestOfTrade(i)'
      BY <1>1 DEF RequestsOfTrades
    <2>1. CASE i = n + 1
      <3>1. (now - now) * DequeueRate <= (QueueCap - (n + 1)) * MaxGap
        <4>1. now - now = 0 /\ QueueCap - (n + 1) \in Nat
          BY <1>1, ClockBounds, BeaconConstants DEF TypeOK
        <4>2. (QueueCap - (n + 1)) * MaxGap \in Nat
          BY <4>1, QueueConstants, ProductNat
        <4> QED
          BY <4>1, <4>2, QueueConstants
      <3> QED
        BY <1>1, <2>1, <3>1 DEF RequestOfTrade, IsFilled
    <2>2. CASE i # n + 1
      <3>1. i \in 1..n /\ requestQueue'[i] = requestQueue[i]
        BY <1>1, <2>2
      <3>2. RequestOfTrade(i) /\ requestQueue[i].id \in TradeIds
        BY <3>1, QueuedRecently DEF TermsInv, RequestsOfTrades
      <3>3. requestQueue[i].id # new /\ requestQueue[i].id < new + 1
        BY <1>1, <3>2 DEF RequestOfTrade, TradeIds
      <3> QED
        BY <1>1, <3>1, <3>2, <3>3 DEF RequestOfTrade, IsFilled
    <2> QED
      BY <2>1, <2>2
  <1>3. FilledInPast'
    <2> SUFFICES ASSUME NEW id \in TradeIds, IsFilled(id)'
                 PROVE  trades'[id].filledAt <= now'
      BY DEF FilledInPast
    <2>1. CASE id = new
      BY <1>1, <2>1, ClockBounds DEF TypeOK
    <2>2. CASE id # new
      BY <1>1, <2>2 DEF TermsInv, FilledInPast, IsFilled
    <2> QED
      BY <2>1, <2>2
  <1>4. AcceptedIds'
    <2> SUFFICES ASSUME NEW v \in Validators
                 PROVE  accepted'[v].id < nextTradeId'
      BY DEF AcceptedIds
    <2>1. accepted[v].id < new /\ accepted[v].id \in Nat
      BY DEF TermsInv, AcceptedIds, TypeOK, BeaconTypeOK, Acceptance
    <2> QED
      BY <1>1, <2>1
  <1>5. AcceptanceShown'
    <2> SUFFICES ASSUME NEW id \in TradeIds, OwnRequestAccepted(id)'
                 PROVE  SeenAfterDelay(id)' /\ ExitsLate(id)' /\ ProofLasts(id)'
      BY DEF AcceptanceShown
    <2>1. id # new
      <3>1. accepted[o.sourceIndex].id < new
        BY <1>1 DEF TermsInv, AcceptedIds
      <3> QED
        BY <1>1, <3>1 DEF OwnRequestAccepted
    <2>2. OwnRequestAccepted(id) /\ trades'[id] = trades[id]
      BY <1>1, <2>1 DEF OwnRequestAccepted, IsFilled
    <2>3. SeenAfterDelay(id) /\ ExitsLate(id) /\ ProofLasts(id)
      BY <2>2 DEF TermsInv, AcceptanceShown
    <2> QED
      BY <1>1, <2>2, <2>3 DEF SeenAfterDelay, ExitsLate, ProofLasts, LastingProof, FirstMove
  <1>6. \A id \in TradeIds : trades'[id].status \in {"Accepted", "Delivered", "Failed"} =>
          id # new /\ trades'[id] = trades[id]
    BY <1>1
  <1>7. AcceptedTrades' /\ DeliveredStakeMoved'
    BY <1>1, <1>6 DEF OutcomeInv, AcceptedTrades, DeliveredStakeMoved, WithStatus
  <1>8. RefundKillsRequest'
    <2> SUFFICES ASSUME NEW id \in TradeIds, trades'[id].status = "Failed",
                        NEW i \in 1..(n + 1), requestQueue'[i].id = id
                 PROVE  validators'[requestQueue'[i].src].slashed
      BY <1>1 DEF RefundKillsRequest, WithStatus
    <2>1. id # new /\ trades[id].status = "Failed"
      BY <1>6
    <2>2. i \in 1..n
      BY <1>1, <2>1
    <2> QED
      BY <1>1, <2>1, <2>2 DEF OutcomeInv, RefundKillsRequest, WithStatus
  <1> QED
    BY <1>2, <1>3, <1>4, <1>5, <1>7, <1>8 DEF TermsInv, OutcomeInv

(***************************************************************************)
(* Steps of the consensus layer                                            *)
(***************************************************************************)
LEMMA OwnRequestKeepsTerms ==
  ASSUME TypeOK, TermsInv, OutcomeInv, OwnRequest, UNCHANGED tradeVars
  PROVE  TermsInv' /\ OutcomeInv'
  <1> DEFINE n == Len(requestQueue)
  <1>1. PICK p \in OwnRequests : Enqueue(WithdrawalAddress[p[1]], p[1], p[2], 0)
    BY DEF OwnRequest
  <1> DEFINE r == [src |-> p[1], tgt |-> p[2], sender |-> WithdrawalAddress[p[1]], id |-> 0]
  <1>2. r \in Request
    BY BeaconConstants DEF Request
  <1>3. requestQueue' = Append(requestQueue, r)
    BY <1>1 DEF Enqueue
  <1>4. requestQueue \in Seq(Request) /\ n \in Nat
    BY DEF TypeOK, BeaconTypeOK
  <1>5. /\ Len(requestQueue') = n + 1 /\ requestQueue'[n + 1] = r
        /\ \A i \in 1..n : requestQueue'[i] = requestQueue[i]
    BY <1>2, <1>3, <1>4, AppendProperties
  <1>6. \A i \in 1..Len(requestQueue') : requestQueue'[i].id # 0 =>
          i \in 1..n /\ requestQueue'[i] = requestQueue[i]
    BY <1>4, <1>5
  <1>7. UNCHANGED <<now, validators, pending, roots, accepted, movedTo, trades, nextTradeId>>
    BY DEF OwnRequest, tradeVars
  <1>8. RequestsOfTrades'
    BY <1>6, <1>7 DEF TermsInv, RequestsOfTrades, RequestOfTrade, IsFilled
  <1>9. FilledInPast' /\ AcceptedIds'
    BY <1>7 DEF TermsInv, FilledInPast, AcceptedIds, IsFilled
  <1>10. AcceptanceShown'
    BY <1>7 DEF TermsInv, AcceptanceShown, OwnRequestAccepted, IsFilled, SeenAfterDelay,
       ExitsLate, ProofLasts, LastingProof, FirstMove
  <1>11. AcceptedTrades' /\ DeliveredStakeMoved'
    BY <1>7 DEF OutcomeInv, AcceptedTrades, DeliveredStakeMoved, WithStatus
  <1>12. RefundKillsRequest'
    <2> SUFFICES ASSUME NEW id \in TradeIds, trades[id].status = "Failed",
                        NEW i \in 1..Len(requestQueue'), requestQueue'[i].id = id
                 PROVE  validators[requestQueue'[i].src].slashed
      BY <1>7 DEF RefundKillsRequest, WithStatus
    <2>1. i \in 1..n /\ requestQueue'[i] = requestQueue[i]
      BY <1>6 DEF TradeIds
    <2> QED
      BY <2>1 DEF OutcomeInv, RefundKillsRequest, WithStatus
  <1> QED
    BY <1>8, <1>9, <1>10, <1>11, <1>12 DEF TermsInv, OutcomeInv

LEMMA RegistryKeepsTerms ==
  ASSUME TypeOK, ConsensusInv, TermsInv, OutcomeInv, TypeOK', RegistryMoves, UNCHANGED tradeVars
  PROVE  TermsInv' /\ OutcomeInv'
  <1>1. UNCHANGED <<now, pending, requestQueue, roots, accepted, movedTo, trades, nextTradeId>>
    BY DEF RegistryMoves, tradeVars
  <1>2. RequestsOfTrades'
    BY <1>1 DEF TermsInv, RequestsOfTrades, RequestOfTrade, IsFilled
  <1>3. FilledInPast' /\ AcceptedIds'
    BY <1>1 DEF TermsInv, FilledInPast, AcceptedIds, IsFilled
  <1>4. AcceptanceShown'
    <2> SUFFICES ASSUME NEW id \in TradeIds, OwnRequestAccepted(id)'
                 PROVE  SeenAfterDelay(id)' /\ ExitsLate(id)' /\ ProofLasts(id)'
      BY DEF AcceptanceShown
    <2> DEFINE v == trades[id].sourceIndex
    <2>1. OwnRequestAccepted(id)
      BY <1>1 DEF OwnRequestAccepted, IsFilled
    <2>2. trades[id] \in Trade
      BY <2>1, FilledIsTrade DEF OwnRequestAccepted, IsFilled
    <2>3. v \in Validators /\ trades[id].targetIndex \in Validators /\ trades[id].filledAt \in Nat
      BY <2>2 DEF Trade
    <2>4. IsExiting(validators[v])
      BY <2>1, <2>3, BeaconConstants
         DEF OwnRequestAccepted, ConsensusInv, AcceptedExits, IsAccepted
    <2>5. SeenAfterDelay(id) /\ ExitsLate(id) /\ ProofLasts(id)
      BY <2>1 DEF TermsInv, AcceptanceShown
    <2>6. validators[v].withdrawable <= validators'[v].withdrawable
      BY <2>3, <2>4 DEF RegistryMoves
    <2>7. /\ validators[v].withdrawable \in Nat /\ validators'[v].withdrawable \in Nat
          /\ EpochOf(trades[id].filledAt) + ExitDelay \in Nat
      <3>1. /\ validators[v] \in ValidatorState /\ validators'[v] \in ValidatorState
            /\ EpochOf(trades[id].filledAt) \in Nat /\ ExitDelay \in Nat
        BY <2>3, EpochBounds, BeaconConstants DEF TypeOK, BeaconTypeOK
      <3> QED
        BY <3>1 DEF ValidatorState
    <2>8. ExitsLate(id)'
      BY <1>1, <2>5, <2>6, <2>7 DEF ExitsLate
    <2>9. ProofLasts(id)'
      BY <1>1, <2>3, <2>5 DEF ProofLasts, LastingProof, FirstMove, RegistryMoves
    <2> QED
      BY <1>1, <2>5, <2>8, <2>9 DEF SeenAfterDelay
  <1>5. AcceptedTrades' /\ DeliveredStakeMoved'
    BY <1>1 DEF OutcomeInv, AcceptedTrades, DeliveredStakeMoved, WithStatus
  <1>6. \A i \in 1..Len(requestQueue) : requestQueue[i].src \in Validators
    <2>1. \A i \in 1..Len(requestQueue) : requestQueue[i] \in Request
      BY ElementOfSeq DEF TypeOK, BeaconTypeOK
    <2> QED
      BY <2>1 DEF Request
  <1>7. RefundKillsRequest'
    BY <1>1, <1>6 DEF OutcomeInv, RefundKillsRequest, WithStatus, RegistryMoves
  <1> QED
    BY <1>2, <1>3, <1>4, <1>5, <1>7 DEF TermsInv, OutcomeInv

\* Every request moves up by as many places as the predeploy hands over.
LEMMA BlockRequests ==
  ASSUME TypeOK, NEW gap \in 1..MaxGap, NEW A \in AcceptChoices, NEW f \in InOrder(A),
         NEW n \in 0..Len(QueueAfter(f)), BlockStep(gap, A, f, n),
         NEW i \in 1..Len(requestQueue')
  PROVE  /\ i + DequeueRate \in 1..Len(requestQueue)
         /\ requestQueue'[i] = requestQueue[i + DequeueRate]
  <1> DEFINE d == Dequeued
             L == Len(requestQueue)
  <1>1. requestQueue' = SubSeq(requestQueue, d + 1, L)
    BY DEF BlockStep
  <1>2. d \in Nat /\ d <= L /\ L \in Nat /\ requestQueue \in Seq(Request)
    BY TakenRequests DEF TypeOK, BeaconTypeOK
  <1>3. d = DequeueRate \/ d = L
    BY DEF Dequeued, MinOf
  <1> HIDE DEF d, L
  <1>4. \A k \in (d + 1)..L : requestQueue[k] \in Request
    BY <1>2, ElementOfSeq DEF L
  <1>5. Len(requestQueue') = IF d + 1 <= L THEN L - (d + 1) + 1 ELSE 0
    BY <1>1, <1>2, <1>4, SubSeqProperties
  <1>6. Len(requestQueue') = L - d
    BY <1>2, <1>5
  <1>7. d = DequeueRate
    BY <1>2, <1>3, <1>6
  <1>8. i + d \in 1..L /\ (d + 1) + i - 1 = i + d
    BY <1>2, <1>6
  <1>9. requestQueue'[i] = requestQueue[i + d]
    BY <1>1, <1>2, <1>4, <1>5, <1>6, <1>8, SubSeqProperties
  <1> QED
    BY <1>7, <1>8, <1>9 DEF L

\* A request is accepted in the block that takes it, within the delay.
LEMMA NewlyAccepted ==
  ASSUME TypeOK, ConsensusInv, TermsInv,
         NEW gap \in 1..MaxGap, NEW A \in AcceptChoices, NEW f \in InOrder(A),
         NEW n \in 0..Len(QueueAfter(f)), BlockStep(gap, A, f, n), UNCHANGED tradeVars,
         NEW id \in TradeIds, OwnRequestAccepted(id)'
  PROVE  LET t == trades[id]
             v == t.sourceIndex
         IN /\ t \in Trade /\ v \in Validators /\ t.targetIndex \in Validators
            /\ t.filledAt \in Nat /\ t.filledAt <= now /\ IsFilled(id)
            /\ accepted'[v].tgt = t.targetIndex /\ IsExiting(validators'[v])
            /\ \/ OwnRequestAccepted(id)
               \/ /\ now <= t.filledAt + DequeueDelay
                  /\ validators'[v].withdrawable = EpochOf(now) + ExitDelay
                  /\ accepted'[v] # accepted[v]
  <1> DEFINE t == trades[id]
             v == t.sourceIndex
  <1>1. trades' = trades /\ IsFilled(id) /\ accepted'[v] = [tgt |-> t.targetIndex, id |-> id]
    BY DEF OwnRequestAccepted, IsFilled, tradeVars
  <1>2. t \in Trade
    BY <1>1, FilledIsTrade DEF IsFilled
  <1>3. /\ v \in Validators /\ t.targetIndex \in Validators /\ t.filledAt \in Nat
        /\ t.filledAt <= now
    BY <1>1, <1>2 DEF Trade, TermsInv, FilledInPast
  <1>4. ConsensusInv'
    BY BlockKeepsConsensus DEF TypeOK
  <1>5. IsExiting(validators'[v])
    <2>1. accepted'[v].tgt # NoValidator
      BY <1>1, <1>3, BeaconConstants
    <2> QED
      BY <1>3, <1>4, <2>1 DEF ConsensusInv, AcceptedExits, IsAccepted, IsExiting
  <1>6. CASE accepted'[v] = accepted[v]
    BY <1>1, <1>2, <1>3, <1>5, <1>6 DEF OwnRequestAccepted
  <1>7. CASE accepted'[v] # accepted[v]
    <2>1. validators'[v].withdrawable = EpochOf(now) + ExitDelay
      BY <1>3, <1>7, BlockKeepsPast DEF TypeOK
    <2>2. accepted'[v] = AcceptedAfter(A)[v]
      BY DEF BlockStep
    <2>3. PICK a \in A : requestQueue[a].src = v
      BY <1>3, <1>7, <2>2, TakenOrKept DEF TypeOK
    <2>4. requestQueue[a].id = id /\ a \in 1..Len(requestQueue)
      <3>1. /\ a \in 1..Len(requestQueue)
            /\ AcceptedAfter(A)[v] = [tgt |-> requestQueue[a].tgt, id |-> requestQueue[a].id]
        <4>1. BeaconTypeOK
          BY DEF TypeOK
        <4>2. /\ a \in 1..Len(requestQueue)
              /\ AcceptedAfter(A)[requestQueue[a].src] =
                   [tgt |-> requestQueue[a].tgt, id |-> requestQueue[a].id]
          BY <4>1, TakenIsAcceptable
        <4> QED
          BY <2>3, <4>2
      <3>2. [tgt |-> requestQueue[a].tgt, id |-> requestQueue[a].id].id = id
        BY <1>1, <2>2, <3>1
      <3> QED
        BY <3>1, <3>2
    <2>5. now <= t.filledAt + DequeueDelay
      BY <2>4, QueuedRecently DEF TermsInv, TradeIds
    <2> QED
      BY <1>1, <1>2, <1>3, <1>5, <1>7, <2>1, <2>5
  <1> QED
    BY <1>6, <1>7

LEMMA BlockKeepsRequests ==
  ASSUME TypeOK, TermsInv,
         NEW gap \in 1..MaxGap, NEW A \in AcceptChoices, NEW f \in InOrder(A),
         NEW n \in 0..Len(QueueAfter(f)), BlockStep(gap, A, f, n), UNCHANGED tradeVars
  PROVE  RequestsOfTrades' /\ FilledInPast' /\ AcceptedIds'
  <1>1. /\ now' = now + gap /\ now \in Nat /\ gap \in Nat /\ gap <= MaxGap
        /\ trades' = trades /\ nextTradeId' = nextTradeId
    BY ClockBounds, BeaconConstants DEF BlockStep, tradeVars, TypeOK
  <1>2. RequestsOfTrades'
    <2> SUFFICES ASSUME NEW i \in 1..Len(requestQueue'), requestQueue'[i].id # 0
                 PROVE  RequestOfTrade(i)'
      BY DEF RequestsOfTrades
    <2>1. /\ i + DequeueRate \in 1..Len(requestQueue)
          /\ requestQueue'[i] = requestQueue[i + DequeueRate]
      BY BlockRequests
    <2> DEFINE filledAt == trades[requestQueue[i + DequeueRate].id].filledAt
    <2>2. /\ RequestOfTrade(i + DequeueRate)
          /\ trades[requestQueue[i + DequeueRate].id] \in Trade
      BY <2>1, QueuedRecently DEF TermsInv, RequestsOfTrades
    <2>3. filledAt \in Nat
      BY <2>2 DEF Trade
    <2>4. (now - filledAt) * DequeueRate <= (QueueCap - (i + DequeueRate)) * MaxGap
      BY <2>2 DEF RequestOfTrade
    <2> HIDE DEF filledAt
    <2>5. /\ QueueCap \in Nat /\ MaxGap \in Nat /\ DequeueRate \in Nat
          /\ i \in Int /\ now - filledAt \in Int
      <3>1. now \in Nat /\ i \in Int
        BY <1>1
      <3> QED
        BY <2>3, <3>1, QueueConstants
    <2> DEFINE waited == now - filledAt
               places == QueueCap - i
    <2>6. waited \in Int /\ places \in Int /\ DequeueRate \in Int /\ DequeueRate >= 0
      BY <2>5
    <2>7. waited * DequeueRate <= (places - DequeueRate) * MaxGap
      <3>1. QueueCap - (i + DequeueRate) = (QueueCap - i) - DequeueRate
        BY <2>5
      <3> QED
        BY <2>4, <3>1
    <2>8. now' - filledAt = waited + gap
      BY <1>1, <2>3
    <2>9. (waited + gap) * DequeueRate <= places * MaxGap
      <3> HIDE DEF waited, places
      <3> QED
        BY <1>1, <2>5, <2>6, <2>7, QueueAdvances
    <2>10. (now' - filledAt) * DequeueRate <= (QueueCap - i) * MaxGap
      BY <2>9, <2>8
    <2> QED
      BY <1>1, <2>1, <2>2, <2>10 DEF RequestOfTrade, IsFilled, filledAt
  <1>3. FilledInPast'
    <2> SUFFICES ASSUME NEW id \in TradeIds, IsFilled(id)
                 PROVE  trades[id].filledAt <= now'
      BY <1>1 DEF FilledInPast, IsFilled
    <2>1. trades[id] \in Trade /\ trades[id].filledAt <= now
      BY FilledIsTrade DEF TermsInv, FilledInPast, IsFilled
    <2>2. trades[id].filledAt \in Nat
      BY <2>1 DEF Trade
    <2> QED
      BY <1>1, <2>1, <2>2
  <1>4. AcceptedIds'
    <2> SUFFICES ASSUME NEW v \in Validators
                 PROVE  AcceptedAfter(A)[v].id < nextTradeId
      BY <1>1 DEF AcceptedIds, BlockStep
    <2>1. CASE TakenFor(A, v) = {}
      BY <2>1, UntakenIsKept DEF TermsInv, AcceptedIds
    <2>2. CASE TakenFor(A, v) # {}
      <3>1. PICK a \in A : requestQueue[a].src = v
        BY <2>2 DEF TakenFor
      <3>2. BeaconTypeOK
        BY DEF TypeOK
      <3>3. /\ a \in 1..Len(requestQueue)
            /\ AcceptedAfter(A)[requestQueue[a].src] =
                 [tgt |-> requestQueue[a].tgt, id |-> requestQueue[a].id]
        BY <3>2, TakenIsAcceptable
      <3>4. AcceptedAfter(A)[v].id = requestQueue[a].id
        BY <3>1, <3>3
      <3>5. CASE requestQueue[a].id = 0
        BY <3>4, <3>5, MarketConstants DEF TypeOK
      <3>6. CASE requestQueue[a].id # 0
        BY <3>3, <3>4, <3>6 DEF TermsInv, RequestsOfTrades, RequestOfTrade
      <3> QED
        BY <3>5, <3>6
    <2> QED
      BY <2>1, <2>2
  <1> QED
    BY <1>2, <1>3, <1>4

\* The block's root shows every exit that was initiated, and earlier roots are
\* no later than the block that took the request.
LEMMA BlockShowsExit ==
  ASSUME TypeOK, ConsensusInv, TermsInv,
         NEW gap \in 1..MaxGap, NEW A \in AcceptChoices, NEW f \in InOrder(A),
         NEW n \in 0..Len(QueueAfter(f)), BlockStep(gap, A, f, n), UNCHANGED tradeVars,
         NEW id \in TradeIds, OwnRequestAccepted(id)'
  PROVE  SeenAfterDelay(id)' /\ ExitsLate(id)'
  <1> DEFINE t == trades[id]
             v == t.sourceIndex
  <1>1. /\ t \in Trade /\ v \in Validators /\ t.targetIndex \in Validators
        /\ t.filledAt \in Nat /\ t.filledAt <= now
        /\ IsExiting(validators'[v])
        /\ \/ OwnRequestAccepted(id)
           \/ /\ now <= t.filledAt + DequeueDelay
              /\ validators'[v].withdrawable = EpochOf(now) + ExitDelay
    BY NewlyAccepted
  <1>2. trades' = trades /\ BeaconTypeOK
    BY DEF tradeVars, TypeOK
  <1>3. now \in Nat /\ DequeueDelay \in Nat
    BY <1>2, ClockBounds, MarketConstants
  <1>4. OwnRequestAccepted(id) => SeenAfterDelay(id) /\ ExitsLate(id)
    BY DEF TermsInv, AcceptanceShown
  <1>5. SeenAfterDelay(id)'
    <2> SUFFICES ASSUME NEW s \in roots', s.ts > t.filledAt + DequeueDelay
                 PROVE  IsExiting(s.val[v])
      BY <1>2 DEF SeenAfterDelay
    <2>1. s \in roots \/ s = SnapshotAt(now + gap, now, PostState(A), QueueAfter(f))
      BY DEF BlockStep, RingAfter
    <2>2. CASE s \in roots
      <3>1. s.ts <= now /\ s.ts \in Nat
        BY <1>2, <2>2 DEF ConsensusInv, RootsPast, RootPast, BeaconTypeOK, Snapshot
      <3>2. OwnRequestAccepted(id)
        BY <1>1, <1>3, <3>1
      <3> QED
        BY <1>4, <2>2, <3>2 DEF SeenAfterDelay
    <2>3. CASE s = SnapshotAt(now + gap, now, PostState(A), QueueAfter(f))
      <3>1. s.val = PostState(A)
        BY <2>3 DEF SnapshotAt
      <3>2. validators'[v].withdrawable = PostState(A)[v].withdrawable
        BY <1>1, <1>2, BlockRegistry
      <3> QED
        BY <1>1, <3>1, <3>2 DEF IsExiting
    <2> QED
      BY <2>1, <2>2, <2>3
  <1>6. ExitsLate(id)'
    <2>1. CASE OwnRequestAccepted(id)
      <3>1. IsExiting(validators[v])
        <4>1. accepted[v].tgt = t.targetIndex
          BY <2>1 DEF OwnRequestAccepted
        <4> QED
          BY <1>1, <4>1, BeaconConstants DEF ConsensusInv, AcceptedExits, IsAccepted
      <3>2. validators'[v].withdrawable = validators[v].withdrawable
        BY <1>1, <1>2, <3>1, BlockKeepsPast
      <3> QED
        BY <1>2, <1>4, <2>1, <3>2 DEF ExitsLate
    <2>2. CASE validators'[v].withdrawable = EpochOf(now) + ExitDelay
      <3>1. EpochOf(t.filledAt) <= EpochOf(now)
        BY <1>1, <1>3, EpochMonotone
      <3>2. EpochOf(t.filledAt) \in Nat /\ EpochOf(now) \in Nat /\ ExitDelay \in Nat
        BY <1>1, <1>3, EpochBounds, BeaconConstants
      <3> QED
        BY <1>2, <2>2, <3>1, <3>2 DEF ExitsLate
    <2> QED
      BY <1>1, <2>1, <2>2
  <1> QED
    BY <1>5, <1>6

\* A pair cannot be consumed before the first slot its exit delay allows.
LEMMA MovesLate ==
  ASSUME NEW filledAt \in Nat, NEW slot \in Nat,
         EpochOf(filledAt) + ExitDelay <= EpochOf(slot)
  PROVE  filledAt + (ExitDelay - 1) * SlotsPerEpoch + 1 <= slot
  <1> DEFINE e == EpochOf(filledAt)
             c == EpochOf(slot)
             w == SlotsPerEpoch
             d == ExitDelay
  <1>1. e \in Nat /\ c \in Nat /\ w \in Nat \ {0} /\ d \in Nat \ {0}
    BY EpochBounds, BeaconConstants
  <1>2. filledAt < w * e + w /\ w * c <= slot
    BY EpochBounds
  <1> HIDE DEF e, c, w, d
  <1>3. e + d <= c
    BY DEF e, c, d
  <1>4. w * (e + d) <= w * c
    BY <1>1, <1>3
  <1>5. w * (e + d) = w * e + w * d /\ (d - 1) * w = w * d - w
    BY <1>1
  <1>6. w * e \in Nat /\ w * d \in Nat /\ w * c \in Nat
    BY <1>1
  <1>7. filledAt + (d - 1) * w + 1 <= slot
    BY <1>1, <1>2, <1>4, <1>5, <1>6
  <1> QED
    BY <1>7 DEF d, w

\* A root that shows the pair after its first possible move stays in the ring
\* for as long as the accept window is open.
LEMMA RootSurvives ==
  ASSUME NEW filledAt \in Nat, NEW ts \in Nat, NEW next \in Nat, ts < next,
         filledAt + (ExitDelay - 1) * SlotsPerEpoch + 1 <= ts,
         next <= filledAt + AcceptWindow
  PROVE  ts % RootsKept # next % RootsKept
  <1> DEFINE delay == (ExitDelay - 1) * SlotsPerEpoch
  <1>1. AcceptWindow <= MaxAcceptWindow /\ MaxAcceptWindow <= delay + RootsKept
    BY AcceptWindowBounds, DelaysMatchConsensusLayer
  <1>2. /\ AcceptWindow \in Nat /\ MaxAcceptWindow \in Nat /\ RootsKept \in Nat \ {0}
        /\ ExitDelay - 1 \in Nat /\ SlotsPerEpoch \in Nat
    BY BeaconConstants, MarketConstants
  <1>3. delay \in Nat
    BY <1>2
  <1>4. filledAt + delay + 1 <= ts
    OBVIOUS
  <1> HIDE DEF delay
  <1>5. next < ts + RootsKept
    BY <1>1, <1>2, <1>3, <1>4
  <1> QED
    BY <1>2, <1>5, RingSlotsDiffer

\* The pair of an accepted request is in the queue that the block's root
\* commits to, or an earlier root of the ring will do.
LEMMA PairOrEarlierRoot ==
  ASSUME TypeOK, ConsensusInv, TermsInv,
         NEW gap \in 1..MaxGap, NEW A \in AcceptChoices, NEW f \in InOrder(A),
         NEW n \in 0..Len(QueueAfter(f)), BlockStep(gap, A, f, n), UNCHANGED tradeVars,
         NEW id \in TradeIds, OwnRequestAccepted(id)',
         ~validators'[trades[id].sourceIndex].slashed,
         now' <= trades[id].filledAt + AcceptWindow
  PROVE  LET q    == QueueAfter(f)
             t    == trades[id]
             pair == [src |-> t.sourceIndex, tgt |-> t.targetIndex]
         IN \/ \E i \in 1..Len(q) : q[i] = pair
            \/ \E s \in roots : s.ts > t.filledAt /\ pair \in s.pend /\ FirstMove(id) <= s.ts
  <1> DEFINE q    == QueueAfter(f)
             t    == trades[id]
             v    == t.sourceIndex
             pair == [src |-> v, tgt |-> t.targetIndex]
  <1>1. /\ t \in Trade /\ v \in Validators /\ t.targetIndex \in Validators
        /\ t.filledAt \in Nat /\ accepted'[v].tgt = t.targetIndex
        /\ OwnRequestAccepted(id) \/ accepted'[v] # accepted[v]
    BY NewlyAccepted
  <1>2. BeaconTypeOK /\ gap \in Nat \ {0} /\ now \in Nat /\ now' = now + gap
    BY ClockBounds, BeaconConstants DEF TypeOK, BlockStep
  <1>3. CASE accepted'[v] # accepted[v]
    <2>1. accepted'[v] = AcceptedAfter(A)[v]
      BY DEF BlockStep
    <2>2. PICK a \in A : requestQueue[a].src = v
      BY <1>1, <1>2, <1>3, <2>1, TakenOrKept
    <2>3. AcceptedAfter(A)[requestQueue[a].src] =
            [tgt |-> requestQueue[a].tgt, id |-> requestQueue[a].id]
      BY <1>2, TakenIsAcceptable
    <2>4. requestQueue[a].tgt = t.targetIndex
      BY <1>1, <2>1, <2>2, <2>3
    <2>5. \E i \in 1..Len(q) :
            q[i] = [src |-> requestQueue[a].src, tgt |-> requestQueue[a].tgt]
      BY <1>2, QueueEntries
    <2> QED
      BY <2>2, <2>4, <2>5
  <1>4. CASE OwnRequestAccepted(id)
    <2>1. ~validators[v].slashed
      BY <1>1, <1>2, BlockKeepsPast
    <2>2. AcceptWindow \in Nat
      BY MarketConstants
    <2>3. now <= t.filledAt + AcceptWindow
      BY <1>1, <1>2, <2>2
    <2>4. LastingProof(id)
      BY <1>4, <2>1, <2>3 DEF TermsInv, AcceptanceShown, ProofLasts
    <2>5. (\E i \in 1..Len(pending) : pending[i] = pair) => \E i \in 1..Len(q) : q[i] = pair
      BY <1>2, QueueEntries
    <2> HIDE DEF q
    <2> QED
      BY <2>4, <2>5 DEF LastingProof, q
  <1> QED
    BY <1>1, <1>3, <1>4

LEMMA BlockKeepsProof ==
  ASSUME TypeOK, ConsensusInv, TermsInv,
         NEW gap \in 1..MaxGap, NEW A \in AcceptChoices, NEW f \in InOrder(A),
         NEW n \in 0..Len(QueueAfter(f)), BlockStep(gap, A, f, n), UNCHANGED tradeVars,
         NEW id \in TradeIds, OwnRequestAccepted(id)'
  PROVE  ProofLasts(id)'
  <1> DEFINE q    == QueueAfter(f)
             t    == trades[id]
             v    == t.sourceIndex
             pair == [src |-> v, tgt |-> t.targetIndex]
             new  == SnapshotAt(now', now, PostState(A), q)
  <1>1. /\ t \in Trade /\ v \in Validators /\ t.filledAt \in Nat /\ t.filledAt <= now
    BY NewlyAccepted
  <1>2. trades' = trades /\ BeaconTypeOK
    BY DEF tradeVars, TypeOK
  <1>3. /\ now \in Nat /\ now' \in Nat /\ now' = now + gap /\ now < now'
        /\ validators'[v].withdrawable = PostState(A)[v].withdrawable
        /\ validators'[v].slashed = PostState(A)[v].slashed
        /\ EpochOf(now) \in Nat /\ EpochOf(now') \in Nat
    BY <1>1, <1>2, BlockRegistry
  <1>4. /\ roots' = {s \in roots : s.ts % RootsKept # now' % RootsKept} \cup {new}
        /\ pending' = SubSeq(q, n + 1, Len(q))
    BY <1>3 DEF BlockStep, RingAfter
  <1>5. SUFFICES ASSUME ~validators'[v].slashed, now' <= t.filledAt + AcceptWindow
                 PROVE  \E s \in roots' :
                          /\ s.ts > t.filledAt /\ pair \in s.pend
                          /\ \/ s.ts = now' /\ \E i \in 1..Len(pending') : pending'[i] = pair
                             \/ FirstMove(id) <= s.ts
    BY <1>2 DEF ProofLasts, LastingProof, FirstMove
  <1>6. CASE \E i \in 1..Len(q) : q[i] = pair
    <2>1. PICK i \in 1..Len(q) : q[i] = pair
      BY <1>6
    <2>2. new \in roots' /\ new.ts = now' /\ new.ts > t.filledAt /\ pair \in new.pend
      BY <1>1, <1>3, <1>4, <2>1 DEF SnapshotAt, EntriesOf
    <2>3. CASE i > n
      <3>1. /\ q \in Seq(Entry) /\ Len(q) \in Nat /\ n \in Nat
        BY <1>2, QueueEntries
      <3> HIDE DEF q
      <3>2. \A k \in (n + 1)..Len(q) : q[k] \in Entry
        BY <3>1, ElementOfSeq
      <3>3. n + 1 <= Len(q) /\ i - n \in 1..(Len(q) - n)
        BY <2>1, <2>3, <3>1
      <3>4. /\ Len(pending') = Len(q) - (n + 1) + 1
            /\ \A k \in 1..(Len(q) - (n + 1) + 1) : pending'[k] = q[(n + 1) + k - 1]
        BY <1>4, <3>1, <3>2, <3>3, SubSeqProperties
      <3>5. i - n \in 1..Len(pending') /\ pending'[i - n] = q[i]
        BY <3>1, <3>3, <3>4
      <3> QED
        BY <2>1, <2>2, <3>5
    <2>4. CASE i <= n
      <3>1. n # 0 /\ i \in 1..n
        BY <2>1, <2>4
      <3>2. Consumes(n, q, PostState(A), EpochOf(now'))
        BY <1>3, <3>1 DEF BlockStep
      <3>3. PostState(A)[v].slashed \/ PostState(A)[v].withdrawable <= EpochOf(now')
        <4>1. q[i].src = v
          BY <2>1
        <4> QED
          BY <3>1, <3>2, <4>1 DEF Consumes
      <3>4. validators'[v].withdrawable <= EpochOf(now')
        BY <1>3, <1>5, <3>3
      <3>5. EpochOf(t.filledAt) + ExitDelay <= validators'[v].withdrawable
        BY <1>2, BlockShowsExit DEF ExitsLate
      <3>6. /\ EpochOf(t.filledAt) \in Nat /\ ExitDelay \in Nat
            /\ validators'[v].withdrawable \in Nat
        <4>1. EpochOf(t.filledAt) \in Nat /\ ExitDelay \in Nat
          BY <1>1, EpochBounds, BeaconConstants
        <4>2. PostState(A)[v] \in ValidatorState
          BY <1>1, <1>2, BlockRegistry
        <4> QED
          BY <1>3, <4>1, <4>2 DEF ValidatorState
      <3>7. EpochOf(t.filledAt) + ExitDelay <= EpochOf(now')
        BY <1>3, <3>4, <3>5, <3>6
      <3>8. FirstMove(id) <= now'
        BY <1>1, <1>3, <3>7, MovesLate DEF FirstMove
      <3> QED
        BY <2>2, <3>8
    <2> QED
      <3>1. i \in Nat /\ n \in Nat
        BY <2>1
      <3> QED
        BY <2>3, <2>4, <3>1
  <1>7. CASE \E s \in roots : s.ts > t.filledAt /\ pair \in s.pend /\ FirstMove(id) <= s.ts
    <2>1. PICK s \in roots : s.ts > t.filledAt /\ pair \in s.pend /\ FirstMove(id) <= s.ts
      BY <1>7
    <2>2. s.ts \in Nat /\ s.ts <= now
      BY <1>2 DEF ConsensusInv, RootsPast, RootPast, BeaconTypeOK, Snapshot
    <2>3. s.ts % RootsKept # now' % RootsKept
      <3>1. s.ts < now'
        BY <1>3, <2>2
      <3> QED
        BY <1>1, <1>3, <1>5, <2>1, <2>2, <3>1, RootSurvives DEF FirstMove
    <2> QED
      BY <1>4, <2>1, <2>3
  <1> QED
    BY <1>5, <1>6, <1>7, PairOrEarlierRoot

LEMMA BlockKeepsTerms ==
  ASSUME TypeOK, ConsensusInv, TermsInv, OutcomeInv, NewBlock, UNCHANGED tradeVars
  PROVE  TermsInv' /\ OutcomeInv'
  <1>1. PICK gap \in 1..MaxGap, A \in AcceptChoices :
          \E f \in InOrder(A) : \E n \in 0..Len(QueueAfter(f)) : BlockStep(gap, A, f, n)
    BY DEF NewBlock
  <1>2. PICK f \in InOrder(A) : \E n \in 0..Len(QueueAfter(f)) : BlockStep(gap, A, f, n)
    BY <1>1
  <1>3. PICK n \in 0..Len(QueueAfter(f)) : BlockStep(gap, A, f, n)
    BY <1>2
  <1>4. trades' = trades /\ BeaconTypeOK
    BY DEF tradeVars, TypeOK
  <1>5. RequestsOfTrades' /\ FilledInPast' /\ AcceptedIds'
    BY <1>3, BlockKeepsRequests
  <1>6. AcceptanceShown'
    BY <1>3, BlockShowsExit, BlockKeepsProof DEF AcceptanceShown
  <1>7. \A id \in WithStatus({"Accepted", "Delivered"}) :
          /\ trades[id].sourceIndex \in Validators /\ trades[id].targetIndex \in Validators
          /\ trades[id].targetIndex # NoValidator
    <2> SUFFICES ASSUME NEW id \in TradeIds, trades[id].status \in {"Accepted", "Delivered"}
                 PROVE  /\ trades[id].sourceIndex \in Validators
                        /\ trades[id].targetIndex \in Validators
                        /\ trades[id].targetIndex # NoValidator
      BY DEF WithStatus
    <2>1. trades[id] \in Trade
      BY FilledIsTrade
    <2> QED
      BY <2>1, BeaconConstants DEF Trade
  <1>8. AcceptedTrades'
    <2>1. \A v \in Validators : accepted[v].tgt # NoValidator => accepted'[v] = accepted[v]
      BY <1>3, <1>4, BlockKeepsPast DEF IsAccepted
    <2> QED
      BY <1>4, <1>7, <2>1 DEF OutcomeInv, AcceptedTrades, WithStatus
  <1>9. DeliveredStakeMoved'
    <2>1. \A v \in Validators : movedTo[v] # NoValidator => movedTo'[v] = movedTo[v]
      BY <1>3, <1>4, BlockMoves
    <2> QED
      BY <1>4, <1>7, <2>1 DEF OutcomeInv, DeliveredStakeMoved, WithStatus
  <1>10. RefundKillsRequest'
    <2> SUFFICES ASSUME NEW id \in TradeIds, trades[id].status = "Failed",
                        NEW i \in 1..Len(requestQueue'), requestQueue'[i].id = id
                 PROVE  validators'[requestQueue'[i].src].slashed
      BY <1>4 DEF RefundKillsRequest, WithStatus
    <2>1. /\ i + DequeueRate \in 1..Len(requestQueue)
          /\ requestQueue'[i] = requestQueue[i + DequeueRate]
      BY <1>3, BlockRequests
    <2>2. validators[requestQueue'[i].src].slashed
      BY <2>1 DEF OutcomeInv, RefundKillsRequest, WithStatus
    <2>3. requestQueue[i + DequeueRate] \in Request
      BY <1>4, <2>1, ElementOfSeq DEF BeaconTypeOK
    <2>4. requestQueue'[i].src \in Validators
      BY <2>1, <2>3 DEF Request
    <2> QED
      BY <1>3, <1>4, <2>2, <2>4, BlockKeepsPast
  <1> QED
    BY <1>5, <1>6, <1>8, <1>9, <1>10 DEF TermsInv, OutcomeInv

(***************************************************************************)
(* Settlements                                                             *)
(***************************************************************************)

\* What a proof of acceptance or of delivery shows has happened.
LEMMA ProvenPairAccepted ==
  ASSUME TypeOK, ConsensusInv, NEW id \in TradeIds, NEW state \in roots,
         ProveAccepted(id, state)
  PROVE  accepted[trades[id].sourceIndex].tgt = trades[id].targetIndex
  BY DEF ProveAccepted, ShowsAcceptance, PairIsPending, ConsensusInv, RootsPast, RootPast

LEMMA ProvenStakeMoved ==
  ASSUME TypeOK, ConsensusInv, OutcomeInv, NEW id \in TradeIds, NEW state \in roots,
         ProveDelivered(id, state)
  PROVE  /\ accepted[trades[id].sourceIndex].tgt = trades[id].targetIndex
         /\ movedTo[trades[id].sourceIndex] = trades[id].targetIndex
  <1> DEFINE v == trades[id].sourceIndex
  <1>1. trades[id] \in Trade /\ trades[id].status = "Accepted"
    BY FilledIsTrade DEF ProveDelivered, ShowsDelivery
  <1>2. v \in Validators /\ trades[id].targetIndex \in Validators
    BY <1>1 DEF Trade
  <1>3. accepted[v].tgt = trades[id].targetIndex
    BY <1>1 DEF OutcomeInv, AcceptedTrades, WithStatus
  <1>4. IsAccepted(v)
    BY <1>2, <1>3, BeaconConstants DEF IsAccepted
  <1>5. RootPast(state)
    BY DEF ConsensusInv, RootsPast
  <1>6. ~state.val[v].slashed /\ state.val[v].withdrawable <= EpochOf(state.slot)
    BY DEF ProveDelivered, ShowsDelivery, Processed
  <1> QED
    BY <1>2, <1>3, <1>4, <1>5, <1>6 DEF RootPast

\* A refund leaves no request behind that the consensus layer could still take.
LEMMA RefundedRequestGone ==
  ASSUME TypeOK, ConsensusInv, TermsInv, NEW id \in TradeIds, trades[id] \in Trade,
         \/ \E state \in roots : ProveNotAccepted(id, state) \/ ProveFailed(id, state)
         \/ RefundExpired(id),
         NEW i \in 1..Len(requestQueue), requestQueue[i].id = id
  PROVE  validators[requestQueue[i].src].slashed
  <1>1. /\ RequestOfTrade(i) /\ now <= trades[id].filledAt + DequeueDelay
    BY QueuedRecently DEF TermsInv, RequestsOfTrades, TradeIds
  <1>2. trades[id].filledAt \in Nat /\ now \in Nat /\ trades[id].sourceIndex \in Validators
    BY ClockBounds DEF Trade, TypeOK
  <1>3. DequeueDelay \in Nat /\ AcceptWindow \in Nat /\ DequeueDelay < AcceptWindow
    BY MarketConstants, AcceptWindowBounds
  <1>4. ~RefundExpired(id)
    BY <1>1, <1>2, <1>3 DEF RefundExpired, Expired
  <1>5. PICK state \in roots : ProveNotAccepted(id, state) \/ ProveFailed(id, state)
    BY <1>4
  <1>6. RootPast(state) /\ state.ts \in Nat
    BY DEF ConsensusInv, RootsPast, TypeOK, BeaconTypeOK, Snapshot
  <1>7. ~ProveNotAccepted(id, state)
    <2>1. ~(state.ts > trades[id].filledAt + DequeueDelay)
      BY <1>1, <1>2, <1>3, <1>6 DEF RootPast
    <2> QED
      BY <2>1 DEF ProveNotAccepted, ShowsNoAcceptance, RequestDequeued
  <1>8. state.val[trades[id].sourceIndex].slashed
    BY <1>5, <1>7 DEF ProveFailed, ShowsSlashing
  <1> QED
    BY <1>1, <1>2, <1>6, <1>8 DEF RootPast, RequestOfTrade

LEMMA SettleKeepsOutcomes ==
  ASSUME TypeOK, ConsensusInv, TermsInv, OutcomeInv, SettleNext
  PROVE  TermsInv' /\ OutcomeInv'
  <1>1. PICK id \in TradeIds :
          /\ IsOpen(id) /\ trades[id] \in Trade
          /\ \/ \E state \in roots : ProveAccepted(id, state)
             \/ \E state \in roots :
                  ProveDelivered(id, state) /\ Close(id, "Delivered", trades[id].seller)
             \/ /\ Close(id, "Failed", trades[id].buyer)
                /\ \/ \E state \in roots : ProveNotAccepted(id, state) \/ ProveFailed(id, state)
                   \/ RefundExpired(id)
    BY SettleSteps
  <1>2. SUFFICES
          ASSUME SameTerms, UNCHANGED beaconVars,
                 \A j \in TradeIds : j # id => trades'[j] = trades[j],
                 \/ /\ trades'[id].status = "Accepted"
                    /\ accepted[trades[id].sourceIndex].tgt = trades[id].targetIndex
                 \/ /\ trades'[id].status = "Delivered"
                    /\ accepted[trades[id].sourceIndex].tgt = trades[id].targetIndex
                    /\ movedTo[trades[id].sourceIndex] = trades[id].targetIndex
                 \/ /\ trades'[id].status = "Failed"
                    /\ \A i \in 1..Len(requestQueue) :
                         requestQueue[i].id = id => validators[requestQueue[i].src].slashed
          PROVE  TermsInv' /\ OutcomeInv'
    <2>1. CASE \E state \in roots : ProveAccepted(id, state)
      BY <1>2, <2>1, AcceptKeepsTerms, ProvenPairAccepted
    <2>2. CASE \E state \in roots :
                 ProveDelivered(id, state) /\ Close(id, "Delivered", trades[id].seller)
      BY <1>1, <1>2, <2>2, CloseKeepsTerms, ProvenStakeMoved
    <2>3. CASE /\ Close(id, "Failed", trades[id].buyer)
               /\ \/ \E state \in roots : ProveNotAccepted(id, state) \/ ProveFailed(id, state)
                  \/ RefundExpired(id)
      BY <1>1, <1>2, <2>3, CloseKeepsTerms, RefundedRequestGone
    <2> QED
      BY <1>1, <2>1, <2>2, <2>3
  <1>3. IsFilled(id) /\ UNCHANGED <<accepted, movedTo, requestQueue, validators>>
    BY <1>1, <1>2, OpenIsFilled DEF beaconVars
  <1>4. AcceptedTrades' /\ DeliveredStakeMoved'
    BY <1>2, <1>3 DEF OutcomeInv, AcceptedTrades, DeliveredStakeMoved, WithStatus, SameTerms
  <1>5. RefundKillsRequest'
    BY <1>2, <1>3 DEF OutcomeInv, RefundKillsRequest, WithStatus
  <1> QED
    BY <1>2, <1>4, <1>5, SettleKeepsTerms DEF OutcomeInv

(***************************************************************************)
(* The theorems                                                            *)
(***************************************************************************)
SettlementInv == ConsensusInv /\ SaleInv /\ TermsInv /\ OutcomeInv

LEMMA SettlementInit == Init => SettlementInv
  BY ConsensusInit, SaleInit, TermsInit DEF SettlementInv, Init

LEMMA SettlementStep == TypeOK /\ SettlementInv /\ [MarketNext]_vars => SettlementInv'
  <1> SUFFICES ASSUME TypeOK, SettlementInv, [MarketNext]_vars PROVE SettlementInv'
    OBVIOUS
  <1> USE DEF SettlementInv
  <1>1. ConsensusInv' /\ SaleInv'
    BY ConsensusStep, SaleStep
  <1>2. SUFFICES TermsInv' /\ OutcomeInv'
    BY <1>1
  <1>3. CASE UNCHANGED <<beaconVars, trades, nextTradeId>>
    <2>1. SameTerms
      BY <1>3 DEF SameTerms, IsFilled
    <2>2. OutcomeInv'
      BY <1>3 DEF OutcomeInv, AcceptedTrades, DeliveredStakeMoved, RefundKillsRequest,
         WithStatus, beaconVars
    <2> QED
      BY <1>3, <2>1, <2>2, SettleKeepsTerms
  <1>4. CASE AnyOffer \/ AnyAttest \/ UNCHANGED vars
    BY <1>3, <1>4 DEF AnyOffer, ListOrder, ListOrderWithPolicy, CancelOrder, UseNonce,
       SetDelegation, AnyAttest, Attest, tradeVars, vars
  <1>5. CASE AnyFill
    BY <1>5, FillKeepsTerms DEF AnyFill
  <1>6. CASE SettleNext
    BY <1>6, SettleKeepsOutcomes
  <1>7. CASE BeaconNext
    <2>1. BeaconTypeOK /\ UNCHANGED tradeVars
      BY <1>7 DEF TypeOK, BeaconNext
    <2>2. TypeOK'
      BY StepType
    <2>3. OwnRequest \/ NewBlock \/ RegistryMoves
      BY <1>7, <2>1, BeaconSteps
    <2> QED
      BY <2>1, <2>2, <2>3, OwnRequestKeepsTerms, BlockKeepsTerms, RegistryKeepsTerms
  <1> QED
    BY <1>4, <1>5, <1>6, <1>7 DEF MarketNext

LEMMA RequestsNamed == TypeOK /\ SettlementInv => RequestNamesLockedStake
  <1> SUFFICES ASSUME TypeOK, SettlementInv, NEW i \in 1..Len(requestQueue),
                      requestQueue[i].id # 0, IsOpen(requestQueue[i].id)
               PROVE  /\ activeTradeBySource[requestQueue[i].src] = requestQueue[i].id
                      /\ requestQueue[i].tgt = trades[requestQueue[i].id].targetIndex
                      /\ WithdrawalAddress[requestQueue[i].src] = requestQueue[i].sender
    BY DEF RequestNamesLockedStake
  <1>1. RequestOfTrade(i) /\ requestQueue[i].id \in TradeIds
    BY QueuedRecently DEF SettlementInv, TermsInv, RequestsOfTrades
  <1> QED
    BY <1>1 DEF RequestOfTrade, SettlementInv, SaleInv, SourceLock

(***************************************************************************)
(* What the market, its locks, its queue of requests and the roots of the  *)
(* ring say of one another stays true: the invariant that the theorems     *)
(* about settlements below rest on.                                        *)
(***************************************************************************)
THEOREM SettlementKept == Spec => []SettlementInv
  BY SettlementInit, SettlementStep, NextIsMarketNext, TypeCorrect, PTL DEF Spec

(***************************************************************************)
(* The request in the predeploy's queue is for the stake its open trade    *)
(* holds locked, with the target the buyer chose, in the owner's name.     *)
(***************************************************************************)
THEOREM RequestsNameStake == Spec => []RequestNamesLockedStake
  BY RequestsNamed, SettlementKept, TypeCorrect, PTL

(***************************************************************************)
(* Delivery versus payment: a seller that was paid no longer has the       *)
(* stake; the consensus layer has moved it where the buyer wanted it.      *)
(***************************************************************************)
THEOREM PaidStakeMoved == Spec => []DeliveredStakeMoved
  <1>1. SettlementInv => DeliveredStakeMoved
    BY DEF SettlementInv, OutcomeInv
  <1> QED
    BY <1>1, SettlementKept, PTL

(***************************************************************************)
(* A refund is final: with a queue that drains within                      *)
(* REQUEST_DEQUEUE_DELAY, no request of a failed trade is left that the    *)
(* consensus layer could still accept.                                     *)
(***************************************************************************)
THEOREM RefundIsFinal == Spec => []RefundKillsRequest
  <1>1. SettlementInv => RefundKillsRequest
    BY DEF SettlementInv, OutcomeInv
  <1> QED
    BY <1>1, SettlementKept, PTL

(***************************************************************************)
(* MAX_ACCEPT_WINDOW fits the ring of roots: to the end of the accept      *)
(* window, a root proves every acceptance that no slashing has undone.     *)
(***************************************************************************)
THEOREM WindowFitsRing == Spec => []AcceptanceProvable
  <1>1. SettlementInv => AcceptanceProvable
    <2> SUFFICES ASSUME SettlementInv, NEW id \in TradeIds, OwnRequestAccepted(id),
                        ~validators[trades[id].sourceIndex].slashed,
                        now <= trades[id].filledAt + AcceptWindow
                 PROVE  CanProveAccepted(id)
      BY DEF AcceptanceProvable, WithStatus
    <2>1. LastingProof(id)
      BY DEF SettlementInv, TermsInv, AcceptanceShown, ProofLasts
    <2> QED
      BY <2>1 DEF LastingProof, CanProveAccepted, StateAfterFill, PairIsPending
  <1> QED
    BY <1>1, SettlementKept, PTL

(***************************************************************************)
(* No step refunds the buyer of a stake that the consensus layer has       *)
(* accepted for it, but for a slashing or a window nobody used.            *)
(***************************************************************************)
THEOREM AcceptedStakeNotRefunded == Spec => NoRefundOfAcceptedStake
  <1> DEFINE Sound ==
        \A id \in TradeIds :
          /\ IsOpen(id) /\ trades'[id].status = "Failed"
          /\ OwnRequestAccepted(id)
          => \/ validators[trades[id].sourceIndex].slashed
             \/ trades[id].status = "RequestSubmitted" /\ now > trades[id].filledAt + AcceptWindow
  <1>1. TypeOK /\ SettlementInv /\ [MarketNext]_vars => [Sound]_vars
    <2> SUFFICES ASSUME TypeOK, SettlementInv, MarketNext, NEW id \in TradeIds,
                        IsOpen(id), trades'[id].status = "Failed", OwnRequestAccepted(id)
                 PROVE  \/ validators[trades[id].sourceIndex].slashed
                        \/ /\ trades[id].status = "RequestSubmitted"
                           /\ now > trades[id].filledAt + AcceptWindow
      OBVIOUS
    <2>1. trades' # trades
      BY DEF IsOpen, OpenStatus
    <2>2. ~AnyOffer /\ ~AnyAttest /\ ~BeaconNext
      BY <2>1 DEF AnyOffer, ListOrder, ListOrderWithPolicy, CancelOrder, UseNonce,
         SetDelegation, AnyAttest, Attest, BeaconNext, tradeVars
    <2>3. ~AnyFill
      <3> SUFFICES ASSUME NEW o \in Orders, NEW target \in Validators, NEW state \in roots,
                          NEW buyer \in Accounts, NEW payment,
                          FillFor(o, target, state, buyer, payment)
                   PROVE  FALSE
        BY DEF AnyFill
      <3>1. /\ trades'[nextTradeId].status = "RequestSubmitted"
            /\ \A i \in TradeIds : i # nextTradeId => trades'[i] = trades[i]
        BY FillFacts
      <3> QED
        BY <3>1 DEF IsOpen, OpenStatus
    <2>4. PICK i \in TradeIds :
            /\ IsOpen(i) /\ trades[i] \in Trade
            /\ \/ \E state \in roots : ProveAccepted(i, state)
               \/ \E state \in roots :
                    ProveDelivered(i, state) /\ Close(i, "Delivered", trades[i].seller)
               \/ /\ Close(i, "Failed", trades[i].buyer)
                  /\ \/ \E state \in roots : ProveNotAccepted(i, state) \/ ProveFailed(i, state)
                     \/ RefundExpired(i)
      BY <2>2, <2>3, SettleSteps DEF MarketNext
    <2>5. i = id
      BY <2>4, AcceptKeepsTerms, CloseKeepsTerms DEF IsOpen, OpenStatus
    <2>6. \/ \E state \in roots : ProveNotAccepted(id, state) \/ ProveFailed(id, state)
          \/ RefundExpired(id)
      BY <2>4, <2>5, AcceptKeepsTerms, CloseKeepsTerms
    <2>7. CASE \E state \in roots : ProveNotAccepted(id, state)
      BY <2>7 DEF ProveNotAccepted, ShowsNoAcceptance, RequestDequeued, SourceNotExiting,
         SettlementInv, TermsInv,
         AcceptanceShown, SeenAfterDelay
    <2>8. CASE \E state \in roots : ProveFailed(id, state)
      <3>1. trades[id].sourceIndex \in Validators
        BY <2>4, <2>5 DEF Trade
      <3> QED
        BY <2>8, <3>1 DEF ProveFailed, ShowsSlashing, SettlementInv, ConsensusInv, RootsPast, RootPast
    <2>9. CASE RefundExpired(id)
      BY <2>9 DEF RefundExpired, Expired
    <2> QED
      BY <2>6, <2>7, <2>8, <2>9
  <1> QED
    BY <1>1, SettlementKept, NextIsMarketNext, TypeCorrect, PTL DEF Spec, NoRefundOfAcceptedStake

-----------------------------------------------------------------------------
(***************************************************************************)
(* The refinement.  The market implements the abstract delivery versus     *)
(* payment of DvP: each fill locks a deal, each delivery pays it after the *)
(* stake moved, each failure refunds it, and every other step moves stakes *)
(* or nothing.                                                             *)
(***************************************************************************)

\* What DvP's actions see of the market.
Deal   == [id \in TradeIds |-> DealOf(trades[id])]
Purse  == [a \in Accounts |-> weth[a]]
Escrow == weth[Market]

LEMMA DealStates ==
  ASSUME TypeOK, NEW id \in TradeIds
  PROVE  /\ DealOf(trades[id]).state = "none" <=> ~IsFilled(id)
         /\ DealOf(trades[id]).state = "locked" <=> IsOpen(id)
         /\ ~IsFilled(id) => DealOf(trades[id]) = [state |-> "none"]
         /\ IsFilled(id) => DealOf(trades[id]).source = trades[id].sourceIndex
  <1>1. CASE ~IsFilled(id)
    BY <1>1 DEF IsFilled, DealOf, IsOpen, OpenStatus
  <1>2. CASE IsFilled(id)
    <2>1. trades[id] \in Trade
      BY <1>2, FilledIsTrade DEF IsFilled
    <2>2. trades[id].status \in {"RequestSubmitted", "Accepted", "Delivered", "Failed"}
      BY <2>1 DEF Trade, Status
    <2> QED
      BY <1>2, <2>2 DEF IsFilled, DealOf, DealState, IsOpen, OpenStatus
  <1> QED
    BY <1>1, <1>2

LEMMA RefinementInit == Init => Abstract!Init
  <1> SUFFICES ASSUME Init PROVE Abstract!Init
    OBVIOUS
  <1>1. trades = [id \in TradeIds |-> NoTrade]
    BY DEF Init
  <1>2. Deal = [id \in TradeIds |-> Abstract!NoDeal]
    BY <1>1 DEF Deal, DealOf, NoTrade, Abstract!NoDeal
  <1>3. Purse \in [Accounts -> Nat] /\ Escrow = 0
    BY MarketConstants DEF Init, Purse, Escrow, Holders
  <1>4. movedTo = [v \in Validators |-> NoValidator]
    BY DEF Init, BeaconInit
  <1> QED
    BY <1>2, <1>3, <1>4 DEF Abstract!Init, Deal, Purse, Escrow

\* Payments into and out of the market, as parties see them.
LEMMA PaidIn ==
  ASSUME TypeOK, NEW payment \in Nat, NEW payer \in Accounts,
         weth' = [weth EXCEPT ![payer] = @ - payment, ![Market] = @ + payment]
  PROVE  /\ Purse' = [Purse EXCEPT ![payer] = @ - payment]
         /\ Escrow' = Escrow + payment
  BY MarketConstants DEF TypeOK, Holders, Purse, Escrow

LEMMA WrappedIn ==
  ASSUME TypeOK, NEW payment \in Nat, weth' = [weth EXCEPT ![Market] = @ + payment]
  PROVE  Purse' = Purse /\ Escrow' = Escrow + payment
  BY MarketConstants DEF TypeOK, Holders, Purse, Escrow

LEMMA PaidOut ==
  ASSUME TypeOK, NEW payment \in Nat, NEW payee \in Accounts,
         weth' = [weth EXCEPT ![Market] = @ - payment, ![payee] = @ + payment]
  PROVE  /\ Purse' = [Purse EXCEPT ![payee] = @ + payment]
         /\ Escrow' = Escrow - payment
  BY MarketConstants DEF TypeOK, Holders, Purse, Escrow

LEMMA FillLocks ==
  ASSUME TypeOK, SaleInv, NEW new, new = nextTradeId, NEW o \in Orders, NEW target \in Validators, NEW state \in roots,
         NEW buyer \in Accounts, NEW payment, FillFor(o, target, state, buyer, payment),
         Escrow' = Escrow + payment,
         \/ Purse' = Purse
         \/ \E payer \in Accounts :
              weth[payer] >= payment /\ Purse' = [Purse EXCEPT ![payer] = @ - payment]
  PROVE  Abstract!Lock(new)
  <1> DEFINE terms == DealOf(trades'[new])
  <1>1. /\ new \in TradeIds /\ payment \in Nat /\ o \in Order /\ target \in Validators
        /\ buyer \in Accounts
    BY FillFacts, FillType, MarketConstants
  <1>2. trades' = [trades EXCEPT ![new] =
          [seller |-> o.seller, buyer |-> buyer, sourceIndex |-> o.sourceIndex,
           targetIndex |-> target, sourcePubkey |-> o.sourcePubkey,
           amount |-> state.val[o.sourceIndex].eff,
           filledAt |-> now, withdrawableEpoch |-> 0, status |-> "RequestSubmitted",
           payment |-> payment, nonce |-> o.nonce]]
    BY DEF FillFor, OpenTrade
  <1>3. terms = [source |-> o.sourceIndex, target |-> target, seller |-> o.seller,
                 buyer |-> buyer, payment |-> payment, state |-> "locked"]
    BY <1>1, <1>2 DEF TypeOK, DealOf, DealState
  <1>4. terms \in Abstract!Terms
    BY <1>1, <1>3 DEF Abstract!Terms, Order
  <1>5. \A id \in TradeIds : id # new => trades'[id] = trades[id]
    BY <1>1, <1>2 DEF TypeOK
  <1>6. Deal' = [Deal EXCEPT ![new] = terms] /\ Deal'[new] = terms
    BY <1>1, <1>5 DEF Deal
  <1>7. Deal[new] = Abstract!NoDeal
    <2>1. new \in Nat /\ ~IsFilled(new)
      BY <1>1 DEF SaleInv, FreshIds, TypeOK, TradeIds
    <2> QED
      BY <1>1, <2>1, DealStates DEF Deal, Abstract!NoDeal
  <1>8. \A e \in TradeIds : Deal[e].state = "locked" => Deal[e].source # o.sourceIndex
    <2> SUFFICES ASSUME NEW e \in TradeIds, Deal[e].state = "locked",
                        Deal[e].source = o.sourceIndex
                 PROVE  FALSE
      OBVIOUS
    <2>1. IsOpen(e) /\ trades[e].sourceIndex = o.sourceIndex
      BY DealStates, OpenIsFilled DEF Deal
    <2>2. activeTradeBySource[o.sourceIndex] = e
      BY <2>1 DEF SaleInv, SourceLock
    <2>3. activeTradeBySource[o.sourceIndex] = 0
      BY DEF FillFor, CheckOrder, SourceUnlocked
    <2> QED
      BY <2>2, <2>3 DEF TradeIds
  <1>9. movedTo' = movedTo
    BY DEF FillFor, RequestConsolidation
  <1>10. \/ Purse' = Purse
         \/ \E p \in Accounts :
              Purse[p] >= payment /\ Purse' = [Purse EXCEPT ![p] = @ - payment]
    BY DEF Purse
  <1>11. terms.source = o.sourceIndex /\ terms.payment = payment /\ terms.state = "locked"
    BY <1>3
  <1> HIDE DEF terms
  <1> QED
    BY <1>4, <1>6, <1>7, <1>8, <1>9, <1>10, <1>11
       DEF Abstract!Lock, Abstract!Locked, Deal, Purse, Escrow

LEMMA CloseSettles ==
  ASSUME TypeOK, NEW id \in TradeIds, IsOpen(id), trades[id] \in Trade,
         NEW outcome \in {"Delivered", "Failed"}, NEW payee \in Accounts,
         Close(id, outcome, payee)
  PROVE  /\ Deal[id].state = "locked" /\ movedTo' = movedTo
         /\ Deal' = [Deal EXCEPT ![id].state = DealState[outcome]]
         /\ Purse' = [Purse EXCEPT ![payee] = @ + Deal[id].payment]
         /\ Escrow' = Escrow - Deal[id].payment
  <1>1. trades' = [trades EXCEPT ![id].status = outcome]
    BY DEF Close
  <1>2. \A i \in TradeIds : i # id => trades'[i] = trades[i]
    BY <1>1 DEF TypeOK
  <1>3. trades'[id] = [trades[id] EXCEPT !.status = outcome]
    BY <1>1 DEF TypeOK
  <1>4. /\ DealOf(trades'[id]) = [DealOf(trades[id]) EXCEPT !.state = DealState[outcome]]
        /\ DealOf(trades[id]).payment = trades[id].payment
    <2>1. trades[id].status # "None" /\ trades'[id].status = outcome /\ outcome # "None"
      BY <1>3 DEF IsOpen, OpenStatus, Trade
    <2>2. /\ trades'[id].sourceIndex = trades[id].sourceIndex
          /\ trades'[id].targetIndex = trades[id].targetIndex
          /\ trades'[id].seller = trades[id].seller /\ trades'[id].buyer = trades[id].buyer
          /\ trades'[id].payment = trades[id].payment
      BY <1>3 DEF Trade
    <2> QED
      BY <2>1, <2>2 DEF DealOf
  <1>5. Deal' = [Deal EXCEPT ![id].state = DealState[outcome]]
    BY <1>2, <1>4 DEF Deal
  <1>6. Deal[id].payment = trades[id].payment /\ trades[id].payment \in Nat
    BY <1>4 DEF Deal, Trade
  <1>7. Purse' = [Purse EXCEPT ![payee] = @ + trades[id].payment]
        /\ Escrow' = Escrow - trades[id].payment
    BY <1>6, PaidOut DEF Close
  <1>8. Deal[id].state = "locked"
    BY DealStates DEF Deal
  <1>9. movedTo' = movedTo
    BY DEF Close, beaconVars
  <1> QED
    BY <1>5, <1>6, <1>7, <1>8, <1>9

LEMMA FillImplementsLock ==
  ASSUME TypeOK, SaleInv, AnyFill
  PROVE  \E id \in TradeIds : Abstract!Lock(id)
  <1>1. PICK o \in Orders, target \in Validators, state \in roots, buyer \in Accounts :
          \E payment :
            /\ FillFor(o, target, state, buyer, payment)
            /\ \/ weth' = [weth EXCEPT ![Market] = @ + payment]
               \/ \E payer \in Accounts :
                    /\ weth[payer] >= payment
                    /\ weth' = [weth EXCEPT ![payer] = @ - payment, ![Market] = @ + payment]
    BY DEF AnyFill
  <1>2. PICK payment :
          /\ FillFor(o, target, state, buyer, payment)
          /\ \/ weth' = [weth EXCEPT ![Market] = @ + payment]
             \/ \E payer \in Accounts :
                  /\ weth[payer] >= payment
                  /\ weth' = [weth EXCEPT ![payer] = @ - payment, ![Market] = @ + payment]
    BY <1>1
  <1>3. payment \in Nat
    BY <1>2, FillType
  <1>4. PICK id \in TradeIds : id = nextTradeId
    BY <1>2, FillFacts
  <1>5. /\ Escrow' = Escrow + payment
        /\ \/ Purse' = Purse
           \/ \E payer \in Accounts :
                weth[payer] >= payment /\ Purse' = [Purse EXCEPT ![payer] = @ - payment]
    BY <1>2, <1>3, PaidIn, WrappedIn
  <1> QED
    BY <1>2, <1>4, <1>5, FillLocks

LEMMA SettleImplements ==
  ASSUME TypeOK, SettlementInv, SettleNext
  PROVE  \/ \E id \in TradeIds : Abstract!Pay(id) \/ Abstract!Refund(id)
         \/ UNCHANGED Abstract!dvpVars
  <1>1. PICK id \in TradeIds :
          /\ IsOpen(id) /\ trades[id] \in Trade
          /\ \/ \E state \in roots : ProveAccepted(id, state)
             \/ \E state \in roots :
                  ProveDelivered(id, state) /\ Close(id, "Delivered", trades[id].seller)
             \/ Close(id, "Failed", trades[id].buyer)
    BY SettleSteps
  <1>2. trades[id].seller \in Accounts /\ trades[id].buyer \in Accounts
    BY <1>1 DEF Trade
  <1>3. /\ Deal[id].seller = trades[id].seller /\ Deal[id].buyer = trades[id].buyer
        /\ Deal[id].source = trades[id].sourceIndex /\ Deal[id].target = trades[id].targetIndex
    BY <1>1, OpenIsFilled DEF Deal, DealOf, IsFilled
  <1>4. CASE \E state \in roots : ProveAccepted(id, state)
    <2>1. PICK state \in roots : ProveAccepted(id, state)
      BY <1>4
    <2>2. trades' = [trades EXCEPT
            ![id].withdrawableEpoch = state.val[trades[id].sourceIndex].withdrawable,
            ![id].status = "Accepted"]
      BY <2>1 DEF ProveAccepted
    <2>3. trades[id].status = "RequestSubmitted"
      BY <2>1 DEF ProveAccepted, ShowsAcceptance
    <2>4. /\ trades'[id].status = "Accepted"
          /\ trades'[id].sourceIndex = trades[id].sourceIndex
          /\ trades'[id].targetIndex = trades[id].targetIndex
          /\ trades'[id].seller = trades[id].seller /\ trades'[id].buyer = trades[id].buyer
          /\ trades'[id].payment = trades[id].payment
      BY <1>1, <2>2 DEF TypeOK, Trade
    <2>5. DealOf(trades'[id]) = DealOf(trades[id])
      BY <2>3, <2>4 DEF DealOf, DealState
    <2>6. \A i \in TradeIds : i # id => trades'[i] = trades[i]
      BY <2>2 DEF TypeOK
    <2>7. Deal' = Deal
      BY <2>5, <2>6 DEF Deal
    <2>8. weth' = weth /\ movedTo' = movedTo
      BY <2>1 DEF ProveAccepted, beaconVars
    <2> QED
      BY <2>7, <2>8 DEF Abstract!dvpVars, Deal
  <1>5. CASE \E state \in roots :
               ProveDelivered(id, state) /\ Close(id, "Delivered", trades[id].seller)
    <2>1. movedTo[trades[id].sourceIndex] = trades[id].targetIndex
      BY <1>5, ProvenStakeMoved DEF SettlementInv
    <2>2. /\ Deal[id].state = "locked" /\ movedTo' = movedTo
          /\ Deal' = [Deal EXCEPT ![id].state = "paid"]
          /\ Purse' = [Purse EXCEPT ![Deal[id].seller] = @ + Deal[id].payment]
          /\ Escrow' = Escrow - Deal[id].payment
      <3>1. PICK payee \in Accounts : payee = Deal[id].seller
        BY <1>2, <1>3
      <3>2. Close(id, "Delivered", trades[id].seller)
        BY <1>5
      <3>3. Close(id, "Delivered", payee)
        BY <1>3, <3>1, <3>2 DEF Close
      <3>4. DealState["Delivered"] = "paid"
        BY DEF DealState
      <3> QED
        BY <1>1, <3>1, <3>3, <3>4, CloseSettles
    <2>3. Abstract!Pay(id)
      BY <1>3, <2>1, <2>2
         DEF Abstract!Pay, Abstract!Locked, Abstract!Settle, Deal, Purse, Escrow
    <2> QED
      BY <2>3
  <1>6. CASE Close(id, "Failed", trades[id].buyer)
    <2>1. /\ Deal[id].state = "locked" /\ movedTo' = movedTo
          /\ Deal' = [Deal EXCEPT ![id].state = "refunded"]
          /\ Purse' = [Purse EXCEPT ![Deal[id].buyer] = @ + Deal[id].payment]
          /\ Escrow' = Escrow - Deal[id].payment
      <3>1. PICK payee \in Accounts : payee = Deal[id].buyer
        BY <1>2, <1>3
      <3>2. Close(id, "Failed", trades[id].buyer)
        BY <1>6
      <3>3. Close(id, "Failed", payee)
        BY <1>3, <3>1, <3>2 DEF Close
      <3>4. DealState["Failed"] = "refunded"
        BY DEF DealState
      <3> QED
        BY <1>1, <3>1, <3>3, <3>4, CloseSettles
    <2>2. Abstract!Refund(id)
      BY <1>3, <2>1
         DEF Abstract!Refund, Abstract!Locked, Abstract!Settle, Deal, Purse, Escrow
    <2> QED
      BY <2>2
  <1> QED
    BY <1>1, <1>4, <1>5, <1>6

LEMMA BeaconImplements ==
  ASSUME TypeOK, ConsensusInv, TypeOK', BeaconNext
  PROVE  Abstract!Move
  <1>1. trades' = trades /\ weth' = weth /\ BeaconTypeOK
    BY DEF BeaconNext, tradeVars, TypeOK
  <1>2. movedTo' \in [Validators -> Validators \cup {NoValidator}]
    BY DEF TypeOK, BeaconTypeOK
  <1>3. \A v \in Validators : movedTo[v] # NoValidator => movedTo'[v] = movedTo[v]
    <2>1. CASE NewBlock
      BY <1>1, <2>1, BlockMoves DEF NewBlock
    <2>2. CASE OwnRequest \/ RegistryMoves
      BY <2>2 DEF OwnRequest, RegistryMoves
    <2> QED
      BY <1>1, <2>1, <2>2, BeaconSteps
  <1> QED
    BY <1>1, <1>2, <1>3 DEF Abstract!Move

LEMMA DvPStep ==
  TypeOK /\ TypeOK' /\ SettlementInv /\ [MarketNext]_vars => [Abstract!Next]_(Abstract!dvpVars)
  <1> SUFFICES ASSUME TypeOK, TypeOK', SettlementInv, [MarketNext]_vars
               PROVE  Abstract!Next \/ UNCHANGED Abstract!dvpVars
    OBVIOUS
  <1>1. CASE AnyFill
    BY <1>1, FillImplementsLock DEF SettlementInv, Abstract!Next
  <1>2. CASE SettleNext
    BY <1>2, SettleImplements DEF Abstract!Next
  <1>3. CASE BeaconNext
    BY <1>3, BeaconImplements DEF SettlementInv, Abstract!Next
  <1>4. CASE AnyOffer \/ AnyAttest \/ UNCHANGED vars
    <2>1. trades' = trades /\ weth' = weth /\ movedTo' = movedTo
      BY <1>4 DEF AnyOffer, ListOrder, ListOrderWithPolicy, CancelOrder, UseNonce,
         SetDelegation, AnyAttest, Attest, tradeVars, beaconVars, vars
    <2> QED
      BY <2>1 DEF Abstract!dvpVars
  <1> QED
    BY <1>1, <1>2, <1>3, <1>4 DEF MarketNext

(***************************************************************************)
(* Delivery versus payment: every behaviour of the market, with its        *)
(* orders, windows and proofs and the consensus layer around it, is one of *)
(* the abstract specification, in which a deal's payment goes once, to the *)
(* seller after the stake moved or back to the buyer.                      *)
(***************************************************************************)
THEOREM MarketImplementsDvP == Spec => ImplementsDvP
  BY DvPStep, RefinementInit, SettlementKept, NextIsMarketNext, TypeCorrect, PTL
     DEF Spec, ImplementsDvP, Abstract!Spec

(***************************************************************************)
(* Sums.  MapThenSumSet picks the elements of a set in some order; a sum   *)
(* over a finite set does not depend on it.                                *)
(***************************************************************************)
\* The element a fold takes next.
Pick(s) == CHOOSE x \in s : TRUE

SumOf(f, S) == MapThenSumSet(LAMBDA x : f[x], S)

\* g adds up f over each part of S.
Adds(g, f, S) ==
  /\ g[{}] = 0
  /\ \A s \in SUBSET S : s # {} => g[s] = f[Pick(s)] + g[s \ {Pick(s)}]
IsSum(g, f, S) == g \in [SUBSET S -> Int] /\ Adds(g, f, S)

LEMMA Least ==
  ASSUME NEW B \in SUBSET Nat, B # {}
  PROVE  \E n \in B : \A k \in B : n <= k
  <1>1. PICK n \in B : \A k \in B : <<k, n>> \notin OpToRel(<, Nat)
    BY WFMin, NatLessThanWellFounded
  <1>2. \A k \in B : ~(k < n)
    BY <1>1 DEF OpToRel
  <1> QED
    BY <1>2

\* Taking an element leaves a smaller part.
LEMMA Smaller ==
  ASSUME NEW S, IsFiniteSet(S), NEW s \in SUBSET S, NEW x \in s
  PROVE  /\ IsFiniteSet(s) /\ Cardinality(s) \in Nat /\ s \ {x} \in SUBSET S
         /\ Cardinality(s \ {x}) \in Nat /\ Cardinality(s \ {x}) = Cardinality(s) - 1
  <1>1. IsFiniteSet(s) /\ Cardinality(s) \in Nat
    BY FS_Subset, FS_CardinalityType
  <1>2. IsFiniteSet(s \ {x}) /\ Cardinality(s \ {x}) = Cardinality(s) - 1
    BY <1>1, FS_RemoveElement
  <1> QED
    BY <1>1, <1>2, FS_CardinalityType

LEMMA Picked ==
  ASSUME NEW s, s # {}
  PROVE  Pick(s) \in s
  BY DEF Pick

LEMMA SumExists ==
  ASSUME NEW S, IsFiniteSet(S), NEW f, \A x \in S : f[x] \in Int
  PROVE  \E g : IsSum(g, f, S)
  <1> DEFINE UpTo(g, n) ==
        /\ g \in [SUBSET S -> Int]
        /\ g[{}] = 0
        /\ \A s \in SUBSET S : s # {} /\ Cardinality(s) <= n => g[s] = f[Pick(s)] + g[s \ {Pick(s)}]
  <1> DEFINE Reached(n) == \E g : UpTo(g, n)
  <1>0. \A s \in SUBSET S : Cardinality(s) \in Nat
    BY FS_Subset, FS_CardinalityType
  <1>1. Reached(0)
    <2> DEFINE g == [s \in SUBSET S |-> 0]
    <2>1. \A s \in SUBSET S : s # {} => ~(Cardinality(s) <= 0)
      BY <1>0, FS_Subset, FS_EmptySet
    <2>2. UpTo(g, 0)
      BY <2>1
    <2> QED
      BY <2>2
  <1>2. \A n \in Nat : Reached(n) => Reached(n + 1)
    <2> SUFFICES ASSUME NEW n \in Nat, NEW g, UpTo(g, n) PROVE Reached(n + 1)
      OBVIOUS
    <2> DEFINE h == [s \in SUBSET S |->
                       IF Cardinality(s) <= n THEN g[s] ELSE f[Pick(s)] + g[s \ {Pick(s)}]]
    <2>1. h \in [SUBSET S -> Int]
      <3> SUFFICES ASSUME NEW s \in SUBSET S, ~(Cardinality(s) <= n)
                   PROVE  f[Pick(s)] + g[s \ {Pick(s)}] \in Int
        OBVIOUS
      <3>1. s # {}
        <4>1. Cardinality({}) <= n
          BY FS_EmptySet
        <4> QED
          BY <4>1
      <3> QED
        BY <3>1, Picked
    <2>2. h[{}] = 0
      BY FS_EmptySet
    <2>3. ASSUME NEW s \in SUBSET S, s # {}, Cardinality(s) <= n + 1
          PROVE  h[s] = f[Pick(s)] + h[s \ {Pick(s)}]
      <3>1. Pick(s) \in s /\ s \ {Pick(s)} \in SUBSET S
        BY <2>3, Picked
      <3>2. Cardinality(s \ {Pick(s)}) <= n
        BY <1>0, <2>3, <3>1, Smaller
      <3>3. h[s \ {Pick(s)}] = g[s \ {Pick(s)}]
        BY <3>1, <3>2
      <3>4. h[s] = f[Pick(s)] + g[s \ {Pick(s)}]
        BY <2>3
      <3> QED
        BY <3>3, <3>4
    <2>4. UpTo(h, n + 1)
      <3> HIDE DEF h
      <3> QED BY <2>1, <2>2, <2>3
    <2> QED
      BY <2>4
  <1>3. \A n \in Nat : Reached(n)
    <2> DEFINE B == {n \in Nat : ~Reached(n)}
    <2> SUFFICES ASSUME B # {} PROVE FALSE
      OBVIOUS
    <2> HIDE DEF Reached
    <2>1. PICK n \in B : \A k \in B : n <= k
      BY Least
    <2>2. n # 0 /\ n - 1 \in Nat /\ n - 1 \notin B
      BY <1>1, <2>1
    <2> QED
      BY <1>2, <2>1, <2>2
  <1>4. PICK g : UpTo(g, Cardinality(S))
    BY <1>0, <1>3
  <1>5. \A s \in SUBSET S : Cardinality(s) <= Cardinality(S)
    BY FS_Subset
  <1>6. IsSum(g, f, S)
    BY <1>4, <1>5 DEF IsSum, Adds
  <1> QED
    BY <1>6

\* The sum of a part is the same whatever it is a part of.
LEMMA SumUnique ==
  ASSUME NEW S, IsFiniteSet(S), NEW f, NEW g, Adds(g, f, S),
         NEW T \in SUBSET S, NEW e, NEW h, Adds(h, e, T),
         \A x \in T : f[x] = e[x]
  PROVE  \A s \in SUBSET T : g[s] = h[s]
  <1> DEFINE B == {n \in Nat : \E s \in SUBSET T : Cardinality(s) = n /\ g[s] # h[s]}
  <1>1. B = {}
    <2> SUFFICES ASSUME B # {} PROVE FALSE
      OBVIOUS
    <2>1. PICK n \in B : \A k \in B : n <= k
      BY Least
    <2>2. PICK s \in SUBSET T : Cardinality(s) = n /\ g[s] # h[s]
      BY <2>1
    <2>3. s # {}
      BY <2>2 DEF Adds
    <2>4. /\ Pick(s) \in s /\ s \ {Pick(s)} \in SUBSET T
          /\ Cardinality(s \ {Pick(s)}) \in Nat /\ Cardinality(s \ {Pick(s)}) < n
      BY <2>2, <2>3, Picked, Smaller
    <2>5. g[s \ {Pick(s)}] = h[s \ {Pick(s)}]
      BY <2>1, <2>4
    <2>6. g[s] = f[Pick(s)] + g[s \ {Pick(s)}] /\ h[s] = e[Pick(s)] + h[s \ {Pick(s)}]
      BY <2>3 DEF Adds
    <2> QED
      BY <2>2, <2>4, <2>5, <2>6
  <1>2. \A s \in SUBSET T : Cardinality(s) \in Nat
    BY FS_Subset, FS_CardinalityType
  <1> QED
    BY <1>1, <1>2

\* Any element may be taken first.
LEMMA SumAnyOrder ==
  ASSUME NEW S, IsFiniteSet(S), NEW f, \A x \in S : f[x] \in Int, NEW g, IsSum(g, f, S)
  PROVE  \A s \in SUBSET S : \A x \in s : g[s] = f[x] + g[s \ {x}]
  <1> DEFINE AnyFirst(s) == \A x \in s : g[s] = f[x] + g[s \ {x}]
  <1> DEFINE B == {n \in Nat : \E s \in SUBSET S : Cardinality(s) = n /\ ~AnyFirst(s)}
  <1>1. B = {}
    <2> SUFFICES ASSUME B # {} PROVE FALSE
      OBVIOUS
    <2>1. PICK n \in B : \A k \in B : n <= k
      BY Least
    <2>2. PICK s \in SUBSET S : Cardinality(s) = n /\ ~AnyFirst(s)
      BY <2>1
    <2>0. PICK x \in s : g[s] # f[x] + g[s \ {x}]
      BY <2>2
    <2> DEFINE p == Pick(s)
    <2>3. /\ p \in s /\ s \ {p} \in SUBSET S /\ s \ {x} \in SUBSET S
          /\ Cardinality(s \ {p}) \in Nat /\ Cardinality(s \ {p}) < n
          /\ Cardinality(s \ {x}) \in Nat /\ Cardinality(s \ {x}) < n
      BY <2>2, Picked, Smaller
    <2>4. AnyFirst(s \ {p}) /\ AnyFirst(s \ {x})
      BY <2>1, <2>3
    <2>5. g[s] = f[p] + g[s \ {p}]
      BY <2>2 DEF IsSum, Adds
    <2>6. x # p
      BY <2>0, <2>5
    <2>7. /\ g[s \ {p}] = f[x] + g[(s \ {p}) \ {x}]
          /\ g[s \ {x}] = f[p] + g[(s \ {x}) \ {p}]
      BY <2>3, <2>4, <2>6
    <2>8. (s \ {p}) \ {x} = (s \ {x}) \ {p} /\ (s \ {x}) \ {p} \in SUBSET S
      OBVIOUS
    <2>9. f[x] \in Int /\ f[p] \in Int /\ g[(s \ {x}) \ {p}] \in Int
      BY <2>3, <2>8 DEF IsSum, Adds
    <2>10. g[s] = f[x] + g[s \ {x}]
      <3> DEFINE rest == g[(s \ {x}) \ {p}]
      <3>1. g[(s \ {p}) \ {x}] = rest
        BY <2>8
      <3>2. g[s] = f[p] + (f[x] + rest) /\ g[s \ {x}] = f[p] + rest
        BY <2>5, <2>7, <3>1
      <3>3. f[x] \in Int /\ f[p] \in Int /\ rest \in Int
        BY <2>9
      <3> HIDE DEF p, rest
      <3> QED
        BY <3>2, <3>3
    <2> QED
      BY <2>0, <2>10
  <1>2. \A s \in SUBSET S : Cardinality(s) \in Nat
    BY FS_Subset, FS_CardinalityType
  <1> QED
    BY <1>1, <1>2
(***************************************************************************)
(* The recursive function behind MapThenSumSet is a sum in this sense.     *)
(***************************************************************************)
LEMMA SumIs ==
  ASSUME NEW S, IsFiniteSet(S), NEW f, NEW h, IsSum(h, f, S)
  PROVE  SumOf(f, S) = h[S]
  <1> DEFINE Folds(g) == g = [s \in SUBSET S |->
                               IF s = {} THEN 0 ELSE f[Pick(s)] + g[s \ {Pick(s)}]]
  <1>1. Folds(h)
    BY DEF IsSum, Adds
  <1> DEFINE it == CHOOSE g : Folds(g)
  <1>2. Folds(it)
    <2> HIDE DEF Folds
    <2> QED BY <1>1
  <1>3. SumOf(f, S) = it[S]
    BY DEF SumOf, MapThenSumSet, MapThenFoldSet, Pick
  <1> HIDE DEF it
  <1>4. Adds(it, f, S)
    BY <1>2 DEF Adds
  <1>5. Adds(h, f, S) /\ S \in SUBSET S
    BY DEF IsSum
  <1> QED
    BY <1>3, <1>4, <1>5, SumUnique

(***************************************************************************)
(* What the proofs below use of sums.                                      *)
(***************************************************************************)
LEMMA SumFacts ==
  ASSUME NEW S, IsFiniteSet(S), NEW f, \A x \in S : f[x] \in Int
  PROVE  /\ SumOf(f, S) \in Int
         /\ S = {} => SumOf(f, S) = 0
         /\ \A x \in S : SumOf(f, S) = f[x] + SumOf(f, S \ {x})
  <1>1. PICK g : IsSum(g, f, S)
    BY SumExists
  <1>2. SumOf(f, S) = g[S]
    BY <1>1, SumIs
  <1>3. g[S] \in Int /\ g[{}] = 0
    BY <1>1 DEF IsSum, Adds
  <1>4. ASSUME NEW x \in S
        PROVE  SumOf(f, S) = f[x] + SumOf(f, S \ {x})
    <2> DEFINE T == S \ {x}
    <2>1. IsFiniteSet(T) /\ T \in SUBSET S
      BY FS_Subset
    <2>2. PICK h : IsSum(h, f, T)
      BY <2>1, SumExists
    <2>3. Adds(g, f, S) /\ Adds(h, f, T)
      BY <1>1, <2>2 DEF IsSum
    <2>4. g[T] = h[T]
      BY <2>1, <2>3, SumUnique
    <2>5. SumOf(f, T) = h[T]
      BY <2>1, <2>2, SumIs
    <2>6. g[S] = f[x] + g[T]
      BY <1>1, SumAnyOrder
    <2> QED
      BY <1>2, <2>4, <2>5, <2>6
  <1> QED
    BY <1>2, <1>3, <1>4

\* A sum of naturals is a natural.
LEMMA SumNat ==
  ASSUME NEW S, IsFiniteSet(S), NEW f, \A x \in S : f[x] \in Nat
  PROVE  SumOf(f, S) \in Nat
  <1>1. \A x \in S : f[x] \in Int
    OBVIOUS
  <1>2. PICK g : IsSum(g, f, S)
    BY <1>1, SumExists
  <1> DEFINE B == {n \in Nat : \E s \in SUBSET S : Cardinality(s) = n /\ g[s] \notin Nat}
  <1>3. B = {}
    <2> SUFFICES ASSUME B # {} PROVE FALSE
      OBVIOUS
    <2>1. PICK n \in B : \A k \in B : n <= k
      BY Least
    <2>2. PICK s \in SUBSET S : Cardinality(s) = n /\ g[s] \notin Nat
      BY <2>1
    <2>0. g[{}] = 0
      BY <1>2 DEF IsSum, Adds
    <2>3. s # {}
      BY <2>0, <2>2
    <2>4. /\ Pick(s) \in s /\ s \ {Pick(s)} \in SUBSET S
          /\ Cardinality(s \ {Pick(s)}) \in Nat /\ Cardinality(s \ {Pick(s)}) < n
      BY <2>2, <2>3, Picked, Smaller
    <2>5. g[s \ {Pick(s)}] \in Nat /\ f[Pick(s)] \in Nat
      BY <2>1, <2>4
    <2>6. g[s] = f[Pick(s)] + g[s \ {Pick(s)}]
      BY <1>2, <2>3 DEF IsSum, Adds
    <2> QED
      BY <2>2, <2>5, <2>6
  <1>4. Cardinality(S) \in Nat
    BY FS_CardinalityType
  <1> QED
    BY <1>2, <1>3, <1>4, SumIs

LEMMA SumAgrees ==
  ASSUME NEW S, IsFiniteSet(S), NEW f, NEW e,
         \A x \in S : f[x] \in Int /\ f[x] = e[x]
  PROVE  SumOf(f, S) = SumOf(e, S)
  <1>1. PICK g : IsSum(g, f, S)
    BY SumExists
  <1>2. PICK h : IsSum(h, e, S)
    BY SumExists
  <1>3. Adds(g, f, S) /\ Adds(h, e, S) /\ S \in SUBSET S
    BY <1>1, <1>2 DEF IsSum
  <1>4. g[S] = h[S]
    BY <1>3, SumUnique
  <1> QED
    BY <1>1, <1>2, <1>4, SumIs

(***************************************************************************)
(* Payments                                                                *)
(***************************************************************************)
PaymentSum(T, ids) == MapThenSumSet(LAMBDA id : T[id].payment, ids)

\* The payments of a set of trades, as a function to be added up.
LEMMA PaymentSumIs ==
  ASSUME NEW T, NEW S, IsFiniteSet(S), \A id \in S : T[id].payment \in Int
  PROVE  PaymentSum(T, S) = SumOf([id \in S |-> T[id].payment], S)
  <1> DEFINE f == [id \in S |-> T[id].payment]
  <1> DEFINE Folds(g) == g = [s \in SUBSET S |->
                               IF s = {} THEN 0 ELSE T[Pick(s)].payment + g[s \ {Pick(s)}]]
  <1>1. PICK h : IsSum(h, f, S)
    BY SumExists
  <1>2. \A s \in SUBSET S : s # {} => f[Pick(s)] = T[Pick(s)].payment
    BY Picked
  <1>3. Folds(h)
    <2> HIDE DEF f
    <2> QED BY <1>1, <1>2 DEF IsSum, Adds
  <1> DEFINE it == CHOOSE g : Folds(g)
  <1>4. Folds(it)
    <2> HIDE DEF Folds
    <2> QED BY <1>3
  <1>5. PaymentSum(T, S) = it[S]
    BY DEF PaymentSum, MapThenSumSet, MapThenFoldSet, Pick
  <1> HIDE DEF it, f
  <1>6. Adds(it, f, S)
    BY <1>2, <1>4 DEF Adds
  <1>7. Adds(h, f, S) /\ S \in SUBSET S
    BY <1>1 DEF IsSum
  <1>8. it[S] = h[S]
    BY <1>6, <1>7, SumUnique
  <1>9. SumOf(f, S) = h[S]
    BY <1>1, SumIs
  <1> QED
    BY <1>5, <1>8, <1>9 DEF f

\* Payments of some trades, in a state where each of them has one.
Paid(T, ids) == ids \subseteq TradeIds /\ \A id \in ids : T[id].payment \in Nat

LEMMA PaymentSums ==
  ASSUME NEW T, NEW S, Paid(T, S)
  PROVE  /\ PaymentSum(T, S) \in Int
         /\ S = {} => PaymentSum(T, S) = 0
         /\ \A id \in S : PaymentSum(T, S) = T[id].payment + PaymentSum(T, S \ {id})
         /\ \A U : (\A id \in S : U[id].payment = T[id].payment)
                     => PaymentSum(U, S) = PaymentSum(T, S)
  <1>1. IsFiniteSet(S) /\ \A id \in S : T[id].payment \in Int
    <2>1. IsFiniteSet(TradeIds)
      BY MarketConstants, FS_Interval DEF TradeIds
    <2> QED
      BY <2>1, FS_Subset DEF Paid
  <1> DEFINE f == [id \in S |-> T[id].payment]
  <1>2. PaymentSum(T, S) = SumOf(f, S)
    BY <1>1, PaymentSumIs
  <1>3. \A id \in S : f[id] = T[id].payment /\ f[id] \in Int
    BY <1>1
  <1>4. ASSUME NEW id \in S
        PROVE  PaymentSum(T, S \ {id}) = SumOf(f, S \ {id})
    <2> DEFINE R == S \ {id}
               e == [i \in R |-> T[i].payment]
    <2>1. IsFiniteSet(R) /\ \A i \in R : T[i].payment \in Int
      BY <1>1, FS_Subset
    <2>2. PaymentSum(T, R) = SumOf(e, R)
      BY <2>1, PaymentSumIs
    <2>3. \A i \in R : e[i] \in Int /\ e[i] = f[i]
      BY <2>1
    <2> QED
      <3> HIDE DEF e, f
      <3> QED BY <2>1, <2>2, <2>3, SumAgrees
  <1>5. ASSUME NEW U, \A id \in S : U[id].payment = T[id].payment
        PROVE  PaymentSum(U, S) = PaymentSum(T, S)
    <2> DEFINE e == [id \in S |-> U[id].payment]
    <2>1. PaymentSum(U, S) = SumOf(e, S)
      BY <1>1, <1>5, PaymentSumIs
    <2>2. \A id \in S : e[id] \in Int /\ e[id] = f[id]
      BY <1>1, <1>5
    <2> QED
      <3> HIDE DEF e, f
      <3> QED BY <1>1, <1>2, <2>1, <2>2, SumAgrees
  <1> HIDE DEF f
  <1>6. /\ SumOf(f, S) \in Int
        /\ S = {} => SumOf(f, S) = 0
        /\ \A id \in S : SumOf(f, S) = f[id] + SumOf(f, S \ {id})
    BY <1>1, <1>3, SumFacts
  <1>7. \A id \in S : PaymentSum(T, S) = T[id].payment + PaymentSum(T, S \ {id})
    BY <1>2, <1>3, <1>4, <1>6
  <1> QED
    BY <1>2, <1>5, <1>6, <1>7

\* How the payments of a set of trades change when one trade joins or leaves it.
LEMMA PaymentsMove ==
  ASSUME NEW T, NEW U, NEW old, NEW new, Paid(T, old), Paid(U, new),
         \A id \in old \cap new : U[id].payment = T[id].payment
  PROVE  /\ PaymentSum(T, old) \in Int /\ PaymentSum(U, new) \in Int
         /\ new = old => PaymentSum(U, new) = PaymentSum(T, old)
         /\ \A id \in new : new \ {id} = old
              => PaymentSum(U, new) = PaymentSum(T, old) + U[id].payment
         /\ \A id \in old : new = old \ {id}
              => PaymentSum(U, new) = PaymentSum(T, old) - T[id].payment
  <1>1. PaymentSum(T, old) \in Int /\ PaymentSum(U, new) \in Int
    BY PaymentSums
  <1>2. ASSUME new = old PROVE PaymentSum(U, new) = PaymentSum(T, old)
    BY <1>2, PaymentSums
  <1>3. ASSUME NEW id \in new, new \ {id} = old
        PROVE  PaymentSum(U, new) = PaymentSum(T, old) + U[id].payment
    <2>1. PaymentSum(U, new) = U[id].payment + PaymentSum(U, old)
      BY <1>3, PaymentSums
    <2>2. PaymentSum(U, old) = PaymentSum(T, old)
      BY <1>3, PaymentSums
    <2> QED
      BY <1>1, <2>1, <2>2 DEF Paid
  <1>4. ASSUME NEW id \in old, new = old \ {id}
        PROVE  PaymentSum(U, new) = PaymentSum(T, old) - T[id].payment
    <2>1. PaymentSum(T, old) = T[id].payment + PaymentSum(T, new)
      BY <1>4, PaymentSums
    <2>2. Paid(T, new)
      BY <1>4 DEF Paid
    <2>3. PaymentSum(U, new) = PaymentSum(T, new) /\ PaymentSum(T, new) \in Int
      BY <1>4, <2>2, PaymentSums
    <2>4. T[id].payment \in Nat
      BY DEF Paid
    <2> QED
      BY <2>1, <2>3, <2>4
  <1> QED
    BY <1>1, <1>2, <1>3, <1>4

(***************************************************************************)
(* The books: payments in escrow, and what an account earned and got back. *)
(***************************************************************************)
SoldBy(a)     == {id \in WithStatus({"Delivered"}) : trades[id].seller = a}
RefundedTo(a) == {id \in WithStatus({"Failed"}) : trades[id].buyer = a}

Escrowed    == PaymentSum(trades, WithStatus(OpenStatus))
Earned(a)   == PaymentSum(trades, SoldBy(a))
Refunded(a) == PaymentSum(trades, RefundedTo(a))

\* Trade `id` goes on as it was agreed, and no other trade changes.
OnlyTrade(id) ==
  /\ \A i \in TradeIds : i # id => trades'[i] = trades[i]
  /\ trades'[id].payment = trades[id].payment
  /\ trades'[id].seller = trades[id].seller /\ trades'[id].buyer = trades[id].buyer

LEMMA PaidTrades ==
  ASSUME TypeOK, NEW S, S \subseteq TradeIds, \A id \in S : IsFilled(id)
  PROVE  Paid(trades, S)
  <1>1. \A id \in S : trades[id] \in Trade
    BY FilledIsTrade DEF IsFilled
  <1> QED
    BY <1>1 DEF Paid, Trade

LEMMA PaymentSumNat ==
  ASSUME NEW T, NEW S, Paid(T, S)
  PROVE  PaymentSum(T, S) \in Nat
  <1>1. IsFiniteSet(S)
    <2>1. IsFiniteSet(TradeIds)
      BY MarketConstants, FS_Interval DEF TradeIds
    <2> QED
      BY <2>1, FS_Subset DEF Paid
  <1> DEFINE f == [id \in S |-> T[id].payment]
  <1>2. \A id \in S : f[id] \in Nat /\ T[id].payment \in Int
    BY DEF Paid
  <1>3. PaymentSum(T, S) = SumOf(f, S)
    BY <1>1, <1>2, PaymentSumIs
  <1> HIDE DEF f
  <1> QED
    BY <1>1, <1>2, <1>3, SumNat

LEMMA BookedTrades ==
  ASSUME TypeOK, NEW a
  PROVE  /\ Paid(trades, WithStatus(OpenStatus)) /\ Paid(trades, SoldBy(a))
         /\ Paid(trades, RefundedTo(a))
  BY PaidTrades DEF WithStatus, OpenStatus, SoldBy, RefundedTo, IsFilled

LEMMA BooksAreSums ==
  ASSUME TypeOK, NEW a
  PROVE  Escrowed \in Int /\ Earned(a) \in Int /\ Refunded(a) \in Int
  BY BookedTrades, PaymentSums DEF Escrowed, Earned, Refunded

LEMMA BooksKept ==
  ASSUME TypeOK, NEW a,
         \/ trades' = trades
         \/ \E id \in TradeIds : OnlyTrade(id) /\ IsOpen(id) /\ IsOpen(id)'
  PROVE  Escrowed' = Escrowed /\ Earned(a)' = Earned(a) /\ Refunded(a)' = Refunded(a)
  <1>1. /\ Paid(trades, WithStatus(OpenStatus)) /\ Paid(trades, SoldBy(a))
        /\ Paid(trades, RefundedTo(a))
    BY BookedTrades
  <1>2. \A id \in TradeIds : trades'[id].payment = trades[id].payment
    BY DEF OnlyTrade
  <1>3. /\ WithStatus(OpenStatus)' = WithStatus(OpenStatus)
        /\ SoldBy(a)' = SoldBy(a) /\ RefundedTo(a)' = RefundedTo(a)
    BY DEF OnlyTrade, WithStatus, SoldBy, RefundedTo, IsOpen, OpenStatus
  <1>4. ASSUME NEW S, Paid(trades, S) PROVE PaymentSum(trades', S) = PaymentSum(trades, S)
    BY <1>2, <1>4, PaymentSums DEF Paid
  <1> QED
    BY <1>1, <1>3, <1>4 DEF Escrowed, Earned, Refunded

\* A trade that is settled leaves the escrow for the seller's or the buyer's account.
LEMMA SettledBooks ==
  ASSUME TypeOK, NEW id \in TradeIds, OnlyTrade(id), IsOpen(id),
         NEW outcome \in {"Delivered", "Failed"}, trades'[id].status = outcome, NEW a
  PROVE  LET t == trades[id]
         IN /\ t.payment \in Nat
            /\ Escrowed' = Escrowed - t.payment
            /\ Earned(a)' = IF outcome = "Delivered" /\ t.seller = a
                            THEN Earned(a) + t.payment ELSE Earned(a)
            /\ Refunded(a)' = IF outcome = "Failed" /\ t.buyer = a
                              THEN Refunded(a) + t.payment ELSE Refunded(a)
  <1>1. /\ Paid(trades, WithStatus(OpenStatus)) /\ Paid(trades, SoldBy(a))
        /\ Paid(trades, RefundedTo(a)) /\ id \in WithStatus(OpenStatus)
    BY BookedTrades DEF WithStatus, IsOpen
  <1>2. \A i \in TradeIds : trades'[i].payment = trades[i].payment
    BY DEF OnlyTrade
  <1>3. trades[id].payment \in Nat
    BY <1>1 DEF Paid
  <1>4. trades[id].status \in OpenStatus
    BY DEF IsOpen
  <1>5. /\ WithStatus(OpenStatus)' = WithStatus(OpenStatus) \ {id}
        /\ SoldBy(a)' = IF outcome = "Delivered" /\ trades[id].seller = a
                        THEN SoldBy(a) \cup {id} ELSE SoldBy(a)
        /\ RefundedTo(a)' = IF outcome = "Failed" /\ trades[id].buyer = a
                            THEN RefundedTo(a) \cup {id} ELSE RefundedTo(a)
        /\ id \notin SoldBy(a) /\ id \notin RefundedTo(a)
    BY <1>4 DEF OnlyTrade, WithStatus, SoldBy, RefundedTo, OpenStatus
  <1>6. ASSUME NEW S, Paid(trades, S), id \notin S
        PROVE  /\ PaymentSum(trades', S) = PaymentSum(trades, S)
               /\ PaymentSum(trades', S \cup {id}) = PaymentSum(trades, S) + trades[id].payment
    <2>1. Paid(trades', S) /\ Paid(trades', S \cup {id}) /\ (S \cup {id}) \ {id} = S
      BY <1>2, <1>3, <1>6 DEF Paid
    <2> QED
      BY <1>2, <1>6, <2>1, PaymentsMove DEF Paid
  <1>7. Escrowed' = Escrowed - trades[id].payment
    <2>1. Paid(trades', WithStatus(OpenStatus) \ {id})
      BY <1>1, <1>2 DEF Paid
    <2> QED
      BY <1>1, <1>2, <1>5, <2>1, PaymentsMove DEF Escrowed, Paid
  <1> QED
    BY <1>1, <1>3, <1>5, <1>6, <1>7 DEF Earned, Refunded

\* A new trade is paid into the escrow.
LEMMA FilledBooks ==
  ASSUME TypeOK, SaleInv, NEW new \in TradeIds, ~IsFilled(new),
         \A i \in TradeIds : i # new => trades'[i] = trades[i],
         trades'[new].status = "RequestSubmitted", trades'[new].payment \in Nat, NEW a
  PROVE  /\ Escrowed' = Escrowed + trades'[new].payment
         /\ Earned(a)' = Earned(a) /\ Refunded(a)' = Refunded(a)
  <1>1. /\ Paid(trades, WithStatus(OpenStatus)) /\ Paid(trades, SoldBy(a))
        /\ Paid(trades, RefundedTo(a))
    BY BookedTrades
  <1>2. /\ new \notin WithStatus(OpenStatus) /\ new \notin SoldBy(a) /\ new \notin RefundedTo(a)
        /\ WithStatus(OpenStatus)' = WithStatus(OpenStatus) \cup {new}
        /\ SoldBy(a)' = SoldBy(a) /\ RefundedTo(a)' = RefundedTo(a)
    BY DEF WithStatus, SoldBy, RefundedTo, IsFilled, OpenStatus
  <1>3. ASSUME NEW S, Paid(trades, S), new \notin S
        PROVE  /\ PaymentSum(trades', S) = PaymentSum(trades, S)
               /\ PaymentSum(trades', S \cup {new}) = PaymentSum(trades, S) + trades'[new].payment
    <2>1. /\ \A i \in S : trades'[i].payment = trades[i].payment
          /\ Paid(trades', S) /\ Paid(trades', S \cup {new}) /\ (S \cup {new}) \ {new} = S
      BY <1>3 DEF Paid
    <2> QED
      BY <1>3, <2>1, PaymentsMove
  <1> QED
    BY <1>1, <1>2, <1>3 DEF Escrowed, Earned, Refunded

(***************************************************************************)
(* Settlements pay out of the escrow what they book.                       *)
(***************************************************************************)
LEMMA SettleBooks ==
  ASSUME TypeOK, SettleNext, NEW a \in Accounts
  PROVE  /\ weth'[Market] - Escrowed' = weth[Market] - Escrowed
         /\ weth'[a] - Earned(a)' - Refunded(a)' = weth[a] - Earned(a) - Refunded(a)
         /\ weth'[Market] \in Int /\ Escrowed' \in Int
         /\ weth'[a] \in Int /\ Earned(a)' \in Int /\ Refunded(a)' \in Int
  <1>1. PICK id \in TradeIds :
          /\ IsOpen(id) /\ trades[id] \in Trade
          /\ \/ \E state \in roots : ProveAccepted(id, state)
             \/ \E state \in roots :
                  ProveDelivered(id, state) /\ Close(id, "Delivered", trades[id].seller)
             \/ Close(id, "Failed", trades[id].buyer)
    BY SettleSteps
  <1> DEFINE t == trades[id]
             Moved == /\ weth'[Market] - Escrowed' = weth[Market] - Escrowed
                      /\ weth'[a] - Earned(a)' - Refunded(a)' = weth[a] - Earned(a) - Refunded(a)
                      /\ weth'[Market] \in Int /\ Escrowed' \in Int
                      /\ weth'[a] \in Int /\ Earned(a)' \in Int /\ Refunded(a)' \in Int
  <1>2. /\ weth[Market] \in Int /\ weth[a] \in Int /\ t.payment \in Int
        /\ t.seller \in Accounts /\ t.buyer \in Accounts /\ a # Market
    BY <1>1, MarketConstants DEF TypeOK, Holders, Trade
  <1>3. Escrowed \in Int /\ Earned(a) \in Int /\ Refunded(a) \in Int
    BY BooksAreSums
  <1>4. CASE \E state \in roots : ProveAccepted(id, state)
    <2>1. PICK epoch : /\ trades' = [trades EXCEPT ![id].withdrawableEpoch = epoch,
                                                   ![id].status = "Accepted"]
                       /\ weth' = weth
      BY <1>4 DEF ProveAccepted
    <2>2. OnlyTrade(id) /\ IsOpen(id)'
      BY <1>1, <2>1 DEF TypeOK, Trade, OnlyTrade, IsOpen, OpenStatus
    <2>3. Escrowed' = Escrowed /\ Earned(a)' = Earned(a) /\ Refunded(a)' = Refunded(a)
      BY <1>1, <2>2, BooksKept
    <2> QED
      BY <1>2, <1>3, <2>1, <2>3
  <1>5. ASSUME NEW outcome \in {"Delivered", "Failed"}, NEW payee \in Accounts,
               Close(id, outcome, payee), payee = IF outcome = "Delivered" THEN t.seller ELSE t.buyer
        PROVE  Moved
    <2>1. /\ trades' = [trades EXCEPT ![id].status = outcome]
          /\ weth' = [weth EXCEPT ![Market] = @ - t.payment, ![payee] = @ + t.payment]
      BY <1>5 DEF Close
    <2>2. OnlyTrade(id) /\ trades'[id].status = outcome
      BY <1>1, <2>1 DEF TypeOK, Trade, OnlyTrade
    <2>3. /\ Escrowed' = Escrowed - t.payment
          /\ Earned(a)' = IF outcome = "Delivered" /\ t.seller = a
                          THEN Earned(a) + t.payment ELSE Earned(a)
          /\ Refunded(a)' = IF outcome = "Failed" /\ t.buyer = a
                            THEN Refunded(a) + t.payment ELSE Refunded(a)
      BY <1>1, <2>2, SettledBooks
    <2>4. /\ weth'[Market] = weth[Market] - t.payment
          /\ weth'[a] = IF a = payee THEN weth[a] + t.payment ELSE weth[a]
      BY <1>2, <2>1, MarketConstants DEF TypeOK, Holders
    <2>5. \/ outcome = "Delivered" /\ payee = t.seller
          \/ outcome = "Failed" /\ payee = t.buyer
      BY <1>5
    <2> HIDE DEF t
    <2> QED
      BY <1>2, <1>3, <2>3, <2>4, <2>5
  <1> QED
    BY <1>1, <1>2, <1>4, <1>5

\* A fill, by whichever way, pays its price into the escrow.
FillPayment == trades'[nextTradeId].payment

LEMMA FillBooks ==
  ASSUME TypeOK, SaleInv, AnyFill, NEW a
  PROVE  /\ FillPayment \in Nat /\ Escrowed' = Escrowed + FillPayment
         /\ Earned(a)' = Earned(a) /\ Refunded(a)' = Refunded(a)
         /\ \/ weth' = [weth EXCEPT ![Market] = @ + FillPayment]
            \/ \E payer \in Accounts :
                 weth' = [weth EXCEPT ![payer] = @ - FillPayment, ![Market] = @ + FillPayment]
  <1>1. PICK o \in Orders, target \in Validators, state \in roots, buyer \in Accounts :
          \E payment :
            /\ FillFor(o, target, state, buyer, payment)
            /\ \/ weth' = [weth EXCEPT ![Market] = @ + payment]
               \/ \E payer \in Accounts :
                    weth' = [weth EXCEPT ![payer] = @ - payment, ![Market] = @ + payment]
    BY DEF AnyFill
  <1>2. PICK payment :
          /\ FillFor(o, target, state, buyer, payment)
          /\ \/ weth' = [weth EXCEPT ![Market] = @ + payment]
             \/ \E payer \in Accounts :
                  weth' = [weth EXCEPT ![payer] = @ - payment, ![Market] = @ + payment]
    BY <1>1
  <1>3. /\ nextTradeId \in TradeIds /\ nextTradeId \in Nat
        /\ \A id \in TradeIds : id # nextTradeId => trades'[id] = trades[id]
        /\ trades'[nextTradeId].status = "RequestSubmitted"
    BY <1>2, FillFacts
  <1>4. ~IsFilled(nextTradeId)
    BY <1>3 DEF SaleInv, FreshIds
  <1>5. payment \in Nat /\ FillPayment = payment
    <2>1. payment \in Nat
      BY <1>2, FillType
    <2> QED
      BY <1>2, <1>3, <2>1 DEF FillFor, OpenTrade, TypeOK, FillPayment
  <1>6. trades'[nextTradeId].payment \in Nat /\ trades'[nextTradeId].payment = FillPayment
    BY <1>5 DEF FillPayment
  <1>7. /\ Escrowed' = Escrowed + FillPayment
        /\ Earned(a)' = Earned(a) /\ Refunded(a)' = Refunded(a)
    BY <1>3, <1>4, <1>6, FilledBooks
  <1> QED
    BY <1>2, <1>5, <1>7

\* Nothing else moves WETH or changes a trade.
LEMMA QuietSteps ==
  ASSUME AnyOffer \/ AnyAttest \/ BeaconNext \/ UNCHANGED vars
  PROVE  trades' = trades /\ weth' = weth
  BY DEF AnyOffer, ListOrder, ListOrderWithPolicy, CancelOrder, UseNonce,
     SetDelegation, AnyAttest, Attest, BeaconNext, tradeVars, vars

BacksTrades == weth[Market] = Escrowed

LEMMA BacksTradesStep ==
  TypeOK /\ SaleInv /\ BacksTrades /\ [MarketNext]_vars => BacksTrades'
  <1> SUFFICES ASSUME TypeOK, SaleInv, BacksTrades, [MarketNext]_vars PROVE BacksTrades'
    OBVIOUS
  <1> weth[Market] \in Int /\ Escrowed \in Int
    BY BooksAreSums DEF TypeOK, Holders
  <1>1. CASE AnyFill
    <2>1. FillPayment \in Nat /\ Escrowed' = Escrowed + FillPayment
      BY <1>1, FillBooks
    <2>2. weth'[Market] = weth[Market] + FillPayment
      <3>1. \/ weth' = [weth EXCEPT ![Market] = @ + FillPayment]
            \/ \E payer \in Accounts :
                 weth' = [weth EXCEPT ![payer] = @ - FillPayment, ![Market] = @ + FillPayment]
        BY <1>1, FillBooks
      <3> QED
        BY <2>1, <3>1, MarketConstants DEF TypeOK, Holders
    <2> QED
      BY <2>1, <2>2 DEF BacksTrades
  <1>2. CASE SettleNext
    <2>1. PICK id \in TradeIds : trades[id] \in Trade
      BY <1>2, SettleSteps
    <2>2. PICK a \in Accounts : TRUE
      BY <2>1 DEF Trade
    <2>3. /\ weth'[Market] - Escrowed' = weth[Market] - Escrowed
          /\ weth'[Market] \in Int /\ Escrowed' \in Int
      BY <1>2, <2>2, SettleBooks
    <2> QED
      BY <2>3 DEF BacksTrades
  <1>3. CASE AnyOffer \/ AnyAttest \/ BeaconNext \/ UNCHANGED vars
    <2>1. trades' = trades /\ weth' = weth
      BY <1>3, QuietSteps
    <2> QED
      BY <2>1, BooksKept DEF BacksTrades
  <1> QED
    BY <1>1, <1>2, <1>3 DEF MarketNext

LEMMA BacksTradesInit == Init => BacksTrades
  <1> SUFFICES ASSUME Init PROVE BacksTrades
    OBVIOUS
  <1>1. weth[Market] = 0 /\ WithStatus(OpenStatus) = {}
    BY DEF Init, Holders, WithStatus, OpenStatus, NoTrade
  <1>2. Paid(trades, {})
    BY DEF Paid
  <1>3. PaymentSum(trades, {}) = 0
    BY <1>2, PaymentSums
  <1> QED
    BY <1>1, <1>3 DEF BacksTrades, Escrowed

LEMMA BacksOpenTrades == BacksTrades => EscrowBacksOpenTrades
  BY DEF BacksTrades, Escrowed, EscrowBacksOpenTrades, PaymentsOf, PaymentSum

(***************************************************************************)
(* The market holds exactly the payments of its open trades: no path into  *)
(* a fill and no settlement pays in or out anything else.                  *)
(***************************************************************************)
THEOREM EscrowBacked == Spec => []EscrowBacksOpenTrades
  BY BacksTradesInit, BacksTradesStep, BacksOpenTrades, TypeCorrect, SettlementKept,
     NextIsMarketNext, PTL DEF Spec, SettlementInv

(***************************************************************************)
(* Who never pays for a fill                                               *)
(***************************************************************************)
PaidOutTo(a) == weth[a] = Funds[a] + Earned(a) + Refunded(a)

PayoutsBooked == \A a \in Accounts \ Payers : PaidOutTo(a)

LEMMA NothingBooked ==
  ASSUME Init, NEW a
  PROVE  Earned(a) = 0 /\ Refunded(a) = 0
  <1>1. SoldBy(a) = {} /\ RefundedTo(a) = {}
    BY DEF Init, WithStatus, SoldBy, RefundedTo, NoTrade
  <1>2. Paid(trades, {})
    BY DEF Paid
  <1>3. PaymentSum(trades, {}) = 0
    BY <1>2, PaymentSums
  <1> QED
    BY <1>1, <1>3 DEF Earned, Refunded

LEMMA PayoutsInit == Init => PayoutsBooked
  <1> SUFFICES ASSUME Init, NEW a \in Accounts PROVE PaidOutTo(a)
    BY DEF PayoutsBooked
  <1>1. weth[a] = Funds[a] /\ Funds[a] \in Int
    BY MarketConstants DEF Init, Holders
  <1> QED
    BY <1>1, NothingBooked DEF PaidOutTo

LEMMA PayoutsStep ==
  TypeOK /\ SaleInv /\ PayoutsBooked /\ [Next]_vars => PayoutsBooked'
  <1> SUFFICES ASSUME TypeOK, SaleInv, PayoutsBooked, [Next]_vars,
                      NEW a \in Accounts \ Payers
               PROVE  PaidOutTo(a)'
    BY DEF PayoutsBooked
  <1> /\ PaidOutTo(a) /\ Funds[a] \in Int /\ weth[a] \in Int /\ a # Market
      /\ Earned(a) \in Int /\ Refunded(a) \in Int
    BY MarketConstants, BooksAreSums DEF PayoutsBooked, TypeOK, Holders
  <1>1. CASE FillNext
    <2>1. AnyFill
      BY <1>1, FillIsAnyFill DEF FillNext
    <2>2. Earned(a)' = Earned(a) /\ Refunded(a)' = Refunded(a)
      BY <2>1, FillBooks
    <2>3. weth'[a] = weth[a]
      <3>1. PICK payment :
              \/ weth' = [weth EXCEPT ![Market] = @ + payment]
              \/ \E payer \in Payers :
                   weth' = [weth EXCEPT ![payer] = @ - payment, ![Market] = @ + payment]
        BY <1>1 DEF FillNext, Fill, FillWithEth
      <3> QED
        BY <3>1 DEF TypeOK, Holders
    <2> QED
      BY <2>2, <2>3 DEF PaidOutTo
  <1>2. CASE SettleNext
    <2>1. /\ weth'[a] - Earned(a)' - Refunded(a)' = weth[a] - Earned(a) - Refunded(a)
          /\ weth'[a] \in Int /\ Earned(a)' \in Int /\ Refunded(a)' \in Int
      BY <1>2, SettleBooks
    <2> QED
      BY <2>1 DEF PaidOutTo
  <1>3. CASE SellerNext \/ AttestNext \/ BeaconNext \/ UNCHANGED vars
    <2>1. trades' = trades /\ weth' = weth
      BY <1>3 DEF SellerNext, ListOrder, ListOrderWithPolicy, CancelOrder, UseNonce,
         SetDelegation, AttestNext, Attest, BeaconNext, tradeVars, vars
    <2> QED
      BY <2>1, BooksKept DEF PaidOutTo
  <1> QED
    BY <1>1, <1>2, <1>3 DEF Next

LEMMA PayoutsAreBooked == PayoutsBooked => PayoutsMatchOutcomes
  BY DEF PayoutsBooked, PaidOutTo, PayoutsMatchOutcomes, Earned, Refunded, SoldBy, RefundedTo,
     PaymentsOf, PaymentSum

(***************************************************************************)
(* Everyone who pays for no fill is up by exactly what the outcomes gave:  *)
(* the price of each delivered sale and of each failed purchase.           *)
(***************************************************************************)
THEOREM PayoutsExact == Spec => []PayoutsMatchOutcomes
  BY PayoutsInit, PayoutsStep, PayoutsAreBooked, TypeCorrect, SettlementKept, PTL
     DEF Spec, SettlementInv

-----------------------------------------------------------------------------
(***************************************************************************)
(* What a trade once was                                                   *)
(***************************************************************************)
\* The terms of a trade stay, and its status only moves on.
TradeKept(id) ==
  LET t == trades[id]
      n == trades'[id]
  IN /\ n.status # "None"
     /\ n.sourceIndex = t.sourceIndex /\ n.targetIndex = t.targetIndex
     /\ n.buyer = t.buyer /\ n.payment = t.payment /\ n.filledAt = t.filledAt
     /\ t.status # "RequestSubmitted" => n.status # "RequestSubmitted"
     /\ t.status = "Delivered" => n.status = "Delivered"

PastKept ==
  now' >= now /\ nextTradeId' >= nextTradeId /\ \A id \in TradeIds : IsFilled(id) => TradeKept(id)

LEMMA QuietKeepsPast ==
  ASSUME TypeOK, trades' = trades, nextTradeId' = nextTradeId, now' = now
  PROVE  PastKept
  <1>1. now \in Int /\ nextTradeId \in Int
    BY BeaconConstants, MarketConstants DEF TypeOK, BeaconTypeOK
  <1> QED
    BY <1>1 DEF PastKept, TradeKept, IsFilled

LEMMA FillKeepsPast ==
  ASSUME TypeOK, SaleInv, AnyFill
  PROVE  PastKept
  <1>1. PICK o \in Orders, target \in Validators, state \in roots, buyer \in Accounts :
          \E payment : FillFor(o, target, state, buyer, payment)
    BY DEF AnyFill
  <1>2. PICK payment : FillFor(o, target, state, buyer, payment)
    BY <1>1
  <1>3. /\ nextTradeId \in TradeIds /\ nextTradeId \in Nat /\ nextTradeId' = nextTradeId + 1
        /\ \A id \in TradeIds : id # nextTradeId => trades'[id] = trades[id]
        /\ now' = now
    BY <1>2, FillFacts
  <1>4. ~IsFilled(nextTradeId)
    BY <1>3 DEF SaleInv, FreshIds
  <1>5. now \in Int
    BY BeaconConstants DEF TypeOK, BeaconTypeOK
  <1>6. \A id \in TradeIds : IsFilled(id) => trades'[id] = trades[id]
    BY <1>3, <1>4
  <1> QED
    BY <1>3, <1>5, <1>6 DEF PastKept, TradeKept, IsFilled

LEMMA SettleKeepsPast ==
  ASSUME TypeOK, SettleNext
  PROVE  PastKept
  <1>1. PICK id \in TradeIds :
          /\ IsOpen(id) /\ trades[id] \in Trade
          /\ \/ \E state \in roots : ProveAccepted(id, state)
             \/ \E outcome \in {"Delivered", "Failed"} : \E payee : Close(id, outcome, payee)
    BY SettleSteps
  <1>2. /\ \A i \in TradeIds : i # id => trades'[i] = trades[i]
        /\ trades'[id].sourceIndex = trades[id].sourceIndex
        /\ trades'[id].targetIndex = trades[id].targetIndex
        /\ trades'[id].buyer = trades[id].buyer
        /\ trades'[id].payment = trades[id].payment
        /\ trades'[id].filledAt = trades[id].filledAt
        /\ trades'[id].status \in {"Accepted", "Delivered", "Failed"}
        /\ now' = now /\ nextTradeId' = nextTradeId
    <2>1. CASE \E state \in roots : ProveAccepted(id, state)
      <3>1. PICK epoch : trades' = [trades EXCEPT ![id].withdrawableEpoch = epoch,
                                                   ![id].status = "Accepted"]
        BY <2>1 DEF ProveAccepted
      <3> QED
        BY <1>1, <2>1, <3>1 DEF TypeOK, Trade, ProveAccepted, beaconVars
    <2>2. CASE \E outcome \in {"Delivered", "Failed"} : \E payee : Close(id, outcome, payee)
      BY <1>1, <2>2 DEF Close, TypeOK, Trade, beaconVars
    <2> QED
      BY <1>1, <2>1, <2>2
  <1>3. trades[id].status # "Delivered"
    BY <1>1 DEF IsOpen, OpenStatus
  <1>4. now \in Int /\ nextTradeId \in Int
    BY BeaconConstants, MarketConstants DEF TypeOK, BeaconTypeOK
  <1> QED
    BY <1>2, <1>3, <1>4 DEF PastKept, TradeKept, IsFilled

LEMMA BeaconKeepsPast ==
  ASSUME TypeOK, BeaconNext
  PROVE  PastKept
  <1>1. trades' = trades /\ nextTradeId' = nextTradeId /\ BeaconTypeOK
    BY DEF BeaconNext, tradeVars, TypeOK
  <1>2. now' >= now
    <2>0. now \in Int
      BY BeaconConstants DEF BeaconTypeOK, TypeOK
    <2>1. CASE NewBlock
      <3>1. PICK gap \in 1..MaxGap : now' = now + gap
        BY <2>1 DEF NewBlock, BlockStep
      <3> QED
        BY <2>0, <3>1, BeaconConstants
    <2>2. CASE now' = now
      BY <2>0, <2>2
    <2>3. now' = now \/ NewBlock
      BY DEF BeaconNext, OwnRequest, Exit, Slash, Sweep
    <2> QED
      BY <2>1, <2>2, <2>3
  <1>3. nextTradeId \in Int
    BY MarketConstants DEF TypeOK
  <1> QED
    BY <1>1, <1>2, <1>3 DEF PastKept, TradeKept, IsFilled

LEMMA MarketKeepsPast ==
  ASSUME TypeOK, SaleInv, [MarketNext]_vars
  PROVE  PastKept
  <1>1. CASE AnyOffer \/ AnyAttest \/ UNCHANGED vars
    BY <1>1, QuietKeepsPast DEF AnyOffer, ListOrder, ListOrderWithPolicy, CancelOrder, UseNonce,
       SetDelegation, AnyAttest, Attest, tradeVars, beaconVars, vars
  <1> QED
    BY <1>1, FillKeepsPast, SettleKeepsPast, BeaconKeepsPast DEF MarketNext

\* The newest provable state is that of the current block's parent.
HeadInRing == \E s \in roots : s.ts = now

LEMMA HeadInit == Init => HeadInRing
  BY DEF Init, BeaconInit, SnapshotAt, HeadInRing

LEMMA HeadKept ==
  ASSUME HeadInRing, [MarketNext]_vars
  PROVE  HeadInRing'
  <1>1. CASE UNCHANGED <<now, roots>>
    BY <1>1 DEF HeadInRing
  <1>2. CASE AnyOffer \/ AnyAttest \/ UNCHANGED vars
    BY <1>1, <1>2 DEF AnyOffer, ListOrder, ListOrderWithPolicy, CancelOrder, UseNonce,
       SetDelegation, AnyAttest, Attest, beaconVars, vars
  <1>3. CASE AnyFill
    BY <1>1, <1>3 DEF AnyFill, FillFor, RequestConsolidation
  <1>4. CASE SettleNext
    BY <1>1, <1>4 DEF SettleNext, ProveAccepted, ProveDelivered, ProveNotAccepted, ProveFailed,
       RefundExpired, Fail, Close, beaconVars
  <1>5. CASE NewBlock
    <2>1. PICK gap \in 1..MaxGap, A \in AcceptChoices : \E f \in InOrder(A) :
            \E n \in 0..Len(QueueAfter(f)) : BlockStep(gap, A, f, n)
      BY <1>5 DEF NewBlock
    <2>2. PICK f \in InOrder(A) : /\ now' = now + gap
                                 /\ roots' = RingAfter(now + gap, A, f)
      BY <2>1 DEF BlockStep
    <2> DEFINE new == SnapshotAt(now + gap, now, PostState(A), QueueAfter(f))
    <2>3. new \in roots' /\ new.ts = now'
      BY <2>2 DEF RingAfter, SnapshotAt
    <2> QED
      BY <2>3 DEF HeadInRing
  <1>6. CASE BeaconNext
    BY <1>1, <1>5, <1>6 DEF BeaconNext, OwnRequest, Exit, Slash, Sweep
  <1> QED
    BY <1>1, <1>2, <1>3, <1>4, <1>6 DEF MarketNext

\* The market holds what an open trade was paid with.
LEMMA EscrowCovers ==
  ASSUME TypeOK, BacksTrades, NEW id \in TradeIds, IsOpen(id)
  PROVE  weth[Market] >= trades[id].payment
  <1>1. /\ Paid(trades, WithStatus(OpenStatus)) /\ id \in WithStatus(OpenStatus)
    BY BookedTrades DEF WithStatus, IsOpen
  <1> DEFINE rest == WithStatus(OpenStatus) \ {id}
  <1>2. Paid(trades, rest) /\ trades[id].payment \in Nat
    BY <1>1 DEF Paid
  <1>3. PaymentSum(trades, rest) \in Nat
    BY <1>2, PaymentSumNat
  <1>4. weth[Market] = PaymentSum(trades, WithStatus(OpenStatus))
    BY DEF BacksTrades, Escrowed, PaymentSum
  <1>5. weth[Market] = trades[id].payment + PaymentSum(trades, rest)
    BY <1>1, <1>4, PaymentSums
  <1> QED
    BY <1>2, <1>3, <1>5
=============================================================================
