--------------------------- MODULE RelayerProofs ---------------------------
(***************************************************************************)
(* Proofs about the relayer (Relayer.tla).  However its ticks, its         *)
(* transactions and its faults interleave with the blocks and with         *)
(* everybody else's settlements, it comes back to an accepted request      *)
(* before the window of the trade has closed and before the pair has left  *)
(* the queue of pending consolidations, so it never refunds it and never   *)
(* passes over a proof of it.                                              *)
(***************************************************************************)
EXTENDS Relayer, StakeMarketProofs

(***************************************************************************)
(* How long the ring shows an accepted pair                                *)
(***************************************************************************)
Queued(v) == \E i \in 1..Len(pending) : pending[i] = AcceptedPair(v)

\* An accepted pair is pending until its source is withdrawable, the newest root
\* shows it until then, and a root from before the exit is an exit delay older.
PairTimely(v) ==
  LET due == validators[v].withdrawable
  IN /\ Queued(v) \/ due <= EpochOf(now)
     /\ \A s \in roots :
          /\ s.ts = now => AcceptedPair(v) \in s.pend \/ SlotsPerEpoch * due < now
          /\ ~IsExiting(s.val[v]) => EpochOf(s.ts) + ExitDelay <= due

PairsTimely ==
  \A v \in Validators : IsAccepted(v) /\ ~validators[v].slashed => PairTimely(v)

LEMMA PairsInit == BeaconInit => PairsTimely
  BY DEF BeaconInit, NoAcceptance, PairsTimely, IsAccepted

\* An entry of the queue is still pending after the block, or it was ready.
LEMMA StaysOrReady ==
  ASSUME BeaconTypeOK, NEW gap \in 1..MaxGap, NEW A \in AcceptChoices, NEW f \in InOrder(A),
         NEW n \in 0..Len(QueueAfter(f)), BlockStep(gap, A, f, n),
         NEW i \in 1..Len(QueueAfter(f))
  PROVE  LET e == QueueAfter(f)[i]
         IN \/ \E k \in 1..Len(pending') : pending'[k] = e
            \/ validators'[e.src].slashed
            \/ validators'[e.src].withdrawable <= EpochOf(now')
  <1> DEFINE q == QueueAfter(f)
  <1>1. q \in Seq(Entry) /\ Len(q) \in Nat /\ n \in Nat /\ i \in Nat
    BY QueueEntries
  <1>2. pending' = SubSeq(q, n + 1, Len(q))
    BY DEF BlockStep
  <1>3. q[i] \in Entry /\ q[i].src \in Validators
    <2>1. q[i] \in Entry
      BY <1>1, ElementOfSeq
    <2> QED
      BY <2>1 DEF Entry
  <1>4. CASE i > n
    <2> HIDE DEF q
    <2>1. \A k \in (n + 1)..Len(q) : q[k] \in Entry
      BY <1>1, ElementOfSeq
    <2>2. n + 1 <= Len(q) /\ i - n \in 1..(Len(q) - n)
      BY <1>1, <1>4 DEF q
    <2>3. /\ Len(pending') = Len(q) - (n + 1) + 1
          /\ \A k \in 1..(Len(q) - (n + 1) + 1) : pending'[k] = q[(n + 1) + k - 1]
      BY <1>1, <1>2, <2>1, <2>2, SubSeqProperties
    <2>4. i - n \in 1..Len(pending') /\ pending'[i - n] = q[i]
      BY <1>1, <2>2, <2>3
    <2> QED
      BY <2>4 DEF q
  <1>5. CASE i <= n
    <2>1. n # 0 /\ i \in 1..n
      BY <1>1, <1>5
    <2>2. Consumes(n, q, PostState(A), EpochOf(now'))
      BY <2>1 DEF BlockStep
    <2>3. PostState(A)[q[i].src].slashed \/ PostState(A)[q[i].src].withdrawable <= EpochOf(now')
      BY <2>1, <2>2 DEF Consumes
    <2> QED
      BY <1>3, <2>3, BlockRegistry
  <1> QED
    BY <1>1, <1>4, <1>5

LEMMA ScaleUp ==
  ASSUME NEW w \in Nat, NEW a \in Nat, NEW b \in Nat, a <= b
  PROVE  w * a \in Nat /\ w * b \in Nat /\ w * a <= w * b
  OBVIOUS

LEMMA DueBySlot ==
  ASSUME NEW due \in Nat, NEW slot \in Nat, due <= EpochOf(slot)
  PROVE  SlotsPerEpoch * due \in Nat /\ SlotsPerEpoch * due <= slot
  <1>1. SlotsPerEpoch * EpochOf(slot) <= slot /\ SlotsPerEpoch \in Nat /\ EpochOf(slot) \in Nat
    BY EpochBounds, BeaconConstants
  <1> DEFINE w == SlotsPerEpoch
             e == EpochOf(slot)
  <1>2. w \in Nat /\ e \in Nat /\ due <= e /\ w * e <= slot
    BY <1>1
  <1> HIDE DEF w, e
  <1>3. w * due \in Nat /\ w * e \in Nat /\ w * due <= w * e
    BY <1>2, ScaleUp
  <1>4. w * due \in Nat /\ w * due <= slot
    BY <1>2, <1>3
  <1> QED
    BY <1>4 DEF w

\* The block's root commits to a queue that holds every pair accepted by now.
LEMMA QueuedOrLate ==
  ASSUME BeaconTypeOK, ConsensusInv, PairsTimely,
         NEW gap \in 1..MaxGap, NEW A \in AcceptChoices, NEW f \in InOrder(A),
         NEW n \in 0..Len(QueueAfter(f)), BlockStep(gap, A, f, n),
         NEW v \in Validators, IsAccepted(v)', ~validators'[v].slashed
  PROVE  LET q   == QueueAfter(f)
             due == validators'[v].withdrawable
         IN /\ IsExiting(validators'[v])
            /\ \/ \E i \in 1..Len(q) : q[i] = AcceptedPair(v)'
               \/ due <= EpochOf(now)
            /\ \A s \in roots : ~IsExiting(s.val[v]) => EpochOf(s.ts) + ExitDelay <= due
  <1> DEFINE q   == QueueAfter(f)
  <1>1. ConsensusInv'
    BY BlockKeepsConsensus
  <1>2. IsExiting(validators'[v])
    BY <1>1 DEF ConsensusInv, AcceptedExits, IsExiting
  <1>3. CASE accepted'[v] = accepted[v]
    <2>1. IsAccepted(v) /\ AcceptedPair(v)' = AcceptedPair(v)
      BY <1>3 DEF IsAccepted, AcceptedPair
    <2>2. IsExiting(validators[v])
      BY <2>1 DEF ConsensusInv, AcceptedExits
    <2>3. /\ validators'[v].withdrawable = validators[v].withdrawable
          /\ ~validators[v].slashed
      BY <2>2, BlockKeepsPast
    <2>4. PairTimely(v)
      BY <2>1, <2>3 DEF PairsTimely
    <2>5. (\E i \in 1..Len(pending) : pending[i] = AcceptedPair(v)) =>
            \E i \in 1..Len(q) : q[i] = AcceptedPair(v)
      BY QueueEntries
    <2> HIDE DEF q
    <2> QED
      BY <1>2, <2>1, <2>3, <2>4, <2>5 DEF PairTimely, Queued, q
  <1>4. CASE accepted'[v] # accepted[v]
    <2>1. accepted'[v] = AcceptedAfter(A)[v]
      BY DEF BlockStep
    <2>2. PICK a \in A : requestQueue[a].src = v
      BY <1>4, <2>1, TakenOrKept
    <2>3. AcceptedAfter(A)[requestQueue[a].src] =
            [tgt |-> requestQueue[a].tgt, id |-> requestQueue[a].id]
      BY TakenIsAcceptable
    <2>4. requestQueue[a].tgt = accepted'[v].tgt
      BY <2>1, <2>2, <2>3
    <2>5. \E i \in 1..Len(q) :
            q[i] = [src |-> requestQueue[a].src, tgt |-> requestQueue[a].tgt]
      BY QueueEntries
    <2>6. validators'[v].withdrawable = EpochOf(now) + ExitDelay
      BY <1>4, BlockKeepsPast
    <2>7. ASSUME NEW s \in roots
          PROVE  EpochOf(s.ts) + ExitDelay <= EpochOf(now) + ExitDelay
      <3>1. s.ts <= now /\ s.ts \in Nat /\ now \in Nat
        BY ClockBounds DEF ConsensusInv, RootsPast, RootPast, BeaconTypeOK, Snapshot
      <3>2. EpochOf(s.ts) <= EpochOf(now) /\ EpochOf(s.ts) \in Nat /\ EpochOf(now) \in Nat
        BY <3>1, EpochMonotone, EpochBounds
      <3> QED
        BY <3>2, BeaconConstants
    <2> QED
      BY <1>2, <2>2, <2>4, <2>5, <2>6, <2>7 DEF AcceptedPair
  <1> QED
    BY <1>3, <1>4

LEMMA BlockKeepsPairs ==
  ASSUME BeaconTypeOK, ConsensusInv, PairsTimely,
         NEW gap \in 1..MaxGap, NEW A \in AcceptChoices, NEW f \in InOrder(A),
         NEW n \in 0..Len(QueueAfter(f)), BlockStep(gap, A, f, n)
  PROVE  PairsTimely'
  <1> SUFFICES ASSUME NEW v \in Validators, IsAccepted(v)', ~validators'[v].slashed
               PROVE  PairTimely(v)'
    BY DEF PairsTimely
  <1> DEFINE q    == QueueAfter(f)
             due  == validators'[v].withdrawable
             pair == AcceptedPair(v)'
             new  == SnapshotAt(now', now, PostState(A), q)
  <1>1. /\ IsExiting(validators'[v])
        /\ (\E i \in 1..Len(q) : q[i] = pair) \/ due <= EpochOf(now)
        /\ \A s \in roots : ~IsExiting(s.val[v]) => EpochOf(s.ts) + ExitDelay <= due
    BY QueuedOrLate
  <1>2. /\ now \in Nat /\ now' \in Nat /\ now < now'
        /\ EpochOf(now) \in Nat /\ EpochOf(now') \in Nat /\ EpochOf(now) <= EpochOf(now')
        /\ due = PostState(A)[v].withdrawable /\ due \in Nat
    <2>1. PostState(A)[v] \in ValidatorState
      BY BlockRegistry
    <2> QED
      BY <2>1, BlockRegistry DEF ValidatorState
  <1>3. Queued(v)' \/ due <= EpochOf(now')
    <2>1. CASE due <= EpochOf(now)
      BY <1>2, <2>1
    <2>2. CASE \E i \in 1..Len(q) : q[i] = pair
      <3>1. PICK i \in 1..Len(q) : q[i] = pair
        BY <2>2
      <3>2. q[i].src = v
        BY <3>1 DEF AcceptedPair
      <3>3. (\E k \in 1..Len(pending') : pending'[k] = pair) \/ due <= EpochOf(now')
        BY <3>1, <3>2, StaysOrReady
      <3> QED
        BY <3>3 DEF Queued
    <2> QED
      BY <1>1, <2>1, <2>2
  <1>4. \A s \in roots' : s \in roots \/ s = new
    BY <1>2 DEF BlockStep, RingAfter
  <1>5. ASSUME NEW s \in roots
        PROVE  s.ts # now'
    BY <1>2 DEF ConsensusInv, RootsPast, RootPast, BeaconTypeOK, Snapshot
  <1>6. /\ new.ts = now' /\ new.val = PostState(A)
        /\ (\E i \in 1..Len(q) : q[i] = pair) => pair \in new.pend
    BY DEF SnapshotAt, EntriesOf
  <1>7. IsExiting(new.val[v])
    BY <1>1, <1>2, <1>6 DEF IsExiting
  <1>8. due <= EpochOf(now) => SlotsPerEpoch * due < now'
    BY <1>2, DueBySlot
  <1> HIDE DEF q, new, due, pair
  <1>9. \A s \in roots' :
           /\ s.ts = now' => pair \in s.pend \/ SlotsPerEpoch * due < now'
           /\ ~IsExiting(s.val[v]) => EpochOf(s.ts) + ExitDelay <= due
    BY <1>1, <1>4, <1>5, <1>6, <1>7, <1>8
  <1>10. (\A s \in roots :
           /\ s.ts = now => \/ AcceptedPair(v) \in s.pend
                            \/ SlotsPerEpoch * validators[v].withdrawable < now
           /\ ~IsExiting(s.val[v]) => EpochOf(s.ts) + ExitDelay <= validators[v].withdrawable)'
    BY <1>9 DEF due, pair
  <1> QED
    BY <1>3, <1>10 DEF PairTimely, due

LEMMA PairsStep ==
  ASSUME TypeOK, ConsensusInv, PairsTimely, [MarketNext]_vars
  PROVE  PairsTimely'
  <1>1. BeaconTypeOK
    BY DEF TypeOK
  <1>2. CASE UNCHANGED <<now, validators, pending, roots, accepted, movedTo>>
    BY <1>2 DEF PairsTimely, PairTimely, Queued, IsAccepted, AcceptedPair
  <1>3. CASE AnyFill
    BY <1>2, <1>3 DEF AnyFill, FillFor, RequestConsolidation
  <1>4. CASE BeaconNext
    <2>1. CASE OwnRequest
      BY <1>2, <2>1 DEF OwnRequest
    <2>2. CASE NewBlock
      BY <1>1, <2>2, BlockKeepsPairs DEF NewBlock
    <2>3. CASE RegistryMoves
      <3> SUFFICES ASSUME NEW v \in Validators, IsAccepted(v)', ~validators'[v].slashed
                   PROVE  PairTimely(v)'
        BY DEF PairsTimely
      <3>1. IsAccepted(v) /\ ~validators[v].slashed
        BY <2>3 DEF IsAccepted, RegistryMoves
      <3>2. IsExiting(validators[v]) /\ PairTimely(v)
        BY <3>1 DEF ConsensusInv, AcceptedExits, PairsTimely
      <3>3. validators'[v].withdrawable = validators[v].withdrawable
        BY <2>3, <3>2 DEF RegistryMoves
      <3> QED
        BY <2>3, <3>2, <3>3 DEF PairTimely, Queued, AcceptedPair, RegistryMoves
    <2> QED
      BY <1>1, <1>4, <2>1, <2>2, <2>3, BeaconSteps
  <1>5. CASE AnyOffer \/ AnyAttest \/ UNCHANGED vars
    BY <1>2, <1>5 DEF AnyOffer, ListOrder, ListOrderWithPolicy, CancelOrder, UseNonce,
       SetDelegation, AnyAttest, Attest, vars, beaconVars
  <1>6. CASE SettleNext
    BY <1>2, <1>6 DEF SettleNext, ProveAccepted, ProveDelivered, ProveNotAccepted, ProveFailed,
       RefundExpired, Fail, Close, beaconVars
  <1> QED
    BY <1>3, <1>4, <1>5, <1>6 DEF MarketNext

(***************************************************************************)
(* What the relayer reads of a trade                                       *)
(***************************************************************************)

\* The order's pubkey was that of its source, and acceptance is proven from a later block.
TradeFacts ==
  \A id \in TradeIds : IsFilled(id) =>
    /\ VerifySource(trades[id])
    /\ trades[id].status = "Accepted" => trades[id].filledAt < now

LEMMA QuietKeepsFacts ==
  ASSUME TypeOK, TradeFacts, trades' = trades, now' \in Nat, now <= now'
  PROVE  TradeFacts'
  <1> SUFFICES ASSUME NEW id \in TradeIds, IsFilled(id)
               PROVE  /\ VerifySource(trades[id])
                      /\ trades[id].status = "Accepted" => trades[id].filledAt < now'
    BY DEF TradeFacts, IsFilled, VerifySource
  <1>1. trades[id].filledAt \in Nat /\ now \in Nat
    BY FilledIsTrade, ClockBounds DEF Trade, TypeOK, IsFilled
  <1>2. CASE now' = now
    BY <1>2 DEF TradeFacts
  <1>3. trades[id].filledAt < now => trades[id].filledAt < now'
    BY <1>1
  <1> QED
    BY <1>3 DEF TradeFacts

LEMMA FillKeepsFacts ==
  ASSUME TypeOK, TradeFacts, AnyFill
  PROVE  TradeFacts'
  <1>1. PICK o \in Orders, target \in Validators, state \in roots, buyer \in Accounts :
          \E payment : FillFor(o, target, state, buyer, payment)
    BY DEF AnyFill
  <1>2. PICK payment : FillFor(o, target, state, buyer, payment)
    BY <1>1
  <1>3. /\ nextTradeId \in TradeIds /\ o.sourcePubkey = o.sourceIndex
        /\ \A id \in TradeIds : id # nextTradeId => trades'[id] = trades[id]
        /\ trades'[nextTradeId].sourceIndex = o.sourceIndex
        /\ trades'[nextTradeId].status = "RequestSubmitted" /\ now' = now
    BY <1>2, FillFacts
  <1>4. trades'[nextTradeId].sourcePubkey = o.sourcePubkey
    BY <1>2, <1>3 DEF FillFor, OpenTrade, TypeOK
  <1> QED
    BY <1>3, <1>4 DEF TradeFacts, IsFilled, VerifySource

LEMMA SettleKeepsFacts ==
  ASSUME TypeOK, RootsPast, TradeFacts, SettleNext
  PROVE  TradeFacts'
  <1>1. PICK id \in TradeIds :
          /\ IsOpen(id) /\ trades[id] \in Trade
          /\ \/ \E state \in roots : ProveAccepted(id, state)
             \/ \E outcome \in {"Delivered", "Failed"} : \E payee : Close(id, outcome, payee)
    BY SettleSteps
  <1>2. VerifySource(trades[id])
    BY <1>1, OpenIsFilled DEF TradeFacts
  <1>3. /\ \A i \in TradeIds : i # id => trades'[i] = trades[i]
        /\ VerifySource(trades'[id]) /\ now' = now
        /\ trades'[id].status = "Accepted" => trades'[id].filledAt < now
    <2>1. CASE \E state \in roots : ProveAccepted(id, state)
      <3>1. PICK state \in roots : ProveAccepted(id, state)
        BY <2>1
      <3>2. trades' = [trades EXCEPT
              ![id].withdrawableEpoch = state.val[trades[id].sourceIndex].withdrawable,
              ![id].status = "Accepted"]
        BY <3>1 DEF ProveAccepted
      <3>3. state.ts > trades[id].filledAt
        BY <3>1 DEF ProveAccepted, ShowsAcceptance, StateAfterFill
      <3>4. state.ts <= now /\ state.ts \in Nat /\ now \in Nat /\ trades[id].filledAt \in Nat
        BY <1>1, ClockBounds DEF RootsPast, RootPast, TypeOK, BeaconTypeOK, Snapshot, Trade
      <3>5. /\ \A i \in TradeIds : i # id => trades'[i] = trades[i]
            /\ trades'[id].sourceIndex = trades[id].sourceIndex
            /\ trades'[id].sourcePubkey = trades[id].sourcePubkey
            /\ trades'[id].filledAt = trades[id].filledAt
        BY <1>1, <3>2 DEF TypeOK, Trade
      <3>6. now' = now
        BY <3>1 DEF ProveAccepted, beaconVars
      <3> QED
        BY <1>2, <3>3, <3>4, <3>5, <3>6 DEF VerifySource
    <2>2. CASE \E outcome \in {"Delivered", "Failed"} : \E payee : Close(id, outcome, payee)
      <3>1. /\ \A i \in TradeIds : i # id => trades'[i] = trades[i]
            /\ trades'[id].sourceIndex = trades[id].sourceIndex
            /\ trades'[id].sourcePubkey = trades[id].sourcePubkey
            /\ trades'[id].status \in {"Delivered", "Failed"} /\ now' = now
        BY <1>1, <2>2 DEF Close, TypeOK, Trade, beaconVars
      <3> QED
        BY <1>2, <3>1 DEF VerifySource
    <2> QED
      BY <1>1, <2>1, <2>2
  <1> QED
    BY <1>2, <1>3, <1>1, OpenIsFilled DEF TradeFacts, IsFilled

LEMMA FactsStep ==
  ASSUME TypeOK, SaleInv, RootsPast, TradeFacts, [MarketNext]_vars
  PROVE  TradeFacts'
  <1>1. now <= now' /\ now' \in Nat
    <2>1. now' >= now /\ now \in Nat
      BY MarketKeepsPast, ClockBounds DEF PastKept, TypeOK
    <2>2. TypeOK'
      BY StepType
    <2>3. now' \in Nat
      BY <2>2, BeaconConstants DEF TypeOK, BeaconTypeOK
    <2> QED
      BY <2>1, <2>3
  <1>2. CASE trades' = trades
    BY <1>1, <1>2, QuietKeepsFacts
  <1>3. CASE AnyOffer \/ AnyAttest \/ UNCHANGED vars
    BY <1>2, <1>3 DEF AnyOffer, ListOrder, ListOrderWithPolicy, CancelOrder, UseNonce,
       SetDelegation, AnyAttest, Attest, tradeVars, vars
  <1>4. CASE BeaconNext
    BY <1>2, <1>4 DEF BeaconNext, tradeVars
  <1> QED
    BY <1>3, <1>4, FillKeepsFacts, SettleKeepsFacts DEF MarketNext

(***************************************************************************)
(* The chain, apart from the relayer                                       *)
(***************************************************************************)
ChainInv ==
  TypeOK /\ SettlementInv /\ BacksTrades /\ HeadInRing /\ PairsTimely /\ TradeFacts

LEMMA ChainInit == Init => ChainInv
  <1>1. Init => TradeFacts
    BY DEF Init, TradeFacts, IsFilled, NoTrade
  <1> QED
    BY <1>1, InitType, SettlementInit, BacksTradesInit, HeadInit, PairsInit DEF Init, ChainInv

LEMMA ChainStep == ChainInv /\ [MarketNext]_vars => ChainInv'
  <1> SUFFICES ASSUME ChainInv, [MarketNext]_vars PROVE ChainInv'
    OBVIOUS
  <1>1. TypeOK' /\ SettlementInv'
    BY StepType, SettlementStep DEF ChainInv
  <1>2. BacksTrades'
    BY BacksTradesStep DEF ChainInv, SettlementInv
  <1>3. HeadInRing' /\ PairsTimely' /\ TradeFacts'
    BY HeadKept, PairsStep, FactsStep DEF ChainInv, SettlementInv, ConsensusInv
  <1> QED
    BY <1>1, <1>2, <1>3 DEF ChainInv

LEMMA ChainClock ==
  ASSUME ChainInv, [MarketNext]_vars
  PROVE  /\ now \in Nat /\ now' \in Nat /\ now <= now' /\ PastKept
         /\ \A id \in TradeIds : IsFilled(id) =>
              /\ trades[id] \in Trade /\ trades[id].filledAt \in Nat
              /\ trades[id].filledAt <= now /\ trades[id].sourceIndex \in Validators
              /\ trades[id].targetIndex \in Validators
  <1>1. PastKept /\ now \in Nat
    BY MarketKeepsPast, ClockBounds DEF ChainInv, SettlementInv, TypeOK
  <1>2. TypeOK'
    BY StepType DEF ChainInv
  <1>3. now' \in Nat
    BY <1>2, BeaconConstants DEF TypeOK, BeaconTypeOK
  <1>4. ASSUME NEW id \in TradeIds, IsFilled(id)
        PROVE  /\ trades[id] \in Trade /\ trades[id].filledAt \in Nat
               /\ trades[id].filledAt <= now /\ trades[id].sourceIndex \in Validators
               /\ trades[id].targetIndex \in Validators
    <2>1. trades[id] \in Trade /\ trades[id].filledAt <= now
      BY <1>4, FilledIsTrade DEF ChainInv, SettlementInv, TermsInv, FilledInPast, IsFilled
    <2> QED
      BY <2>1 DEF Trade
  <1> QED
    BY <1>1, <1>3, <1>4 DEF PastKept

LEMMA ChainRoots ==
  ASSUME ChainInv
  PROVE  /\ now \in Nat
         /\ \A s \in roots : s \in Snapshot /\ s.ts \in Nat /\ s.ts <= now /\ RootPast(s)
  <1>1. now \in Nat /\ roots \subseteq Snapshot
    BY ClockBounds DEF ChainInv, TypeOK, BeaconTypeOK
  <1>2. \A s \in roots : RootPast(s)
    BY DEF ChainInv, SettlementInv, ConsensusInv, RootsPast
  <1> QED
    BY <1>1, <1>2 DEF RootPast, Snapshot

\* A root stays in the ring until the clock has gone around it.
LEMMA RootsStay ==
  ASSUME ChainInv, [MarketNext]_vars, NEW s \in roots, now' < s.ts + RootsKept
  PROVE  s \in roots'
  <1>1. CASE roots' = roots
    BY <1>1
  <1>2. CASE NewBlock
    <2>1. PICK gap \in 1..MaxGap, A \in AcceptChoices : \E f \in InOrder(A) :
            \E n \in 0..Len(QueueAfter(f)) : BlockStep(gap, A, f, n)
      BY <1>2 DEF NewBlock
    <2>2. PICK f \in InOrder(A) : now' = now + gap /\ roots' = RingAfter(now + gap, A, f)
      BY <2>1 DEF BlockStep
    <2>3. now \in Nat /\ s.ts \in Nat /\ s.ts <= now /\ gap \in Nat \ {0} /\ RootsKept \in Nat \ {0}
      BY ChainRoots, BeaconConstants
    <2>4. s.ts % RootsKept # (now + gap) % RootsKept
      <3> DEFINE next == now + gap
      <3>1. next \in Nat /\ s.ts < next /\ next < s.ts + RootsKept
        BY <2>2, <2>3
      <3> HIDE DEF next
      <3>2. s.ts % RootsKept # next % RootsKept
        BY <2>3, <3>1, RingSlotsDiffer
      <3> QED
        BY <3>2 DEF next
    <2> QED
      BY <2>2, <2>4 DEF RingAfter
  <1>3. CASE AnyOffer \/ AnyAttest \/ UNCHANGED vars
    BY <1>1, <1>3 DEF AnyOffer, ListOrder, ListOrderWithPolicy, CancelOrder, UseNonce,
       SetDelegation, AnyAttest, Attest, beaconVars, vars
  <1>4. CASE AnyFill
    BY <1>1, <1>4 DEF AnyFill, FillFor, RequestConsolidation
  <1>5. CASE SettleNext
    BY <1>1, <1>5 DEF SettleNext, ProveAccepted, ProveDelivered, ProveNotAccepted, ProveFailed,
       RefundExpired, Fail, Close, beaconVars
  <1>6. CASE BeaconNext
    BY <1>1, <1>2, <1>6 DEF BeaconNext, OwnRequest, Exit, Slash, Sweep
  <1> QED
    BY <1>3, <1>4, <1>5, <1>6 DEF MarketNext

(***************************************************************************)
(* A trade whose request was accepted and not yet proven                   *)
(***************************************************************************)
Waiting(id) ==
  LET t == trades[id]
  IN /\ t.status = "RequestSubmitted"
     /\ accepted[t.sourceIndex].tgt = t.targetIndex
     /\ ~validators[t.sourceIndex].slashed

\* The end of the epoch in which the pair moves, and the age of the fill's proof.
Due(id) ==
  SlotsPerEpoch * validators[trades[id].sourceIndex].withdrawable + SlotsPerEpoch + MaxProofAge

\* The trade waits on.
KeepsWaiting(id) ==
  /\ Waiting(id) /\ trades'[id].filledAt = trades[id].filledAt /\ Due(id)' = Due(id)
  /\ OwnRequestAccepted(id)' => OwnRequestAccepted(id)

\* It starts to wait: the pair leaves the queue an exit delay from now at the earliest.
StartsWaiting(id) ==
  /\ trades'[id].filledAt <= now
  /\ now + ExitDelay * SlotsPerEpoch < Due(id)'
  /\ OwnRequestAccepted(id)' => now <= trades'[id].filledAt + DequeueDelay

\* An epoch that an exit delay separates from the slot's.
LEMMA LateEpoch ==
  ASSUME NEW slot \in Nat, NEW due \in Nat, EpochOf(slot) + ExitDelay <= due
  PROVE  slot + ExitDelay * SlotsPerEpoch < SlotsPerEpoch * due + SlotsPerEpoch
  <1> DEFINE e == EpochOf(slot)
             w == SlotsPerEpoch
             d == ExitDelay
  <1>1. e \in Nat /\ w \in Nat /\ d \in Nat /\ slot < w * e + w /\ e + d <= due
    BY EpochBounds, BeaconConstants
  <1> HIDE DEF e, w, d
  <1>2. w * (e + d) = w * e + d * w
    BY <1>1
  <1>3. w * (e + d) <= w * due /\ w * due \in Nat
    BY <1>1, ScaleUp
  <1>4. w * e \in Nat /\ d * w \in Nat
    BY <1>1, ProductNat
  <1>5. slot + d * w < w * due + w
    BY <1>1, <1>2, <1>3, <1>4
  <1> QED
    BY <1>5 DEF w, d

\* A pair accepted in this block.
LEMMA BlockStartsWaiting ==
  ASSUME ChainInv, NEW gap \in 1..MaxGap, NEW A \in AcceptChoices, NEW f \in InOrder(A),
         NEW n \in 0..Len(QueueAfter(f)), BlockStep(gap, A, f, n), UNCHANGED tradeVars,
         NEW id \in TradeIds, Waiting(id)'
  PROVE  KeepsWaiting(id) \/ StartsWaiting(id)
  <1> DEFINE t == trades[id]
             v == t.sourceIndex
  <1>1. /\ TypeOK /\ ConsensusInv /\ TermsInv /\ BeaconTypeOK
        /\ trades' = trades /\ t.status = "RequestSubmitted"
        /\ accepted'[v].tgt = t.targetIndex /\ ~validators'[v].slashed
    BY DEF ChainInv, SettlementInv, TypeOK, Waiting, tradeVars
  <1>2. /\ t \in Trade /\ v \in Validators /\ t.targetIndex \in Validators
        /\ t.filledAt \in Nat /\ t.filledAt <= now
    BY <1>1, FilledIsTrade DEF Trade, TermsInv, FilledInPast, IsFilled
  <1>3. validators[v].slashed = validators'[v].slashed
    BY <1>1, <1>2, BlockKeepsPast
  <1>4. CASE accepted'[v] = accepted[v]
    <2>1. IsAccepted(v)
      BY <1>1, <1>2, <1>4, BeaconConstants DEF IsAccepted
    <2>2. validators'[v].withdrawable = validators[v].withdrawable
      BY <1>1, <1>2, <2>1, BlockKeepsPast DEF ConsensusInv, AcceptedExits
    <2>3. OwnRequestAccepted(id)' => OwnRequestAccepted(id)
      BY <1>1, <1>4 DEF OwnRequestAccepted, IsFilled
    <2> QED
      BY <1>1, <1>3, <1>4, <2>2, <2>3 DEF KeepsWaiting, Waiting, Due
  <1>5. CASE accepted'[v] # accepted[v]
    <2>1. validators'[v].withdrawable = EpochOf(now) + ExitDelay
      BY <1>1, <1>2, <1>5, BlockKeepsPast
    <2>2. OwnRequestAccepted(id)' => now <= t.filledAt + DequeueDelay
      <3> SUFFICES ASSUME OwnRequestAccepted(id)' PROVE now <= t.filledAt + DequeueDelay
        OBVIOUS
      <3>1. OwnRequestAccepted(id) \/ now <= t.filledAt + DequeueDelay
        BY <1>1, NewlyAccepted
      <3>2. ~OwnRequestAccepted(id)
        BY <1>1, <1>5 DEF OwnRequestAccepted, IsFilled
      <3> QED
        BY <3>1, <3>2
    <2>3. now \in Nat /\ EpochOf(now) \in Nat /\ ExitDelay \in Nat /\ SlotsPerEpoch \in Nat
          /\ MaxProofAge \in Nat
      BY <1>1, ClockBounds, BeaconConstants, MarketConstants
    <2> DEFINE due == EpochOf(now) + ExitDelay
    <2>4. due \in Nat /\ EpochOf(now) + ExitDelay <= due
      BY <2>3
    <2>5. now + ExitDelay * SlotsPerEpoch < SlotsPerEpoch * due + SlotsPerEpoch
      BY <2>3, <2>4, LateEpoch
    <2>6. Due(id)' = SlotsPerEpoch * due + SlotsPerEpoch + MaxProofAge
      BY <1>1, <2>1 DEF Due
    <2> DEFINE a == ExitDelay * SlotsPerEpoch
               b == SlotsPerEpoch * due
    <2>7. a \in Nat /\ b \in Nat
      BY <2>3, <2>4, ProductNat
    <2> HIDE DEF a, b, due
    <2>8. now + a < b + SlotsPerEpoch + MaxProofAge
      BY <2>3, <2>5, <2>7 DEF a, b
    <2> QED
      BY <1>1, <1>2, <2>2, <2>6, <2>8 DEF StartsWaiting, a, b
  <1> QED
    BY <1>4, <1>5

\* A fill whose pair was accepted before: its proof shows the source not exiting.
LEMMA FillStartsWaiting ==
  ASSUME ChainInv, AnyFill, NEW id \in TradeIds, Waiting(id)', ~IsFilled(id)
  PROVE  StartsWaiting(id)
  <1>1. PICK o \in Orders, target \in Validators, state \in roots, buyer \in Accounts :
          \E payment : FillFor(o, target, state, buyer, payment)
    BY DEF AnyFill
  <1>2. PICK payment : FillFor(o, target, state, buyer, payment)
    BY <1>1
  <1> DEFINE v == o.sourceIndex
  <1>3. TypeOK
    BY DEF ChainInv
  <1>4. /\ \A i \in TradeIds : i # nextTradeId => trades'[i] = trades[i]
        /\ nextTradeId \in TradeIds /\ v \in Validators
        /\ trades'[nextTradeId].sourceIndex = v /\ trades'[nextTradeId].targetIndex = target
        /\ trades'[nextTradeId].filledAt = now
        /\ UNCHANGED <<now, validators, pending, roots, accepted, movedTo>>
    BY <1>2, <1>3, FillFacts
  <1>5. id = nextTradeId
    BY <1>4 DEF Waiting, IsFilled
  <1>6. accepted[v].tgt = target /\ ~validators[v].slashed
    BY <1>4, <1>5 DEF Waiting
  <1>7. PairTimely(v)
    BY <1>4, <1>6, BeaconConstants DEF ChainInv, PairsTimely, IsAccepted
  <1>8. state.ts + MaxProofAge >= now /\ ~IsExiting(state.val[v])
    BY <1>2 DEF FillFor, CheckValidators, IsActiveNotExiting
  <1> DEFINE due == validators[v].withdrawable
  <1>9. EpochOf(state.ts) + ExitDelay <= due
    BY <1>7, <1>8 DEF PairTimely
  <1>10. /\ now \in Nat /\ state.ts \in Nat /\ due \in Nat /\ MaxProofAge \in Nat
         /\ SlotsPerEpoch \in Nat /\ ExitDelay \in Nat
    BY <1>3, <1>4, ChainRoots, BeaconConstants, MarketConstants
       DEF TypeOK, BeaconTypeOK, ValidatorState
  <1>11. state.ts + ExitDelay * SlotsPerEpoch < SlotsPerEpoch * due + SlotsPerEpoch
    <2> HIDE DEF due
    <2> QED
      BY <1>9, <1>10, LateEpoch
  <1>12. Due(id)' = SlotsPerEpoch * due + SlotsPerEpoch + MaxProofAge
    BY <1>4, <1>5 DEF Due
  <1>13. ~OwnRequestAccepted(id)'
    <2>1. accepted[v].id < nextTradeId /\ nextTradeId \in Nat
      BY <1>3, <1>4 DEF ChainInv, SettlementInv, TermsInv, AcceptedIds, TypeOK, TradeIds
    <2> QED
      BY <1>4, <1>5, <2>1 DEF OwnRequestAccepted
  <1> DEFINE a == ExitDelay * SlotsPerEpoch
             b == SlotsPerEpoch * due
  <1>14. a \in Nat /\ b \in Nat
    BY <1>10, ProductNat
  <1> HIDE DEF a, b, due
  <1>15. now + a < b + SlotsPerEpoch + MaxProofAge
    BY <1>8, <1>10, <1>11, <1>14 DEF a, b
  <1> QED
    BY <1>4, <1>5, <1>10, <1>12, <1>13, <1>15 DEF StartsWaiting, a, b

LEMMA WaitingStep ==
  ASSUME ChainInv, [MarketNext]_vars, NEW id \in TradeIds, Waiting(id)'
  PROVE  KeepsWaiting(id) \/ StartsWaiting(id)
  <1>1. TypeOK /\ BeaconTypeOK
    BY DEF ChainInv, TypeOK
  <1>2. ASSUME IsFilled(id)
        PROVE  /\ trades[id].status = "RequestSubmitted"
               /\ trades'[id].sourceIndex = trades[id].sourceIndex
               /\ trades'[id].targetIndex = trades[id].targetIndex
               /\ trades'[id].filledAt = trades[id].filledAt
               /\ trades[id].sourceIndex \in Validators
               /\ trades[id].targetIndex \in Validators
    BY <1>2, ChainClock DEF PastKept, TradeKept, Waiting
  <1>3. CASE UNCHANGED <<now, validators, pending, roots, accepted, movedTo>> /\ IsFilled(id)
    BY <1>2, <1>3 DEF KeepsWaiting, Waiting, Due, OwnRequestAccepted
  <1>4. CASE AnyFill
    <2>1. UNCHANGED <<now, validators, pending, roots, accepted, movedTo>>
      BY <1>4 DEF AnyFill, FillFor, RequestConsolidation
    <2> QED
      BY <1>3, <1>4, <2>1, FillStartsWaiting
  <1>5. CASE BeaconNext
    <2>1. trades' = trades /\ UNCHANGED tradeVars /\ IsFilled(id)
      BY <1>5 DEF BeaconNext, tradeVars, Waiting, IsFilled
    <2>2. CASE OwnRequest
      BY <1>3, <2>1, <2>2 DEF OwnRequest
    <2>3. CASE NewBlock
      BY <2>1, <2>3, BlockStartsWaiting DEF NewBlock
    <2>4. CASE RegistryMoves
      <3> DEFINE v == trades[id].sourceIndex
      <3>1. /\ v \in Validators /\ accepted' = accepted /\ ~validators'[v].slashed
            /\ IsAccepted(v)
        BY <1>2, <2>1, <2>4, BeaconConstants DEF RegistryMoves, Waiting, IsAccepted
      <3>2. IsExiting(validators[v])
        BY <3>1 DEF ChainInv, SettlementInv, ConsensusInv, AcceptedExits
      <3>3. validators'[v].withdrawable = validators[v].withdrawable /\ ~validators[v].slashed
        BY <2>4, <3>1, <3>2 DEF RegistryMoves
      <3> QED
        BY <2>1, <3>1, <3>3 DEF KeepsWaiting, Waiting, Due, OwnRequestAccepted
    <2> QED
      BY <1>1, <1>5, <2>2, <2>3, <2>4, BeaconSteps
  <1>6. CASE AnyOffer \/ AnyAttest \/ UNCHANGED vars
    <2>1. UNCHANGED <<now, validators, pending, roots, accepted, movedTo>> /\ trades' = trades
      BY <1>6 DEF AnyOffer, ListOrder, ListOrderWithPolicy, CancelOrder, UseNonce,
         SetDelegation, AnyAttest, Attest, vars, beaconVars, tradeVars
    <2> QED
      BY <1>3, <2>1 DEF Waiting, IsFilled
  <1>7. CASE SettleNext
    <2>1. UNCHANGED <<now, validators, pending, roots, accepted, movedTo>>
      BY <1>7 DEF SettleNext, ProveAccepted, ProveDelivered, ProveNotAccepted, ProveFailed,
         RefundExpired, Fail, Close, beaconVars
    <2>2. SameTerms
      BY <1>1, <1>7, SettleSteps, AcceptKeepsTerms, CloseKeepsTerms
    <2> QED
      BY <1>3, <2>1, <2>2 DEF SameTerms, Waiting, IsFilled
  <1> QED
    BY <1>4, <1>5, <1>6, <1>7 DEF MarketNext

(***************************************************************************)
(* The relayer's process and its transactions                              *)
(***************************************************************************)
IsRelayer ==
  relayer = [pc |-> relayer.pc, rows |-> relayer.rows, clock |-> relayer.clock,
             status |-> relayer.status, tx |-> relayer.tx]

InRow == relayer.pc \in {"fetch", "send", "wait"}

ProcessOK ==
  /\ IsRelayer
  /\ relayer.rows \subseteq TradeIds /\ \A id \in relayer.rows : IsFilled(id)
  /\ relayer.pc \in {"idle", "down"} => relayer.rows = {}
  /\ InRow => relayer.rows # {}
  /\ relayer.clock \in Nat /\ relayer.clock <= now /\ now <= relayer.clock + MaxOutage
  /\ faults \in 0..MaxFaults

\* The status that was read may be stale, but it was once the trade's.
PastRequest(id) == trades[id].status # "RequestSubmitted" /\ trades[id].filledAt < now

StatusOK ==
  /\ ~InRow => relayer.status = "None"
  /\ InRow /\ relayer.status = "Accepted" => PastRequest(Current)
  /\ relayer.pc = "fetch" => relayer.status \in OpenStatus

ProofCalls == {"proveAccepted", "proveNotAccepted", "proveDelivered", "proveFailed"}

\* The transaction proves what it says from a root of this tick.
Proves(t, tx) ==
  /\ tx.fn \in ProofCalls
  /\ tx.state \in roots /\ relayer.clock <= tx.state.ts /\ StateAfterFill(t, tx.state)
  /\ relayer.status = IF tx.fn \in {"proveAccepted", "proveNotAccepted"}
                      THEN "RequestSubmitted" ELSE "Accepted"
  /\ tx.fn = "proveAccepted" => PairIsPending(t, tx.state)
  /\ tx.fn = "proveNotAccepted" => RequestDequeued(t, tx.state) /\ SourceNotExiting(t, tx.state)
  /\ tx.fn = "proveFailed" => tx.state.val[t.sourceIndex].slashed

TimedOut(t) == relayer.clock > t.filledAt + AcceptWindow

TxOK ==
  relayer.pc \in {"send", "wait"} =>
    LET tx == relayer.tx
    IN /\ tx.id = Current
       /\ IF tx.fn = "refundExpired" THEN TimedOut(trades[tx.id]) ELSE Proves(trades[tx.id], tx)

\* Only windows that were over by the tick's clock are let expire.
SentOK ==
  \A tx \in sent :
    /\ tx.id \in TradeIds /\ IsFilled(tx.id)
    /\ tx.fn \in ProofCalls \/ tx.fn = "refundExpired"
    /\ tx.fn = "refundExpired" => TimedOut(trades[tx.id])

\* How far behind the relayer can be with a trade: every fault costs it a tick,
\* and a row still to come is not settled before the next.
Lag(id) == relayer.clock - (faults + (IF id \in relayer.rows THEN 1 ELSE 0)) * MaxOutage

\* It has not been behind since the pair was accepted.
InTime(id) ==
  /\ trades[id].filledAt + ExitDelay * SlotsPerEpoch < Due(id)
  /\ Lag(id) + ExitDelay * SlotsPerEpoch < Due(id)
  /\ OwnRequestAccepted(id) => Lag(id) <= trades[id].filledAt + DequeueDelay

AllInTime == \A id \in TradeIds : Waiting(id) => InTime(id)

RelayerInv == ChainInv /\ ProcessOK /\ StatusOK /\ TxOK /\ SentOK /\ AllInTime

LEMMA RelayerNumbers ==
  /\ MaxOutage \in Nat /\ MaxFaults \in Nat /\ MaxTrades \in Nat /\ MaxProofAge \in Nat
  /\ DequeueDelay \in Nat /\ AcceptWindow \in Nat /\ SlotsPerEpoch \in Nat /\ ExitDelay \in Nat
  /\ RootsKept \in Nat
  BY RelayerConstants, MarketConstants, BeaconConstants

LEMMA LagBounds ==
  ASSUME ProcessOK, now \in Nat, NEW id
  PROVE  /\ Lag(id) \in Int /\ Lag(id) <= relayer.clock
         /\ relayer.clock <= Lag(id) + (MaxFaults + 1) * MaxOutage
  <1> DEFINE n == faults + (IF id \in relayer.rows THEN 1 ELSE 0)
  <1>1. /\ n \in Nat /\ n <= MaxFaults + 1 /\ relayer.clock \in Nat
        /\ MaxOutage \in Nat /\ MaxFaults \in Nat
    BY RelayerNumbers DEF ProcessOK
  <1>2. Lag(id) = relayer.clock - n * MaxOutage
    BY DEF Lag
  <1> HIDE DEF n
  <1>3. n * MaxOutage \in Nat /\ (MaxFaults + 1) * MaxOutage \in Nat
    BY <1>1, ProductNat
  <1>4. MaxOutage * n <= MaxOutage * (MaxFaults + 1)
    BY <1>1, ScaleUp
  <1>5. n * MaxOutage = MaxOutage * n /\ (MaxFaults + 1) * MaxOutage = MaxOutage * (MaxFaults + 1)
    BY <1>1
  <1> QED
    BY <1>1, <1>2, <1>3, <1>4, <1>5

\* The row at hand is one of the rows.
LEMMA CurrentIsRow ==
  ASSUME ProcessOK, relayer.rows # {}
  PROVE  Current \in relayer.rows /\ Current \in TradeIds /\ IsFilled(Current)
  <1> DEFINE S == relayer.rows
             B == {MaxTrades - id : id \in S}
  <1>1. S \subseteq TradeIds /\ MaxTrades \in Nat
    BY RelayerNumbers DEF ProcessOK
  <1>2. B \in SUBSET Nat /\ B # {}
    BY <1>1 DEF TradeIds
  <1>3. PICK b \in B : \A k \in B : b <= k
    <2> HIDE DEF B
    <2> QED
      BY <1>2, Least
  <1>4. PICK x \in S : b = MaxTrades - x
    BY <1>3
  <1>5. \A y \in S : MaxTrades - x <= MaxTrades - y
    BY <1>3, <1>4
  <1>6. \A y \in S : x >= y
    BY <1>1, <1>5 DEF TradeIds
  <1>7. Current \in S
    BY <1>6 DEF Current, Max
  <1> QED
    BY <1>1, <1>7 DEF ProcessOK

\* The state whose proofs are fetched is that of the current block's parent.
LEMMA NewestIsHead ==
  ASSUME ChainInv
  PROVE  NewestProvable \in roots /\ NewestProvable.ts = now
  <1>1. PICK h \in roots : h.ts = now
    BY DEF ChainInv, HeadInRing
  <1>2. \A r \in roots : r.ts <= h.ts /\ r.ts \in Nat
    BY <1>1, ChainRoots
  <1>3. NewestProvable \in roots /\ \A r \in roots : r.ts <= NewestProvable.ts
    BY <1>2 DEF NewestProvable
  <1> QED
    BY <1>1, <1>2, <1>3, ChainRoots

\* It shows every pair that waits for its proof.
LEMMA HeadShowsPair ==
  ASSUME ChainInv, ProcessOK, NEW id \in TradeIds, Waiting(id), InTime(id)
  PROVE  PairIsPending(trades[id], NewestProvable)
  <1> DEFINE t == trades[id]
             v == t.sourceIndex
             due == validators[v].withdrawable
  <1>1. /\ v \in Validators /\ t.targetIndex \in Validators /\ due \in Nat
        /\ now \in Nat
    BY FilledIsTrade, ClockBounds DEF ChainInv, TypeOK, BeaconTypeOK, ValidatorState, Waiting, Trade
  <1>2. PairTimely(v)
    BY <1>1, BeaconConstants DEF ChainInv, PairsTimely, IsAccepted, Waiting
  <1>3. AcceptedPair(v) \in NewestProvable.pend \/ SlotsPerEpoch * due < now
    BY <1>2, NewestIsHead DEF PairTimely
  <1>4. ~(SlotsPerEpoch * due < now)
    <2>1. /\ Lag(id) \in Int /\ relayer.clock <= Lag(id) + (MaxFaults + 1) * MaxOutage
          /\ relayer.clock \in Nat /\ now <= relayer.clock + MaxOutage
      BY <1>1, LagBounds DEF ProcessOK
    <2>2. Lag(id) + ExitDelay * SlotsPerEpoch < SlotsPerEpoch * due + SlotsPerEpoch + MaxProofAge
      BY DEF InTime, Due
    <2>3. SlotsPerEpoch - 1 + MaxProofAge + (MaxFaults + 2) * MaxOutage <= ExitDelay * SlotsPerEpoch
      BY RelayerBackInTime
    <2>4. (MaxFaults + 2) * MaxOutage = (MaxFaults + 1) * MaxOutage + MaxOutage
      BY RelayerNumbers
    <2> DEFINE x == ExitDelay * SlotsPerEpoch
               y == SlotsPerEpoch * due
               z == (MaxFaults + 1) * MaxOutage
    <2>5. x \in Nat /\ y \in Nat /\ z \in Nat
      BY <1>1, RelayerNumbers, ProductNat
    <2> HIDE DEF x, y, z, due
    <2>6. /\ Lag(id) + x < y + SlotsPerEpoch + MaxProofAge
          /\ SlotsPerEpoch - 1 + MaxProofAge + z + MaxOutage <= x
          /\ relayer.clock <= Lag(id) + z
      BY <2>1, <2>2, <2>3, <2>4, <2>5, RelayerNumbers DEF x, y, z
    <2>7. ~(y < now)
      BY <1>1, <2>1, <2>5, <2>6, RelayerNumbers
    <2> QED
      BY <2>7 DEF y, due
  <1>5. AcceptedPair(v) = [src |-> v, tgt |-> t.targetIndex]
    BY DEF AcceptedPair, Waiting
  <1> QED
    BY <1>3, <1>4, <1>5 DEF PairIsPending

(***************************************************************************)
(* Steps                                                                   *)
(***************************************************************************)
LEMMA LagAtMost ==
  ASSUME NEW clock \in Nat, NEW n \in Nat, NEW k \in Nat, n <= k
  PROVE  /\ clock - n * MaxOutage \in Int /\ clock - n * MaxOutage <= clock
         /\ clock - k * MaxOutage <= clock - n * MaxOutage
  <1>1. MaxOutage \in Nat
    BY RelayerNumbers
  <1>2. MaxOutage * n \in Nat /\ MaxOutage * k \in Nat /\ MaxOutage * n <= MaxOutage * k
    BY <1>1, ScaleUp
  <1>3. n * MaxOutage = MaxOutage * n /\ k * MaxOutage = MaxOutage * k
    BY <1>1
  <1> QED
    BY <1>2, <1>3

Left(id) == IF id \in relayer.rows THEN 1 ELSE 0

\* Within a tick, a row that is done without a fault counts against the relayer.
LEMMA LagKept ==
  ASSUME ProcessOK, ProcessOK', NEW id, relayer'.clock = relayer.clock,
         faults + Left(id) <= faults' + Left(id)'
  PROVE  Lag(id)' <= Lag(id)
  <1> DEFINE n == faults + Left(id)
             k == faults' + Left(id)'
  <1>1. n \in Nat /\ k \in Nat /\ n <= k /\ relayer.clock \in Nat
    <2>1. Left(id) \in Nat /\ Left(id)' \in Nat
      BY DEF Left
    <2>2. faults \in Nat /\ faults' \in Nat /\ relayer.clock \in Nat
      BY RelayerNumbers DEF ProcessOK
    <2> QED
      BY <2>1, <2>2
  <1>2. Lag(id) = relayer.clock - n * MaxOutage /\ Lag(id)' = relayer.clock - k * MaxOutage
    BY DEF Lag, Left
  <1> HIDE DEF n, k
  <1> QED
    BY <1>1, <1>2, LagAtMost

LEMMA TimeKept ==
  ASSUME RelayerInv, [MarketNext]_vars, ProcessOK', relayer'.clock <= now,
         \A id \in TradeIds : Waiting(id) /\ Waiting(id)' =>
           Lag(id)' <= Lag(id) \/ Lag(id)' <= trades[id].filledAt
  PROVE  AllInTime'
  <1> SUFFICES ASSUME NEW id \in TradeIds, Waiting(id)'
               PROVE  InTime(id)'
    BY DEF AllInTime
  <1>1. now \in Nat /\ now' \in Nat
    BY ChainClock DEF RelayerInv
  <1>2. Lag(id)' \in Int /\ Lag(id)' <= now
    <2> DEFINE k == faults' + Left(id)'
    <2>1. k \in Nat /\ relayer'.clock \in Nat
      BY RelayerNumbers DEF ProcessOK, Left
    <2>2. Lag(id)' = relayer'.clock - k * MaxOutage
      BY DEF Lag, Left
    <2> HIDE DEF k
    <2>3. Lag(id)' \in Int /\ Lag(id)' <= relayer'.clock
      BY <2>1, <2>2, LagAtMost
    <2> QED
      BY <1>1, <2>1, <2>3
  <1> DEFINE delay == ExitDelay * SlotsPerEpoch
  <1>3. delay \in Nat /\ DequeueDelay \in Nat
    BY RelayerNumbers, ProductNat
  <1>4. CASE StartsWaiting(id)
    <2>1. Due(id)' \in Int
      <3>1. ChainInv'
        BY ChainStep DEF RelayerInv
      <3>2. validators'[trades'[id].sourceIndex].withdrawable \in Nat
        <4>1. trades'[id] \in Trade \cup {NoTrade} /\ validators' \in [Validators -> ValidatorState]
          BY <3>1 DEF ChainInv, TypeOK, BeaconTypeOK
        <4>2. trades'[id] \in Trade
          BY <4>1 DEF Waiting, NoTrade
        <4> QED
          BY <4>1, <4>2 DEF Trade, ValidatorState
      <3> QED
        BY <3>2, RelayerNumbers DEF Due
    <2>2. trades'[id].filledAt \in Nat
      <3>1. ChainInv'
        BY ChainStep DEF RelayerInv
      <3>2. trades'[id] \in Trade \cup {NoTrade}
        BY <3>1 DEF ChainInv, TypeOK
      <3> QED
        BY <3>2 DEF Waiting, NoTrade, Trade
    <2>3. /\ trades'[id].filledAt <= now /\ now + delay < Due(id)'
          /\ OwnRequestAccepted(id)' => now <= trades'[id].filledAt + DequeueDelay
      BY <1>4 DEF StartsWaiting
    <2> HIDE DEF delay
    <2>4. /\ trades'[id].filledAt + delay < Due(id)' /\ Lag(id)' + delay < Due(id)'
          /\ OwnRequestAccepted(id)' => Lag(id)' <= trades'[id].filledAt + DequeueDelay
      BY <1>1, <1>2, <1>3, <2>1, <2>2, <2>3
    <2> QED
      BY <2>4 DEF InTime, delay
  <1>5. CASE KeepsWaiting(id)
    <2>1. Waiting(id) /\ InTime(id)
      BY <1>5 DEF KeepsWaiting, RelayerInv, AllInTime
    <2>2. /\ trades[id].filledAt \in Nat /\ Lag(id) \in Int /\ Due(id) \in Int
      <3>1. trades[id] \in Trade
        BY <2>1, FilledIsTrade DEF RelayerInv, ChainInv, Waiting
      <3>2. validators[trades[id].sourceIndex].withdrawable \in Nat
        BY <3>1 DEF RelayerInv, ChainInv, TypeOK, BeaconTypeOK, Trade, ValidatorState
      <3> QED
        BY <1>1, <3>1, <3>2, LagBounds, RelayerNumbers DEF RelayerInv, Trade, Due
    <2>3. Lag(id)' <= Lag(id) \/ Lag(id)' <= trades[id].filledAt
      BY <2>1
    <2>4. /\ trades[id].filledAt + delay < Due(id) /\ Lag(id) + delay < Due(id)
          /\ OwnRequestAccepted(id) => Lag(id) <= trades[id].filledAt + DequeueDelay
      BY <2>1 DEF InTime
    <2> HIDE DEF delay
    <2>5. /\ Lag(id)' + delay < Due(id)
          /\ OwnRequestAccepted(id) => Lag(id)' <= trades[id].filledAt + DequeueDelay
      BY <1>2, <1>3, <2>2, <2>3, <2>4
    <2> QED
      BY <1>5, <2>4, <2>5 DEF KeepsWaiting, InTime, delay
  <1> QED
    BY <1>4, <1>5, WaitingStep DEF RelayerInv

LEMMA SentKept ==
  ASSUME RelayerInv, [MarketNext]_vars, sent' \subseteq sent,
         relayer'.clock \in Nat, relayer.clock <= relayer'.clock
  PROVE  SentOK'
  <1> SUFFICES ASSUME NEW tx \in sent
               PROVE  /\ tx.id \in TradeIds /\ IsFilled(tx.id)'
                      /\ tx.fn \in ProofCalls \/ tx.fn = "refundExpired"
                      /\ tx.fn = "refundExpired" =>
                           relayer'.clock > trades'[tx.id].filledAt + AcceptWindow
    BY DEF SentOK, TimedOut
  <1>1. /\ tx.id \in TradeIds /\ IsFilled(tx.id)
        /\ tx.fn \in ProofCalls \/ tx.fn = "refundExpired"
        /\ tx.fn = "refundExpired" => relayer.clock > trades[tx.id].filledAt + AcceptWindow
    BY DEF RelayerInv, SentOK, TimedOut
  <1>2. /\ trades[tx.id].filledAt \in Nat /\ trades'[tx.id].filledAt = trades[tx.id].filledAt
        /\ IsFilled(tx.id)'
    BY <1>1, ChainClock DEF RelayerInv, PastKept, TradeKept, IsFilled
  <1>3. relayer.clock \in Nat
    BY DEF RelayerInv, ProcessOK
  <1> QED
    BY <1>1, <1>2, <1>3, RelayerNumbers

\* Steps that leave the relayer between two rows or two ticks.
LEMMA BetweenRows ==
  ASSUME RelayerInv, [MarketNext]_vars, ProcessOK', ~InRow', relayer'.status = "None",
         sent' \subseteq sent, relayer.clock <= relayer'.clock, relayer'.clock <= now,
         \A id \in TradeIds : Waiting(id) /\ Waiting(id)' =>
           Lag(id)' <= Lag(id) \/ Lag(id)' <= trades[id].filledAt
  PROVE  RelayerInv'
  <1>1. ChainInv'
    BY ChainStep DEF RelayerInv
  <1>2. StatusOK' /\ TxOK'
    BY DEF InRow, StatusOK, TxOK
  <1>3. SentOK'
    BY SentKept DEF ProcessOK
  <1>4. AllInTime'
    BY TimeKept
  <1> QED
    BY <1>1, <1>2, <1>3, <1>4 DEF RelayerInv

\* The row at hand is given up or done: unless a fault pays for it, its trade does not
\* wait any more, or was filled in this very block.
LEMMA RowDone ==
  ASSUME RelayerInv, [MarketNext]_vars, now' = now,
         relayer.rows # {}, relayer' = NextRow, sent' \subseteq sent,
         faults' \in {faults, faults + 1}, faults' <= MaxFaults,
         NEW row, row = Current,
         faults' # faults \/ ~Waiting(row)' \/ now <= trades[row].filledAt
  PROVE  RelayerInv'
  <1>1. Current \in relayer.rows /\ Current \in TradeIds /\ IsFilled(Current)
    BY CurrentIsRow DEF RelayerInv
  <1>2. /\ IsRelayer' /\ relayer'.pc = "read" /\ relayer'.rows = relayer.rows \ {Current}
        /\ relayer'.clock = relayer.clock /\ relayer'.status = "None"
    BY DEF NextRow, RelayerInv, ProcessOK, IsRelayer
  <1>3. now \in Nat /\ relayer.clock \in Nat /\ relayer.clock <= now
        /\ now <= relayer.clock + MaxOutage /\ faults \in Nat
    BY ChainClock, RelayerNumbers DEF RelayerInv, ProcessOK
  <1>4. \A id \in relayer'.rows : id \in TradeIds /\ IsFilled(id)'
    BY <1>2, ChainClock DEF RelayerInv, ProcessOK, PastKept, TradeKept, IsFilled
  <1>5. ProcessOK' /\ ~InRow'
    BY <1>2, <1>3, <1>4, RelayerNumbers DEF ProcessOK, InRow
  <1>6. ASSUME NEW id \in TradeIds, Waiting(id)'
        PROVE  Lag(id)' <= Lag(id) \/ Lag(id)' <= trades[id].filledAt
    <2>1. CASE id # Current
      <3>1. Left(id)' = Left(id) /\ Left(id) \in Nat
        BY <1>2, <2>1 DEF Left
      <3>2. faults + Left(id) <= faults' + Left(id)'
        BY <1>3, <3>1
      <3> QED
        BY <1>2, <1>5, <3>2, LagKept DEF RelayerInv
    <2>2. CASE id = Current /\ faults' # faults
      <3>1. Left(id) = 1 /\ Left(id)' = 0 /\ faults' = faults + 1
        BY <1>1, <1>2, <2>2 DEF Left
      <3>2. faults + Left(id) <= faults' + Left(id)'
        BY <1>3, <3>1
      <3> QED
        BY <1>2, <1>5, <3>2, LagKept DEF RelayerInv
    <2>3. CASE id = Current /\ faults' = faults
      <3>1. now <= trades[id].filledAt /\ trades[id].filledAt \in Nat
        <4>1. id = row
          BY <2>3
        <4> QED
          BY <1>1, <1>6, <2>3, <4>1, ChainClock DEF RelayerInv
      <3> DEFINE k == faults' + Left(id)'
      <3>2. k \in Nat
        BY <1>3, <2>3 DEF Left
      <3>3. Lag(id)' = relayer.clock - k * MaxOutage
        BY <1>2 DEF Lag, Left
      <3> HIDE DEF k
      <3>4. Lag(id)' \in Int /\ Lag(id)' <= relayer.clock
        BY <1>3, <3>2, <3>3, LagAtMost
      <3> QED
        BY <1>3, <3>1, <3>4
    <2> QED
      BY <2>1, <2>2, <2>3
  <1> QED
    BY <1>2, <1>3, <1>5, <1>6, BetweenRows

\* Everybody else's steps, and the relayer's transactions that it does not wait for.
LEMMA RowUntouched ==
  ASSUME RelayerInv, [MarketNext]_vars, now' <= relayer.clock + MaxOutage,
         relayer' = relayer, faults' = faults, sent' \subseteq sent
  PROVE  RelayerInv'
  <1>1. ChainInv' /\ SentOK'
    <2>1. relayer.clock \in Nat
      BY DEF RelayerInv, ProcessOK
    <2> QED
      BY <2>1, ChainStep, SentKept DEF RelayerInv
  <1>2. /\ now \in Nat /\ now' \in Nat /\ now <= now' /\ relayer.clock \in Nat
        /\ relayer.clock <= now
    BY ChainClock DEF RelayerInv, ProcessOK
  <1>3. ProcessOK'
    <2>1. \A id \in relayer.rows : IsFilled(id)'
      BY ChainClock DEF RelayerInv, ProcessOK, PastKept, TradeKept, IsFilled
    <2>2. relayer.clock <= now'
      BY <1>2
    <2> QED
      BY <2>1, <2>2 DEF RelayerInv, ProcessOK, IsRelayer, InRow
  <1>4. AllInTime'
    <2>1. ASSUME NEW id \in TradeIds
          PROVE  Lag(id)' <= Lag(id)
      <3>1. Lag(id)' = Lag(id) /\ Lag(id) \in Int
        BY <1>2, LagBounds DEF Lag, RelayerInv
      <3> QED
        BY <3>1
    <2> QED
      BY <1>2, <1>3, <2>1, TimeKept
  <1>5. Current' = Current
    BY DEF Current
  <1>6. ASSUME InRow
        PROVE  /\ Current \in TradeIds /\ IsFilled(Current) /\ trades[Current].filledAt \in Nat
               /\ trades'[Current].filledAt = trades[Current].filledAt
               /\ trades'[Current].sourceIndex = trades[Current].sourceIndex
               /\ trades'[Current].targetIndex = trades[Current].targetIndex
               /\ trades[Current].status # "RequestSubmitted" =>
                    trades'[Current].status # "RequestSubmitted"
    <2>1. Current \in TradeIds /\ IsFilled(Current)
      BY <1>6, CurrentIsRow DEF RelayerInv, ProcessOK
    <2> QED
      BY <2>1, ChainClock DEF RelayerInv, PastKept, TradeKept
  <1>7. StatusOK'
    <2>1. InRow /\ relayer.status = "Accepted" =>
            trades'[Current].status # "RequestSubmitted" /\ trades'[Current].filledAt < now'
      BY <1>2, <1>6 DEF RelayerInv, StatusOK, PastRequest
    <2> QED
      BY <1>5, <2>1 DEF RelayerInv, StatusOK, PastRequest, InRow
  <1>8. TxOK'
    <2> SUFFICES ASSUME relayer.pc \in {"send", "wait"}
                 PROVE  LET tx == relayer.tx
                        IN /\ tx.id = Current
                           /\ IF tx.fn = "refundExpired" THEN TimedOut(trades[tx.id])'
                              ELSE Proves(trades[tx.id], tx)'
      BY <1>5 DEF TxOK
    <2> DEFINE tx == relayer.tx
    <2>1. tx.id = Current /\ InRow
      BY DEF RelayerInv, TxOK, InRow
    <2>2. CASE tx.fn = "refundExpired"
      BY <1>6, <2>1, <2>2 DEF RelayerInv, TxOK, TimedOut
    <2>3. CASE tx.fn # "refundExpired"
      <3>1. Proves(trades[Current], tx)
        BY <2>1, <2>3 DEF RelayerInv, TxOK
      <3>2. tx.state \in roots'
        <4>1. tx.state \in roots /\ relayer.clock <= tx.state.ts /\ tx.state.ts \in Nat
          BY <3>1, ChainRoots DEF Proves, RelayerInv
        <4>2. now' < tx.state.ts + RootsKept
          BY <1>2, <4>1, RelayerNumbers, RelayerBackInTime
        <4> QED
          BY <4>1, <4>2, RootsStay DEF RelayerInv
      <3>3. Proves(trades[Current], tx)'
        BY <1>5, <1>6, <2>1, <3>1, <3>2
           DEF Proves, StateAfterFill, PairIsPending, RequestDequeued, SourceNotExiting
      <3> QED
        BY <2>1, <2>3, <3>3, <1>5
    <2> QED
      BY <2>1, <2>2, <2>3
  <1> QED
    BY <1>1, <1>3, <1>4, <1>7, <1>8 DEF RelayerInv

(***************************************************************************)
(* A tick                                                                  *)
(***************************************************************************)
LEMMA QuietIsMarketStep ==
  ASSUME UNCHANGED vars
  PROVE  [MarketNext]_vars /\ now' = now /\ trades' = trades
         /\ \A id : Waiting(id)' <=> Waiting(id)
  <1>1. UNCHANGED <<now, trades, accepted, validators>>
    BY DEF vars, beaconVars, tradeVars
  <1> QED
    BY <1>1 DEF Waiting

LEMMA StartTickStep ==
  ASSUME RelayerInv, StartTick
  PROVE  RelayerInv'
  <1>1. UNCHANGED vars /\ sent' = sent /\ faults' = faults /\ relayer.pc = "idle"
    BY DEF StartTick
  <1>2. /\ IsRelayer' /\ relayer'.pc = "read" /\ relayer'.clock = now
        /\ relayer'.rows = {id \in TradeIds : IsFilled(id)} /\ relayer'.status = "None"
    <2>1. relayer.status = "None"
      BY <1>1 DEF RelayerInv, StatusOK, InRow
    <2> QED
      BY <2>1 DEF StartTick, RelayerInv, ProcessOK, IsRelayer
  <1>3. [MarketNext]_vars /\ now' = now /\ trades' = trades /\ \A id : Waiting(id)' <=> Waiting(id)
    BY <1>1, QuietIsMarketStep
  <1>4. /\ now \in Nat /\ relayer.clock \in Nat /\ relayer.clock <= now
        /\ now <= relayer.clock + MaxOutage /\ relayer.rows = {} /\ faults \in Nat
    BY <1>1, <1>3, ChainClock, RelayerNumbers DEF RelayerInv, ProcessOK
  <1>5. ProcessOK' /\ ~InRow'
    BY <1>1, <1>2, <1>3, <1>4, RelayerNumbers DEF ProcessOK, InRow, IsFilled, RelayerInv
  <1>6. ASSUME NEW id \in TradeIds, Waiting(id)
        PROVE  Lag(id)' <= Lag(id)
    <2>1. Left(id) = 0 /\ Left(id)' = 1
      BY <1>2, <1>3, <1>4, <1>6 DEF Left, Waiting, IsFilled
    <2>2. Lag(id) = relayer.clock - faults * MaxOutage /\ Lag(id)' = now - (faults + 1) * MaxOutage
      BY <1>1, <1>2, <1>4, <2>1 DEF Lag, Left
    <2>3. faults * MaxOutage \in Nat /\ (faults + 1) * MaxOutage = faults * MaxOutage + MaxOutage
      BY <1>4, RelayerNumbers, ProductNat
    <2> QED
      BY <1>4, <2>2, <2>3, RelayerNumbers
  <1> QED
    BY <1>1, <1>2, <1>3, <1>4, <1>5, <1>6, BetweenRows

\* Ends of ticks, crashes and restarts.
LEMMA TickOver ==
  ASSUME RelayerInv, UNCHANGED vars, IsRelayer', relayer'.pc \in {"idle", "down"},
         relayer'.rows = {}, relayer'.status = "None", relayer'.clock = relayer.clock,
         sent' = sent,
         \/ faults' = faults /\ relayer.rows = {}
         \/ faults' = faults + 1 /\ faults' <= MaxFaults
  PROVE  RelayerInv'
  <1>1. [MarketNext]_vars /\ now' = now /\ trades' = trades
    BY QuietIsMarketStep
  <1>2. /\ relayer.clock \in Nat /\ relayer.clock <= now /\ now <= relayer.clock + MaxOutage
        /\ faults \in Nat /\ faults <= MaxFaults
    BY RelayerNumbers DEF RelayerInv, ProcessOK
  <1>3. ProcessOK' /\ ~InRow'
    BY <1>1, <1>2, RelayerNumbers DEF ProcessOK, InRow
  <1>4. ASSUME NEW id
        PROVE  Lag(id)' <= Lag(id)
    <2>1. Left(id)' = 0 /\ Left(id) \in {0, 1} /\ (relayer.rows = {} => Left(id) = 0)
      BY DEF Left
    <2>2. faults + Left(id) <= faults' + Left(id)'
      BY <1>2, <2>1
    <2> QED
      BY <1>3, <2>2, LagKept DEF RelayerInv
  <1>5. relayer.clock <= relayer'.clock /\ relayer'.clock <= now
    BY <1>2
  <1> QED
    BY <1>1, <1>3, <1>4, <1>5, BetweenRows

\* A row goes on to its next call.
LEMMA RowGoesOn ==
  ASSUME RelayerInv, UNCHANGED vars, relayer.rows # {}, IsRelayer',
         relayer'.rows = relayer.rows, relayer'.clock = relayer.clock, faults' = faults, InRow',
         StatusOK', TxOK', SentOK'
  PROVE  RelayerInv'
  <1>1. [MarketNext]_vars /\ now' = now /\ trades' = trades
    BY QuietIsMarketStep
  <1>2. ChainInv'
    BY <1>1, ChainStep DEF RelayerInv
  <1>3. /\ relayer.clock \in Nat /\ relayer.clock <= now /\ now <= relayer.clock + MaxOutage
        /\ faults \in Nat /\ faults <= MaxFaults
    BY RelayerNumbers DEF RelayerInv, ProcessOK
  <1>4. ProcessOK'
    BY <1>1, <1>3 DEF ProcessOK, IsFilled, RelayerInv, InRow
  <1>5. \A id : Lag(id)' <= Lag(id)
    <2> TAKE id
    <2>1. Left(id)' = Left(id) /\ Left(id) \in Nat
      BY DEF Left
    <2>2. faults + Left(id) <= faults' + Left(id)'
      BY <1>3, <2>1
    <2> QED
      BY <1>4, <2>2, LagKept DEF RelayerInv
  <1>6. AllInTime'
    BY <1>1, <1>3, <1>4, <1>5, TimeKept
  <1> QED
    BY <1>2, <1>4, <1>6 DEF RelayerInv

LEMMA ReadTradeStep ==
  ASSUME RelayerInv, ReadTrade
  PROVE  RelayerInv'
  <1>1. /\ UNCHANGED vars /\ sent' = sent /\ faults' = faults /\ relayer.pc = "read"
        /\ relayer.rows # {}
    BY DEF ReadTrade
  <1>2. [MarketNext]_vars /\ now' = now /\ trades' = trades /\ \A id : Waiting(id)' <=> Waiting(id)
    BY <1>1, QuietIsMarketStep
  <1>3. Current \in TradeIds /\ IsFilled(Current)
    BY <1>1, CurrentIsRow DEF RelayerInv
  <1>4. CASE relayer' = NextRow /\ (Settled(Current) \/ NotYetWithdrawable(trades[Current]))
    <2>1. PICK row : row = Current
      OBVIOUS
    <2>2. ~Waiting(row)'
      BY <1>2, <1>4, <2>1 DEF Waiting, Settled, IsOpen, OpenStatus, NotYetWithdrawable
    <2>3. faults \in Nat /\ faults <= MaxFaults
      BY RelayerNumbers DEF RelayerInv, ProcessOK
    <2> QED
      BY <1>1, <1>2, <1>4, <2>1, <2>2, <2>3, RowDone
  <1>5. CASE relayer' = Sending("refundExpired", NoProof) /\ WindowOver(trades[Current])
    <2>1. /\ IsRelayer' /\ relayer'.pc = "send" /\ relayer'.rows = relayer.rows
          /\ relayer'.clock = relayer.clock /\ relayer'.status = relayer.status
          /\ relayer'.tx = [fn |-> "refundExpired", id |-> Current, state |-> NoProof]
      BY <1>5 DEF Sending, RelayerInv, ProcessOK, IsRelayer
    <2>2. InRow' /\ Current' = Current /\ relayer.status = "None"
      BY <1>1, <2>1 DEF InRow, Current, RelayerInv, StatusOK
    <2>3. StatusOK'
      BY <2>1, <2>2 DEF StatusOK
    <2>4. relayer'.clock > trades'[Current].filledAt + AcceptWindow
      BY <1>2, <1>5, <2>1 DEF WindowOver
    <2>5. TxOK'
      BY <2>1, <2>2, <2>4 DEF TxOK, TimedOut
    <2>6. SentOK'
      BY <1>1, <1>2, <2>1, SentKept DEF RelayerInv, ProcessOK
    <2> QED
      BY <1>1, <2>1, <2>2, <2>3, <2>5, <2>6, RowGoesOn
  <1>6. CASE relayer' = Fetching(trades[Current].status) /\ ~Settled(Current)
    <2>1. /\ IsRelayer' /\ relayer'.pc = "fetch" /\ relayer'.rows = relayer.rows
          /\ relayer'.clock = relayer.clock /\ relayer'.status = trades[Current].status
      BY <1>6 DEF Fetching, RelayerInv, ProcessOK, IsRelayer
    <2>2. InRow' /\ Current' = Current /\ TxOK'
      BY <2>1 DEF InRow, Current, TxOK
    <2>3. relayer'.status = "Accepted" =>
            trades'[Current].status # "RequestSubmitted" /\ trades'[Current].filledAt < now'
      BY <1>2, <1>3, <2>1 DEF RelayerInv, ChainInv, TradeFacts
    <2>4. StatusOK'
      BY <1>6, <2>1, <2>2, <2>3 DEF StatusOK, PastRequest, Settled, IsOpen
    <2>5. SentOK'
      BY <1>1, <1>2, <2>1, SentKept DEF RelayerInv, ProcessOK
    <2> QED
      BY <1>1, <2>1, <2>2, <2>4, <2>5, RowGoesOn
  <1> QED
    BY <1>4, <1>5, <1>6 DEF ReadTrade

\* What settleReal chooses, from the newest root: a call whose proof that root gives,
\* and none only where nothing waits or the fill is too young to be seen.
LEMMA ChosenCall ==
  ASSUME RelayerInv, relayer.pc = "fetch"
  PROVE  LET fn   == Choice(Current, NewestProvable)
             t    == trades[Current]
             head == NewestProvable
         IN /\ fn = "none" => ~Waiting(Current) \/ now <= t.filledAt
            /\ fn # "none" =>
                 /\ fn \in ProofCalls /\ StateAfterFill(t, head)
                 /\ relayer.status = IF fn \in {"proveAccepted", "proveNotAccepted"}
                                     THEN "RequestSubmitted" ELSE "Accepted"
                 /\ fn = "proveAccepted" => PairIsPending(t, head)
                 /\ fn = "proveNotAccepted" => RequestDequeued(t, head) /\ SourceNotExiting(t, head)
                 /\ fn = "proveFailed" => head.val[t.sourceIndex].slashed
  <1> DEFINE fn   == Choice(Current, NewestProvable)
             t    == trades[Current]
             head == NewestProvable
  <1>1. /\ Current \in TradeIds /\ IsFilled(Current) /\ InRow
        /\ relayer.status \in {"RequestSubmitted", "Accepted"}
    BY CurrentIsRow DEF RelayerInv, ProcessOK, InRow, StatusOK, OpenStatus
  <1>2. head \in roots /\ head.ts = now
    BY NewestIsHead DEF RelayerInv
  <1>3. t.filledAt \in Nat /\ now \in Nat
    BY <1>1, <1>2, ChainRoots, FilledIsTrade DEF RelayerInv, ChainInv, Trade, IsFilled
  <1>4. CASE relayer.status = "RequestSubmitted"
    <2>1. fn = Checkpoint1(t, head)
      BY <1>4 DEF Choice
    <2>2. ASSUME fn = "none", Waiting(Current)
          PROVE  now <= t.filledAt
      <3>1. PairIsPending(t, head)
        BY <1>1, <2>2, HeadShowsPair DEF RelayerInv, AllInTime
      <3>2. ~StateAfterFill(t, head)
        BY <2>1, <2>2, <3>1 DEF Checkpoint1, FindsPair
      <3> QED
        BY <1>2, <1>3, <3>2 DEF StateAfterFill
    <2> HIDE DEF head, t
    <2>3. fn # "none" =>
            /\ StateAfterFill(t, head)
            /\ \/ fn = "proveAccepted" /\ PairIsPending(t, head)
               \/ fn = "proveNotAccepted" /\ RequestDequeued(t, head) /\ SourceNotExiting(t, head)
      BY <2>1 DEF Checkpoint1, FindsPair, RequestDequeued, WaitedLongEnough
    <2> QED
      BY <1>4, <2>2, <2>3 DEF ProofCalls, head, t
  <1>5. CASE relayer.status = "Accepted"
    <2>1. PastRequest(Current)
      BY <1>1, <1>5 DEF RelayerInv, StatusOK
    <2>2. StateAfterFill(t, head)
      BY <1>2, <1>3, <2>1 DEF StateAfterFill, PastRequest
    <2>3. \/ fn = "proveFailed" /\ head.val[t.sourceIndex].slashed
          \/ fn = "proveDelivered"
      BY <1>5 DEF Choice, Checkpoint2
    <2> QED
      BY <1>5, <2>2, <2>3 DEF ProofCalls
  <1> QED
    BY <1>1, <1>4, <1>5

LEMMA FetchProofsStep ==
  ASSUME RelayerInv, FetchProofs
  PROVE  RelayerInv'
  <1>1. /\ UNCHANGED vars /\ sent' = sent /\ faults' = faults /\ relayer.pc = "fetch"
        /\ relayer.rows # {} /\ InRow
    BY DEF FetchProofs, RelayerInv, ProcessOK, InRow
  <1>2. /\ [MarketNext]_vars /\ now' = now /\ trades' = trades /\ roots' = roots
        /\ \A id : Waiting(id)' <=> Waiting(id)
    BY <1>1, QuietIsMarketStep DEF vars, beaconVars
  <1> DEFINE fn   == Choice(Current, NewestProvable)
             head == NewestProvable
  <1>3. CASE fn = "none"
    <2>1. PICK row : row = Current
      OBVIOUS
    <2>2. relayer' = NextRow
      BY <1>3 DEF FetchProofs
    <2>3. ~Waiting(row)' \/ now <= trades[row].filledAt
      BY <1>1, <1>2, <1>3, <2>1, ChosenCall
    <2>4. faults \in Nat /\ faults <= MaxFaults
      BY RelayerNumbers DEF RelayerInv, ProcessOK
    <2> QED
      BY <1>1, <1>2, <2>1, <2>2, <2>3, <2>4, RowDone
  <1>4. CASE fn # "none"
    <2>1. relayer' = Sending(fn, head)
      BY <1>4 DEF FetchProofs
    <2>2. /\ IsRelayer' /\ relayer'.pc = "send" /\ relayer'.rows = relayer.rows
          /\ relayer'.clock = relayer.clock /\ relayer'.status = relayer.status
          /\ relayer'.tx = [fn |-> fn, id |-> Current, state |-> head]
      <3> HIDE DEF fn, head
      <3> QED
        BY <2>1 DEF Sending, RelayerInv, ProcessOK, IsRelayer
    <2>3. InRow' /\ Current' = Current
      BY <2>2 DEF InRow, Current
    <2>4. StatusOK'
      <3>1. relayer.status = "Accepted" => PastRequest(Current)
        BY <1>1 DEF RelayerInv, StatusOK
      <3>2. relayer.status = "Accepted" =>
              trades'[Current].status # "RequestSubmitted" /\ trades'[Current].filledAt < now'
        BY <1>2, <3>1 DEF PastRequest
      <3> QED
        BY <2>2, <2>3, <3>2 DEF StatusOK, PastRequest
    <2>5. head \in roots /\ head.ts = now /\ relayer.clock <= now
      BY NewestIsHead DEF RelayerInv, ProcessOK
    <2> DEFINE t == trades[Current]
    <2>6. /\ fn \in ProofCalls /\ StateAfterFill(t, head)
          /\ relayer.status = IF fn \in {"proveAccepted", "proveNotAccepted"}
                              THEN "RequestSubmitted" ELSE "Accepted"
          /\ fn = "proveAccepted" => PairIsPending(t, head)
          /\ fn = "proveNotAccepted" => RequestDequeued(t, head) /\ SourceNotExiting(t, head)
          /\ fn = "proveFailed" => head.val[t.sourceIndex].slashed
      BY <1>1, <1>4, ChosenCall
    <2>7. TxOK'
      <3> HIDE DEF fn, head
      <3>1. fn # "refundExpired"
        BY <2>6 DEF ProofCalls
      <3>2. Proves(trades[Current], relayer.tx)'
        BY <1>2, <2>2, <2>3, <2>5, <2>6
           DEF Proves, StateAfterFill, PairIsPending, RequestDequeued, SourceNotExiting
      <3> QED
        BY <2>2, <2>3, <3>1, <3>2 DEF TxOK
    <2>8. SentOK'
      <3>1. relayer'.clock \in Nat /\ relayer.clock <= relayer'.clock
        BY <2>2 DEF RelayerInv, ProcessOK
      <3> QED
        BY <1>1, <1>2, <3>1, SentKept
    <2> QED
      BY <1>1, <2>2, <2>3, <2>4, <2>7, <2>8, RowGoesOn
  <1> QED
    BY <1>3, <1>4

\* A call for a trade that waits goes through.
LEMMA WaitingPasses ==
  ASSUME RelayerInv, relayer.pc \in {"send", "wait"}, Waiting(Current)
  PROVE  Passes(relayer.tx)
  <1> DEFINE tx == relayer.tx
             t  == trades[Current]
  <1>1. Current \in TradeIds /\ IsFilled(Current) /\ InRow /\ tx.id = Current
    BY CurrentIsRow DEF RelayerInv, ProcessOK, InRow, TxOK
  <1>2. t.status = "RequestSubmitted" /\ IsOpen(Current) /\ VerifySource(t)
    BY <1>1 DEF Waiting, IsOpen, OpenStatus, RelayerInv, ChainInv, TradeFacts
  <1>3. PaymentHeld(t)
    BY <1>1, <1>2, EscrowCovers DEF PaymentHeld, RelayerInv, ChainInv
  <1>4. CASE tx.fn = "refundExpired"
    <2>1. relayer.clock > t.filledAt + AcceptWindow
      BY <1>1, <1>4 DEF RelayerInv, TxOK, TimedOut
    <2>2. /\ relayer.clock <= now /\ relayer.clock \in Nat /\ now \in Nat /\ t.filledAt \in Nat
      BY <1>1, ChainRoots, FilledIsTrade DEF RelayerInv, ProcessOK, ChainInv, Trade, IsFilled
    <2>3. Expired(t)
      BY <1>2, <2>1, <2>2, RelayerNumbers DEF Expired
    <2> QED
      BY <1>1, <1>3, <1>4, <2>3 DEF Passes
  <1>5. CASE tx.fn # "refundExpired"
    <2>1. Proves(t, tx)
      BY <1>1, <1>5 DEF RelayerInv, TxOK
    <2>2. relayer.status # "Accepted"
      BY <1>1, <1>2 DEF RelayerInv, StatusOK, PastRequest
    <2>3. tx.fn \in {"proveAccepted", "proveNotAccepted"} /\ tx.state \in roots
      BY <2>1, <2>2 DEF Proves
    <2> QED
      BY <1>1, <1>2, <1>3, <2>1, <2>3 DEF Passes, Proves, ShowsAcceptance, ShowsNoAcceptance
  <1> QED
    BY <1>4, <1>5

LEMMA SendStep ==
  ASSUME RelayerInv, Send
  PROVE  RelayerInv'
  <1>1. /\ UNCHANGED vars /\ faults' = faults /\ relayer.pc = "send" /\ relayer.rows # {} /\ InRow
        /\ faults \in Nat /\ faults <= MaxFaults
    BY RelayerNumbers DEF Send, RelayerInv, ProcessOK, InRow
  <1>2. /\ [MarketNext]_vars /\ now' = now /\ trades' = trades /\ roots' = roots
        /\ \A id : Waiting(id)' <=> Waiting(id)
    BY <1>1, QuietIsMarketStep DEF vars, beaconVars
  <1>3. CASE ~Passes(relayer.tx)
    <2>1. PICK row : row = Current
      OBVIOUS
    <2>2. relayer' = NextRow /\ sent' = sent
      BY <1>3 DEF Send
    <2>3. ~Waiting(row)'
      BY <1>1, <1>2, <1>3, <2>1, WaitingPasses
    <2> QED
      BY <1>1, <1>2, <2>1, <2>2, <2>3, RowDone
  <1>4. CASE Passes(relayer.tx)
    <2>1. relayer' = [relayer EXCEPT !.pc = "wait"] /\ sent' = sent \cup {relayer.tx}
      BY <1>4 DEF Send
    <2>2. /\ IsRelayer' /\ relayer'.pc = "wait" /\ relayer'.rows = relayer.rows
          /\ relayer'.clock = relayer.clock /\ relayer'.status = relayer.status
          /\ relayer'.tx = relayer.tx
      BY <2>1 DEF RelayerInv, ProcessOK, IsRelayer
    <2>3. InRow' /\ Current' = Current
      BY <2>2 DEF InRow, Current
    <2>4. relayer.status = "Accepted" =>
            trades'[Current].status # "RequestSubmitted" /\ trades'[Current].filledAt < now'
      BY <1>1, <1>2 DEF RelayerInv, StatusOK, PastRequest
    <2>5. StatusOK'
      BY <2>2, <2>3, <2>4 DEF StatusOK, PastRequest
    <2>6. TxOK'
      <3> SUFFICES LET tx == relayer.tx
                   IN /\ tx.id = Current
                      /\ IF tx.fn = "refundExpired" THEN TimedOut(trades[tx.id])'
                         ELSE Proves(trades[tx.id], tx)'
        BY <2>2, <2>3 DEF TxOK
      <3> QED
        BY <1>1, <1>2, <2>2 DEF RelayerInv, TxOK, TimedOut, Proves, StateAfterFill, PairIsPending,
           RequestDequeued, SourceNotExiting
    <2>7. SentOK'
      <3>1. /\ relayer.tx.id \in TradeIds /\ IsFilled(relayer.tx.id)
            /\ relayer.tx.fn \in ProofCalls \/ relayer.tx.fn = "refundExpired"
            /\ relayer.tx.fn = "refundExpired" => TimedOut(trades[relayer.tx.id])
        BY <1>1, CurrentIsRow DEF RelayerInv, TxOK, Proves
      <3> QED
        BY <1>2, <2>1, <2>2, <3>1 DEF RelayerInv, SentOK, TimedOut, IsFilled
    <2> QED
      BY <1>1, <2>2, <2>3, <2>5, <2>6, <2>7, RowGoesOn
  <1> QED
    BY <1>3, <1>4

\* What a mined transaction does: the market's settlement, of its own trade.
LEMMA ExecuteSettles ==
  ASSUME TypeOK, NEW tx, tx.id \in TradeIds, tx.fn \in ProofCalls \/ tx.fn = "refundExpired",
         Execute(tx)
  PROVE  /\ SettleNext /\ UNCHANGED beaconVars
         /\ trades'[tx.id].status # "RequestSubmitted"
         /\ \A i \in TradeIds : i # tx.id => trades'[i] = trades[i]
         /\ trades'[tx.id].status = "Failed" =>
              \/ tx.fn = "refundExpired" /\ RefundExpired(tx.id)
              \/ /\ tx.fn = "proveNotAccepted" /\ tx.state \in roots
                 /\ ProveNotAccepted(tx.id, tx.state)
              \/ tx.fn = "proveFailed" /\ tx.state \in roots /\ ProveFailed(tx.id, tx.state)
  <1>1. CASE tx.fn = "refundExpired"
    <2>1. RefundExpired(tx.id)
      BY <1>1 DEF Execute
    <2>2. IsOpen(tx.id) /\ Close(tx.id, "Failed", trades[tx.id].buyer)
      BY <2>1 DEF RefundExpired, Expired, Fail, IsOpen, OpenStatus
    <2>3. /\ UNCHANGED beaconVars /\ trades'[tx.id].status = "Failed"
          /\ \A i \in TradeIds : i # tx.id => trades'[i] = trades[i]
      BY <2>2, CloseKeepsTerms
    <2> QED
      BY <1>1, <2>1, <2>3 DEF SettleNext
  <1>2. CASE tx.fn = "proveAccepted"
    <2>1. tx.state \in roots /\ ProveAccepted(tx.id, tx.state)
      BY <1>2 DEF Execute
    <2>2. /\ UNCHANGED beaconVars /\ trades'[tx.id].status = "Accepted"
          /\ \A i \in TradeIds : i # tx.id => trades'[i] = trades[i]
      BY <2>1, AcceptKeepsTerms
    <2> QED
      BY <2>1, <2>2 DEF SettleNext
  <1>3. CASE tx.fn = "proveNotAccepted"
    <2>1. tx.state \in roots /\ ProveNotAccepted(tx.id, tx.state)
      BY <1>3 DEF Execute
    <2>2. IsOpen(tx.id) /\ Close(tx.id, "Failed", trades[tx.id].buyer)
      BY <2>1 DEF ProveNotAccepted, ShowsNoAcceptance, Fail, IsOpen, OpenStatus
    <2>3. /\ UNCHANGED beaconVars /\ trades'[tx.id].status = "Failed"
          /\ \A i \in TradeIds : i # tx.id => trades'[i] = trades[i]
      BY <2>2, CloseKeepsTerms
    <2> QED
      BY <1>3, <2>1, <2>3 DEF SettleNext
  <1>4. CASE tx.fn = "proveDelivered"
    <2>1. tx.state \in roots /\ ProveDelivered(tx.id, tx.state)
      BY <1>4 DEF Execute
    <2>2. IsOpen(tx.id) /\ Close(tx.id, "Delivered", trades[tx.id].seller)
      BY <2>1 DEF ProveDelivered, ShowsDelivery, IsOpen, OpenStatus
    <2>3. /\ UNCHANGED beaconVars /\ trades'[tx.id].status = "Delivered"
          /\ \A i \in TradeIds : i # tx.id => trades'[i] = trades[i]
      BY <2>2, CloseKeepsTerms
    <2> QED
      BY <2>1, <2>3 DEF SettleNext
  <1>5. CASE tx.fn = "proveFailed"
    <2>1. tx.state \in roots /\ ProveFailed(tx.id, tx.state)
      BY <1>5 DEF Execute
    <2>2. IsOpen(tx.id) /\ Close(tx.id, "Failed", trades[tx.id].buyer)
      BY <2>1 DEF ProveFailed, ShowsSlashing, MayFail, Fail, IsOpen
    <2>3. /\ UNCHANGED beaconVars /\ trades'[tx.id].status = "Failed"
          /\ \A i \in TradeIds : i # tx.id => trades'[i] = trades[i]
      BY <2>2, CloseKeepsTerms
    <2> QED
      BY <1>5, <2>1, <2>3 DEF SettleNext
  <1> QED
    BY <1>1, <1>2, <1>3, <1>4, <1>5 DEF ProofCalls

LEMMA MineIsMarketStep ==
  ASSUME RelayerInv, NEW tx \in sent, Mine(tx)
  PROVE  /\ [MarketNext]_vars /\ now' = now /\ tx.id \in TradeIds
         /\ Passes(tx) => trades'[tx.id].status # "RequestSubmitted"
         /\ ~Passes(tx) => UNCHANGED vars
  <1>1. TypeOK /\ tx.id \in TradeIds /\ (tx.fn \in ProofCalls \/ tx.fn = "refundExpired")
    BY DEF RelayerInv, ChainInv, SentOK
  <1>2. CASE Passes(tx)
    <2>1. Execute(tx)
      BY <1>2 DEF Mine
    <2>2. SettleNext /\ UNCHANGED beaconVars /\ trades'[tx.id].status # "RequestSubmitted"
      BY <1>1, <2>1, ExecuteSettles
    <2> QED
      BY <1>1, <1>2, <2>2 DEF MarketNext, beaconVars
  <1>3. CASE ~Passes(tx)
    <2>1. UNCHANGED vars
      BY <1>3 DEF Mine
    <2> QED
      BY <1>1, <1>3, <2>1, QuietIsMarketStep
  <1> QED
    BY <1>2, <1>3

LEMMA MineStep ==
  ASSUME RelayerInv, NEW tx \in sent, Mine(tx)
  PROVE  RelayerInv'
  <1>1. sent' \subseteq sent /\ faults' = faults
    BY DEF Mine
  <1>2. /\ [MarketNext]_vars /\ now' = now /\ tx.id \in TradeIds
        /\ Passes(tx) => trades'[tx.id].status # "RequestSubmitted"
        /\ ~Passes(tx) => UNCHANGED vars
    BY MineIsMarketStep
  <1>3. now <= relayer.clock + MaxOutage /\ faults \in Nat /\ faults <= MaxFaults
    BY RelayerNumbers DEF RelayerInv, ProcessOK
  <1>4. CASE relayer.pc = "wait" /\ relayer.tx = tx
    <2>1. relayer' = NextRow /\ relayer.rows # {} /\ tx.id = Current
      BY <1>4 DEF Mine, RelayerInv, ProcessOK, InRow, TxOK
    <2>2. PICK row : row = Current
      OBVIOUS
    <2>3. ~Waiting(row)'
      <3>1. CASE Passes(tx)
        BY <1>2, <2>1, <2>2, <3>1 DEF Waiting
      <3>2. CASE ~Passes(tx)
        <4>1. Waiting(row)' <=> Waiting(row)
          BY <1>2, <3>2, QuietIsMarketStep
        <4> QED
          BY <1>4, <2>2, <3>2, <4>1, WaitingPasses
      <3> QED
        BY <3>1, <3>2
    <2> QED
      BY <1>1, <1>2, <1>3, <2>1, <2>2, <2>3, RowDone
  <1>5. CASE ~(relayer.pc = "wait" /\ relayer.tx = tx)
    <2>1. relayer' = relayer
      BY <1>5 DEF Mine
    <2> QED
      BY <1>1, <1>2, <1>3, <2>1, RowUntouched
  <1> QED
    BY <1>4, <1>5

LEMMA FaultStep ==
  ASSUME RelayerInv, FaultNext
  PROVE  RelayerInv'
  <1>1. faults' = faults + 1 /\ faults' <= MaxFaults /\ UNCHANGED vars /\ sent' = sent
        /\ faults \in Nat
    BY RelayerNumbers DEF FaultNext, CallFails, TickFails, Crash, Fault, RelayerInv, ProcessOK
  <1>2. [MarketNext]_vars /\ now' = now
    BY <1>1, QuietIsMarketStep
  <1>3. CASE CallFails
    <2>1. relayer.rows # {} /\ relayer' = NextRow
      BY <1>3 DEF CallFails, RelayerInv, ProcessOK, InRow
    <2>2. PICK row : row = Current
      OBVIOUS
    <2>3. faults' # faults
      BY <1>1
    <2> QED
      BY <1>1, <1>2, <2>1, <2>2, <2>3, RowDone
  <1>4. CASE TickFails
    <2>1. relayer.status = "None"
      BY <1>4 DEF TickFails, RelayerInv, StatusOK, InRow
    <2>2. /\ IsRelayer' /\ relayer'.pc = "idle" /\ relayer'.rows = {}
          /\ relayer'.status = "None" /\ relayer'.clock = relayer.clock
      BY <1>4, <2>1 DEF TickFails, RelayerInv, ProcessOK, IsRelayer
    <2> QED
      BY <1>1, <2>2, TickOver
  <1>5. CASE Crash
    <2>1. /\ IsRelayer' /\ relayer'.pc = "down" /\ relayer'.rows = {}
          /\ relayer'.status = "None" /\ relayer'.clock = relayer.clock
      BY <1>5 DEF Crash, RelayerInv, ProcessOK, IsRelayer
    <2> QED
      BY <1>1, <2>1, TickOver
  <1> QED
    BY <1>3, <1>4, <1>5 DEF FaultNext

LEMMA IdleStep ==
  ASSUME RelayerInv, EndTick \/ Restart
  PROVE  RelayerInv'
  <1>1. /\ UNCHANGED vars /\ sent' = sent /\ faults' = faults /\ relayer.rows = {}
        /\ relayer.status = "None"
    BY DEF EndTick, Restart, RelayerInv, ProcessOK, StatusOK, InRow
  <1>2. /\ IsRelayer' /\ relayer'.pc = "idle" /\ relayer'.rows = relayer.rows
        /\ relayer'.status = relayer.status /\ relayer'.clock = relayer.clock
    BY DEF EndTick, Restart, RelayerInv, ProcessOK, IsRelayer
  <1> QED
    BY <1>1, <1>2, TickOver

LEMMA OthersStep ==
  ASSUME RelayerInv, OthersNext
  PROVE  RelayerInv'
  <1>1. Next /\ UNCHANGED relayerVars /\ now' <= relayer.clock + MaxOutage
    BY DEF OthersNext, Next
  <1>2. [MarketNext]_vars
    BY <1>1, NextIsMarketNext
  <1> QED
    BY <1>1, <1>2, RowUntouched DEF relayerVars

LEMMA RelayerStart == RelayerInit => RelayerInv
  <1> SUFFICES ASSUME RelayerInit PROVE RelayerInv
    OBVIOUS
  <1>1. ChainInv
    BY ChainInit DEF RelayerInit
  <1>2. now \in Nat
    BY <1>1, ChainRoots
  <1>3. relayer = [pc |-> "idle", rows |-> {}, clock |-> now, status |-> "None", tx |-> NoTx]
        /\ sent = {} /\ faults = 0
    BY DEF RelayerInit
  <1>4. ProcessOK
    BY <1>2, <1>3, RelayerNumbers DEF ProcessOK, IsRelayer, InRow
  <1>5. StatusOK /\ TxOK /\ SentOK
    BY <1>3 DEF StatusOK, TxOK, SentOK, InRow
  <1>6. AllInTime
    <2>1. \A id \in TradeIds : trades[id].status = "None"
      BY DEF RelayerInit, Init, NoTrade
    <2> QED
      BY <2>1 DEF AllInTime, Waiting
  <1> QED
    BY <1>1, <1>4, <1>5, <1>6 DEF RelayerInv

LEMMA RelayerStep == RelayerInv /\ [RelayerNext]_allVars => RelayerInv'
  <1> SUFFICES ASSUME RelayerInv, [RelayerNext]_allVars PROVE RelayerInv'
    OBVIOUS
  <1>1. CASE TickNext
    BY <1>1, StartTickStep, ReadTradeStep, FetchProofsStep, SendStep, IdleStep DEF TickNext
  <1>2. CASE MineNext
    BY <1>2, MineStep DEF MineNext
  <1>3. CASE FaultNext
    BY <1>3, FaultStep
  <1>4. CASE Restart
    BY <1>4, IdleStep
  <1>5. CASE OthersNext
    BY <1>5, OthersStep
  <1>6. CASE UNCHANGED allVars
    <2>1. UNCHANGED vars /\ UNCHANGED relayerVars
      BY <1>6 DEF allVars
    <2>2. [MarketNext]_vars /\ now' = now
      BY <2>1, QuietIsMarketStep
    <2> QED
      BY <2>1, <2>2, RowUntouched DEF relayerVars, RelayerInv, ProcessOK
  <1> QED
    BY <1>1, <1>2, <1>3, <1>4, <1>5, <1>6 DEF RelayerNext

-----------------------------------------------------------------------------
(***************************************************************************)
(* The relayer is in time: as long as a pair the consensus layer accepted  *)
(* is not proven, the relayer is behind by no more than its faults and its *)
(* current tick cost it, since the pair was accepted.                      *)
(***************************************************************************)
THEOREM RelayerKept == RelayerSpec => []RelayerInv
  BY RelayerStart, RelayerStep, PTL DEF RelayerSpec

\* Whatever is settled by others meanwhile, what settleReal chose is what the market
\* asks for (simulateContract): the call goes through, or somebody else has settled.
LEMMA ChosenPasses ==
  ASSUME RelayerInv
  PROVE  ProofsPass
  <1> SUFFICES ASSUME relayer.pc = "send", relayer.tx.fn # "refundExpired",
                      trades[relayer.tx.id].status = relayer.status,
                      ~Undrained(relayer.tx)
               PROVE  Passes(relayer.tx)
    BY DEF ProofsPass
  <1> DEFINE tx == relayer.tx
             t  == trades[Current]
  <1>1. /\ Current \in TradeIds /\ IsFilled(Current) /\ tx.id = Current /\ Proves(t, tx)
    BY CurrentIsRow DEF RelayerInv, ProcessOK, InRow, TxOK
  <1>2. t.status \in OpenStatus /\ t.status = relayer.status
    BY <1>1 DEF Proves, OpenStatus
  <1>3. VerifySource(t) /\ PaymentHeld(t)
    BY <1>1, <1>2, EscrowCovers DEF PaymentHeld, RelayerInv, ChainInv, TradeFacts, IsOpen
  <1>4. tx.fn = "proveDelivered" => Processed(tx.state.val[t.sourceIndex], tx.state)
    BY <1>1 DEF Undrained
  <1> QED
    BY <1>1, <1>2, <1>3, <1>4 DEF Passes, Proves, ProofCalls, ShowsAcceptance, ShowsNoAcceptance,
       ShowsDelivery, ShowsSlashing, MayFail

(***************************************************************************)
(* What settleReal sends settles: between the choice and the call, only    *)
(* somebody else's settlement or a source left undrained can stop it; no   *)
(* root is overwritten and no condition of the market is stronger than the *)
(* relayer's.                                                              *)
(***************************************************************************)
THEOREM ChoicesPass == RelayerSpec => []ProofsPass
  BY RelayerKept, ChosenPasses, PTL

(***************************************************************************)
(* The relayer never refunds an accepted stake: none of its transactions,  *)
(* however long it waited to be mined, fails a trade whose own request the *)
(* consensus layer accepted, unless the source was slashed.                *)
(***************************************************************************)
THEOREM RelayerRefundsNoAccepted == RelayerSpec => AcceptedNotRefunded
  <1> DEFINE Sound ==
        \A id \in TradeIds :
          /\ sent' # sent
          /\ OwnRequestAccepted(id) /\ ~validators[trades[id].sourceIndex].slashed
          /\ IsOpen(id)
          => trades'[id].status # "Failed"
  <1>1. RelayerInv /\ [RelayerNext]_allVars => [Sound]_allVars
    <2> SUFFICES ASSUME RelayerInv, RelayerNext, NEW id \in TradeIds, sent' # sent,
                        OwnRequestAccepted(id), ~validators[trades[id].sourceIndex].slashed,
                        IsOpen(id), trades'[id].status = "Failed"
                 PROVE  FALSE
      OBVIOUS
    <2>1. trades' # trades
      BY DEF IsOpen, OpenStatus
    <2>2. PICK tx \in sent : Mine(tx)
      BY <2>1 DEF RelayerNext, TickNext, StartTick, ReadTrade, FetchProofs, Send, EndTick, MineNext,
         FaultNext, CallFails, TickFails, Crash, Restart, OthersNext, vars, tradeVars, relayerVars
    <2>3. Passes(tx) /\ Execute(tx)
      BY <2>1, <2>2 DEF Mine, vars, tradeVars
    <2>4. TypeOK /\ tx.id \in TradeIds /\ (tx.fn \in ProofCalls \/ tx.fn = "refundExpired")
      BY DEF RelayerInv, ChainInv, SentOK
    <2>5. id = tx.id
      BY <2>3, <2>4, ExecuteSettles DEF IsOpen, OpenStatus
    <2>6. \/ tx.fn = "refundExpired" /\ RefundExpired(id)
          \/ tx.state \in roots /\ ProveNotAccepted(id, tx.state)
          \/ tx.state \in roots /\ ProveFailed(id, tx.state)
      BY <2>3, <2>4, <2>5, ExecuteSettles
    <2>7. /\ trades[id] \in Trade /\ trades[id].sourceIndex \in Validators
          /\ trades[id].filledAt \in Nat
      BY <2>4, FilledIsTrade, OpenIsFilled DEF IsFilled, Trade
    <2>8. CASE tx.fn = "refundExpired" /\ RefundExpired(id)
      <3>1. Waiting(id)
        BY <2>8 DEF Waiting, OwnRequestAccepted, RefundExpired, Expired
      <3>2. Lag(id) <= trades[id].filledAt + DequeueDelay
        BY <3>1 DEF RelayerInv, AllInTime, InTime
      <3>3. relayer.clock > trades[id].filledAt + AcceptWindow
        BY <2>5, <2>8 DEF RelayerInv, SentOK, TimedOut
      <3>4. /\ Lag(id) \in Int /\ relayer.clock <= Lag(id) + (MaxFaults + 1) * MaxOutage
            /\ relayer.clock \in Nat
        <4>1. now \in Nat /\ ProcessOK
          BY ChainRoots DEF RelayerInv
        <4> QED
          BY <4>1, LagBounds DEF ProcessOK
      <3> DEFINE z == (MaxFaults + 1) * MaxOutage
      <3>5. z \in Nat /\ DequeueDelay + z <= AcceptWindow
        BY RelayerNumbers, ProductNat, RelayerBackInTime
      <3> HIDE DEF z
      <3>6. relayer.clock <= Lag(id) + z
        BY <3>4 DEF z
      <3> QED
        BY <2>7, <3>2, <3>3, <3>4, <3>5, <3>6, RelayerNumbers
    <2>9. CASE tx.state \in roots /\ ProveNotAccepted(id, tx.state)
      <3>1. SeenAfterDelay(id)
        BY DEF RelayerInv, ChainInv, SettlementInv, TermsInv, AcceptanceShown
      <3> QED
        BY <2>9, <3>1 DEF ProveNotAccepted, ShowsNoAcceptance, RequestDequeued, SourceNotExiting,
           SeenAfterDelay
    <2>10. CASE tx.state \in roots /\ ProveFailed(id, tx.state)
      <3>1. RootPast(tx.state)
        BY <2>10, ChainRoots DEF RelayerInv
      <3> QED
        BY <2>7, <2>10, <3>1 DEF ProveFailed, ShowsSlashing, RootPast
    <2> QED
      BY <2>6, <2>8, <2>9, <2>10
  <1> QED
    BY <1>1, RelayerKept, PTL DEF RelayerSpec, AcceptedNotRefunded

(***************************************************************************)
(* The relayer passes over no proof: it leaves a row whose acceptance is   *)
(* not proven yet, without a fault, only if no root of the ring proves it. *)
(***************************************************************************)
THEOREM RelayerPassesOverNoProof == RelayerSpec => RelaysProvableAcceptance
  <1> DEFINE Sound ==
        \A id \in TradeIds :
          Unproven(id) /\ ~validators[trades[id].sourceIndex].slashed => ~CanProveAccepted(id)
  <1>1. RelayerInv /\ [RelayerNext]_allVars => [Sound]_allVars
    <2> SUFFICES ASSUME RelayerInv, RelayerNext, NEW id \in TradeIds,
                        Unproven(id), ~validators[trades[id].sourceIndex].slashed,
                        CanProveAccepted(id)
                 PROVE  FALSE
      OBVIOUS
    <2> DEFINE t == trades[id]
    <2>1. /\ t.status = "RequestSubmitted" /\ relayer.pc = "fetch" /\ Current = id
          /\ relayer'.pc = "read" /\ faults' = faults
      BY DEF Unproven
    <2>2. FetchProofs
      <3>1. ~FaultNext
        <4>1. faults \in Nat
          BY RelayerNumbers DEF RelayerInv, ProcessOK
        <4> QED
          BY <2>1, <4>1 DEF FaultNext, CallFails, TickFails, Crash, Fault
      <3>2. relayer' # relayer
        BY <2>1
      <3> QED
        BY <2>1, <3>1, <3>2 DEF RelayerNext, TickNext, StartTick, ReadTrade, Send, EndTick,
           MineNext, Mine, Restart, OthersNext, relayerVars
    <2>3. PICK state \in roots : StateAfterFill(t, state) /\ PairIsPending(t, state)
      BY DEF CanProveAccepted
    <2>4. t \in Trade /\ t.sourceIndex \in Validators /\ t.filledAt \in Nat
      BY <2>1, FilledIsTrade DEF RelayerInv, ChainInv, Trade
    <2>5. /\ RootPast(state) /\ state.ts \in Nat /\ state.ts <= now /\ now \in Nat
      BY ChainRoots DEF RelayerInv
    <2>6. Waiting(id)
      BY <2>1, <2>3, <2>5 DEF Waiting, RootPast, PairIsPending
    <2>7. now > t.filledAt
      BY <2>3, <2>4, <2>5 DEF StateAfterFill
    <2>8. Choice(Current, NewestProvable) = "none"
      <3> SUFFICES ASSUME Choice(Current, NewestProvable) # "none" PROVE FALSE
        OBVIOUS
      <3>1. relayer' = Sending(Choice(Current, NewestProvable), NewestProvable)
        BY <2>2 DEF FetchProofs
      <3>2. relayer'.pc = "send"
        BY <3>1 DEF Sending, RelayerInv, ProcessOK, IsRelayer
      <3> QED
        BY <2>1, <3>2
    <2>9. ~Waiting(id) \/ now <= t.filledAt
      BY <2>1, <2>8, ChosenCall
    <2> QED
      BY <2>4, <2>5, <2>6, <2>7, <2>9
  <1> QED
    BY <1>1, RelayerKept, PTL DEF RelayerSpec, RelaysProvableAcceptance

=============================================================================
