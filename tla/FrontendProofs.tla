--------------------------- MODULE FrontendProofs ---------------------------
(***************************************************************************)
(* What the pages tell their users is so, for every value of the           *)
(* constants and whatever happens between a click, the transactions it     *)
(* sends and their receipts; and the market's guarantees hold beneath the  *)
(* pages.                                                                  *)
(***************************************************************************)
EXTENDS Frontend, PurchaseProofs

(***************************************************************************)
(* Jobs                                                                    *)
(***************************************************************************)
IsJob(j) ==
  j = [step |-> j.step, todo |-> j.todo, page |-> j.page, item |-> j.item, kind |-> j.kind,
       quote |-> j.quote, state |-> j.state, shown |-> j.shown]

LEMMA NewJob ==
  ASSUME NEW step, NEW page, NEW item, NEW kind, NEW quote, NEW state
  PROVE  LET j == Job(step, page, item, kind, quote, state)
         IN /\ IsJob(j) /\ j.step = step /\ j.todo = <<>> /\ j.page = page /\ j.item = item
            /\ j.kind = kind /\ j.quote = quote /\ j.state = state
  BY DEF Job, IsJob

LEMMA StepOfJob ==
  ASSUME NEW j, IsJob(j), NEW step
  PROVE  LET e == [j EXCEPT !.step = step]
         IN /\ IsJob(e) /\ e.step = step /\ e.todo = j.todo /\ e.page = j.page
            /\ e.item = j.item /\ e.kind = j.kind /\ e.quote = j.quote /\ e.state = j.state
  BY DEF IsJob

LEMMA TodoOfJob ==
  ASSUME NEW j, IsJob(j), NEW todo
  PROVE  LET e == [j EXCEPT !.todo = todo]
         IN /\ IsJob(e) /\ e.step = j.step /\ e.todo = todo /\ e.page = j.page
            /\ e.item = j.item /\ e.kind = j.kind /\ e.quote = j.quote /\ e.state = j.state
  BY DEF IsJob

LEMMA StateOfJob ==
  ASSUME NEW j, IsJob(j), NEW state
  PROVE  LET e == [j EXCEPT !.state = state]
         IN /\ IsJob(e) /\ e.step = j.step /\ e.todo = j.todo /\ e.page = j.page
            /\ e.item = j.item /\ e.kind = j.kind /\ e.quote = j.quote /\ e.state = state
  BY DEF IsJob

LEMMA ShownOfJob ==
  ASSUME NEW j, IsJob(j), NEW shown
  PROVE  LET e == [j EXCEPT !.shown = shown]
         IN /\ IsJob(e) /\ e.step = j.step /\ e.todo = j.todo /\ e.page = j.page
            /\ e.item = j.item /\ e.kind = j.kind /\ e.quote = j.quote /\ e.state = j.state
            /\ e.shown = shown
  BY DEF IsJob

\* The next step of a click, or its end.
LEMMA Advances ==
  ASSUME NEW j, IsJob(j)
  PROVE  LET e == Advance(j)
         IN /\ IsJob(e) /\ e.page = j.page /\ e.item = j.item /\ e.kind = j.kind
            /\ e.quote = j.quote
            /\ IF Len(j.todo) = 1 THEN e.step = "done" /\ e.todo = <<>>
               ELSE e.step = "busy" /\ e.todo = Tail(j.todo)
  <1>1. CASE Len(j.todo) = 1
    <2> DEFINE a == [j EXCEPT !.step = "done"]
               b == [a EXCEPT !.todo = <<>>]
               c == [b EXCEPT !.state = 0]
    <2>1. Advance(j) = c
      BY <1>1 DEF Advance
    <2>2. /\ IsJob(a) /\ a.step = "done" /\ a.page = j.page /\ a.item = j.item
          /\ a.kind = j.kind /\ a.quote = j.quote
      BY StepOfJob
    <2> HIDE DEF a
    <2>3. /\ IsJob(b) /\ b.step = "done" /\ b.todo = <<>> /\ b.page = j.page /\ b.item = j.item
          /\ b.kind = j.kind /\ b.quote = j.quote
      BY <2>2, TodoOfJob
    <2> HIDE DEF b
    <2>4. /\ IsJob(c) /\ c.step = "done" /\ c.todo = <<>> /\ c.page = j.page /\ c.item = j.item
          /\ c.kind = j.kind /\ c.quote = j.quote
      BY <2>3, StateOfJob
    <2> QED
      BY <1>1, <2>1, <2>4
  <1>2. CASE Len(j.todo) # 1
    <2> DEFINE a == [j EXCEPT !.step = "busy"]
               b == [a EXCEPT !.todo = Tail(j.todo)]
    <2>1. Advance(j) = b
      BY <1>2 DEF Advance
    <2>2. /\ IsJob(a) /\ a.step = "busy" /\ a.page = j.page /\ a.item = j.item
          /\ a.kind = j.kind /\ a.quote = j.quote
      BY StepOfJob
    <2> HIDE DEF a
    <2>3. /\ IsJob(b) /\ b.step = "busy" /\ b.todo = Tail(j.todo) /\ b.page = j.page
          /\ b.item = j.item /\ b.kind = j.kind /\ b.quote = j.quote
      BY <2>2, TodoOfJob
    <2> QED
      BY <1>2, <2>1, <2>3
  <1> QED
    BY <1>1, <1>2

(***************************************************************************)
(* Buttons and the writes behind them                                      *)
(***************************************************************************)
Kinds == Buys \cup {"ship", "dock", "delegate", "list", "accept", "deliver", "refund"}

\* What is left to do of a click.
ApproveLeft  == <<"approve", "send">>
DelegateLeft == <<"delegate">>
SendLeft     == <<"send">>
ReadLeft     == <<"read">>

Plans(kind) ==
  CASE kind = "weth" -> {WethPurchase, UsdcPurchase, EthPurchase, ReadLeft}
    [] kind = "usdc" -> {UsdcPurchase, EthPurchase, ReadLeft}
    [] kind \in {"eth", "match"} -> {EthPurchase, ReadLeft}
    [] kind = "ship" -> {BidCreation, ApproveLeft, SendLeft}
    [] kind = "delegate" -> {DelegateLeft}
    [] kind = "list" -> {DemoListing, SendLeft}
    [] OTHER -> {SendLeft}

LEMMA PlanWords ==
  /\ Head(WethPurchase) = "wrap" /\ Tail(WethPurchase) = UsdcPurchase /\ Len(WethPurchase) = 4
  /\ Head(UsdcPurchase) = "approve" /\ Tail(UsdcPurchase) = EthPurchase /\ Len(UsdcPurchase) = 3
  /\ Head(EthPurchase) = "send" /\ Tail(EthPurchase) = ReadLeft /\ Len(EthPurchase) = 2
  /\ Head(ReadLeft) = "read" /\ Len(ReadLeft) = 1
  /\ Head(BidCreation) = "wrap" /\ Tail(BidCreation) = ApproveLeft /\ Len(BidCreation) = 3
  /\ Head(ApproveLeft) = "approve" /\ Tail(ApproveLeft) = SendLeft /\ Len(ApproveLeft) = 2
  /\ Head(DemoListing) = "delegate" /\ Tail(DemoListing) = SendLeft /\ Len(DemoListing) = 2
  /\ Head(SendLeft) = "send" /\ Len(SendLeft) = 1
  /\ Head(DelegateLeft) = "delegate" /\ Len(DelegateLeft) = 1
  BY DEF WethPurchase, UsdcPurchase, EthPurchase, ReadLeft, BidCreation, ApproveLeft, DemoListing,
     SendLeft, DelegateLeft

LEMMA ClicksPlan ==
  ASSUME NEW kind \in Kinds, NEW page
  PROVE  StepsOf(page, kind) \in Plans(kind) /\ StepsOf(page, kind) # ReadLeft
  <1>1. BidMatch = EthPurchase
    BY DEF BidMatch, EthPurchase
  <1>2. StepsOf(page, kind) \in {EthPurchase, WethPurchase, UsdcPurchase, BidCreation,
                               DemoListing, DelegateLeft, SendLeft}
    BY <1>1 DEF StepsOf, DelegateLeft, SendLeft
  <1>3. StepsOf(page, kind) \in Plans(kind)
    BY <1>1 DEF Kinds, Buys, StepsOf, Plans, DelegateLeft, SendLeft
  <1> QED
    BY <1>2, <1>3, PlanWords

\* A purchase ends with reading the trade it has sent for.
LEMMA PlanFacts ==
  ASSUME NEW kind \in Kinds, NEW todo \in Plans(kind)
  PROVE  /\ Head(todo) \in {"wrap", "approve", "delegate", "send", "read"}
         /\ Head(todo) = "wrap" => kind \in {"weth", "ship"}
         /\ Head(todo) = "delegate" => kind \in {"delegate", "list"}
         /\ Head(todo) = "send" => kind # "delegate"
         /\ Head(todo) = "read" => todo = ReadLeft /\ Len(todo) = 1
         /\ todo = ReadLeft => Head(todo) = "read" /\ kind \in Buys
         /\ Len(todo) # 1 =>
              /\ Tail(todo) \in Plans(kind)
              /\ Tail(todo) = ReadLeft => Head(todo) = "send"
         /\ Len(todo) = 1 => IF kind \in Buys THEN todo = ReadLeft
                             ELSE kind \in {"accept", "deliver"} => Head(todo) = "send"
         /\ kind \in Buys /\ Head(todo) = "send" => Len(todo) # 1 /\ Tail(todo) = ReadLeft
  <1> DEFINE h == Head(todo)
             t == Tail(todo)
             l == Len(todo)
  <1>0. SUFFICES /\ h \in {"wrap", "approve", "delegate", "send", "read"}
                 /\ h = "wrap" => kind \in {"weth", "ship"}
                 /\ h = "delegate" => kind \in {"delegate", "list"}
                 /\ h = "send" => kind # "delegate"
                 /\ h = "read" => todo = ReadLeft /\ l = 1
                 /\ todo = ReadLeft => h = "read" /\ kind \in Buys
                 /\ l # 1 => t \in Plans(kind) /\ (t = ReadLeft => h = "send")
                 /\ l = 1 => IF kind \in Buys THEN todo = ReadLeft
                             ELSE kind \in {"accept", "deliver"} => h = "send"
                 /\ kind \in Buys /\ h = "send" => l # 1 /\ t = ReadLeft
    OBVIOUS
  <1>1. ReadLeft \notin {WethPurchase, UsdcPurchase, EthPurchase, BidCreation, ApproveLeft,
                         DemoListing, SendLeft, DelegateLeft}
    BY PlanWords
  <1>2. CASE kind \in {"weth", "usdc", "eth", "match"}
    <2>1. PICK rest \in Plans(kind) \cup {todo} :
            \/ todo = WethPurchase /\ rest = UsdcPurchase /\ kind = "weth"
            \/ todo = UsdcPurchase /\ rest = EthPurchase
            \/ todo = EthPurchase /\ rest = ReadLeft
            \/ todo = ReadLeft
      BY <1>2 DEF Plans
    <2>2. /\ todo = WethPurchase => h = "wrap" /\ t = UsdcPurchase /\ l = 4
          /\ todo = UsdcPurchase => h = "approve" /\ t = EthPurchase /\ l = 3
          /\ todo = EthPurchase => h = "send" /\ t = ReadLeft /\ l = 2
          /\ todo = ReadLeft => h = "read" /\ l = 1
      BY PlanWords, Zenon
    <2> HIDE DEF h, t, l
    <2>3. kind \in Buys
      BY <1>2 DEF Buys
    <2> QED
      BY <1>1, <1>2, <2>1, <2>2, <2>3
  <1>3. CASE kind = "ship"
    <2>1. Plans(kind) = {BidCreation, ApproveLeft, SendLeft}
      BY <1>3 DEF Plans
    <2>2. /\ todo = BidCreation => h = "wrap" /\ t = ApproveLeft /\ l = 3
          /\ todo = ApproveLeft => h = "approve" /\ t = SendLeft /\ l = 2
          /\ todo = SendLeft => h = "send" /\ l = 1
      BY PlanWords, Zenon
    <2> HIDE DEF h, t, l
    <2> QED
      BY <1>1, <1>3, <2>1, <2>2 DEF Buys
  <1>4. CASE kind \in {"delegate", "list"}
    <2>1. /\ kind = "delegate" => todo = DelegateLeft
          /\ kind = "list" => todo \in {DemoListing, SendLeft} /\ SendLeft \in Plans(kind)
      BY <1>4 DEF Plans
    <2>2. /\ todo = DelegateLeft => h = "delegate" /\ l = 1
          /\ todo = DemoListing => h = "delegate" /\ t = SendLeft /\ l = 2
          /\ todo = SendLeft => h = "send" /\ l = 1
      BY PlanWords, Zenon
    <2> HIDE DEF h, t, l
    <2> QED
      BY <1>1, <1>4, <2>1, <2>2 DEF Buys
  <1>5. CASE kind \in {"dock", "accept", "deliver", "refund"}
    <2>1. todo = SendLeft
      BY <1>5 DEF Plans
    <2>2. h = "send" /\ l = 1
      BY <2>1, PlanWords, Zenon
    <2> HIDE DEF h, t, l
    <2> QED
      BY <1>1, <1>5, <2>1, <2>2 DEF Buys
  <1> QED
    BY <1>2, <1>3, <1>4, <1>5 DEF Kinds, Buys

\* Which page offers a button, and when.
LEMMA ButtonFacts ==
  ASSUME NEW j, NEW kind \in Buttons(j)
  PROVE  /\ kind \in Kinds /\ kind # "none"
         /\ kind = "weth" => j.page = "buy"
         /\ kind \in {"eth", "usdc"} => j.page = "buy" \/ (j.page = "demo" /\ j.item.at = 1)
         /\ kind = "match" => j.page = "match"
         /\ kind = "ship" => j.page = "ship"
         /\ kind = "dock" => j.page = "dock"
         /\ kind = "delegate" => j.page = "sell"
         /\ kind = "list" => j.page = "sell" \/ (j.page = "demo" /\ j.item.at = 0)
         /\ kind = "accept" =>
              \/ j.page = "trade" /\ j.item.status # "None"
              \/ j.page = "demo" /\ j.item.at = 2
         /\ kind = "deliver" =>
              \/ j.page = "trade" /\ j.item.status # "None"
              \/ j.page = "demo" /\ j.item.at = 3
         /\ kind = "refund" => j.page = "trade" /\ j.item.status # "None"
  <1>1. CASE j.page = "buy"
    BY <1>1 DEF Buttons, BuyButtons, Kinds, Buys
  <1>2. CASE j.page = "sell"
    BY <1>2 DEF Buttons, SellButtons, Kinds, Buys
  <1>3. CASE j.page = "trade"
    BY <1>3 DEF Buttons, TradeButtons, Kinds, Buys
  <1>4. CASE j.page = "demo"
    BY <1>4 DEF Buttons, DemoButtons, Kinds, Buys
  <1>5. CASE j.page \notin {"buy", "sell", "trade", "demo"}
    BY <1>5 DEF Buttons, Kinds, Buys
  <1> QED
    BY <1>1, <1>2, <1>3, <1>4, <1>5

(***************************************************************************)
(* The market beneath the pages                                            *)
(***************************************************************************)
\* Every number below the next one has been given out.
NoGaps == \A id \in TradeIds : id < nextTradeId => IsFilled(id)

MarketInv == TypeOK /\ SettlementInv /\ BacksTrades /\ NoGaps /\ HeadInRing

\* An account wraps ether.
Wraps ==
  /\ \E u \in Accounts, amount \in Nat : weth' = [weth EXCEPT ![u] = @ + amount]
  /\ UNCHANGED <<nextTradeId, trades, nonceUsed, activeTradeBySource,
                 beaconVars, orderVars, eligibilityVars>>

MarketStep == [MarketNext]_vars \/ Wraps

LEMMA NumbersKept ==
  ASSUME [MarketNext]_vars
  PROVE  AnyFill \/ nextTradeId' = nextTradeId
  <1>1. CASE AnyOffer \/ AnyAttest \/ UNCHANGED vars
    BY <1>1 DEF AnyOffer, ListOrder, ListOrderWithPolicy, CancelOrder, UseNonce,
       SetDelegation, AnyAttest, Attest, tradeVars, vars
  <1>2. CASE SettleNext
    BY <1>2 DEF SettleNext, ProveAccepted, ProveDelivered, ProveNotAccepted, ProveFailed,
       RefundExpired, Fail, Close
  <1>3. CASE BeaconNext
    BY <1>3 DEF BeaconNext, tradeVars
  <1> QED
    BY <1>1, <1>2, <1>3 DEF MarketNext

LEMMA WrapsKeepsPast ==
  ASSUME TypeOK, Wraps
  PROVE  PastKept
  BY QuietKeepsPast DEF Wraps, beaconVars

LEMMA StepKeepsPast ==
  ASSUME MarketInv, MarketStep
  PROVE  PastKept
  BY MarketKeepsPast, WrapsKeepsPast DEF MarketInv, MarketStep, SettlementInv

LEMMA NoGapsStep ==
  ASSUME MarketInv, MarketStep
  PROVE  NoGaps'
  <1>1. PastKept
    BY StepKeepsPast
  <1>2. CASE nextTradeId' = nextTradeId
    BY <1>1, <1>2 DEF MarketInv, NoGaps, PastKept, TradeKept, IsFilled
  <1>3. CASE AnyFill
    <2>1. PICK o \in Orders, target \in Validators, state \in roots, buyer \in Accounts :
            \E payment : FillFor(o, target, state, buyer, payment)
      BY <1>3 DEF AnyFill
    <2>2. PICK payment : FillFor(o, target, state, buyer, payment)
      BY <2>1
    <2>3. /\ nextTradeId \in Nat /\ nextTradeId' = nextTradeId + 1
          /\ trades'[nextTradeId].status = "RequestSubmitted"
      BY <2>2, FillFacts DEF MarketInv
    <2>4. ASSUME NEW id \in TradeIds, id < nextTradeId' PROVE IsFilled(id)'
      <3>1. id \in Int
        BY DEF TradeIds
      <3>2. id < nextTradeId \/ id = nextTradeId
        BY <2>3, <2>4, <3>1
      <3>3. CASE id < nextTradeId
        BY <1>1, <3>3 DEF MarketInv, NoGaps, PastKept, TradeKept, IsFilled
      <3>4. CASE id = nextTradeId
        BY <2>3, <3>4 DEF IsFilled
      <3> QED
        BY <3>2, <3>3, <3>4
    <2> QED
      BY <2>4 DEF NoGaps
  <1> QED
    BY <1>2, <1>3, NumbersKept DEF MarketStep, Wraps

LEMMA HeadInRingStep ==
  ASSUME HeadInRing, MarketStep
  PROVE  HeadInRing'
  BY HeadKept DEF MarketStep, Wraps, beaconVars, HeadInRing

LEMMA WrapsKeepsMarket ==
  ASSUME MarketInv, Wraps
  PROVE  TypeOK' /\ SettlementInv' /\ BacksTrades'
  <1>1. PICK u \in Accounts, amount \in Nat : weth' = [weth EXCEPT ![u] = @ + amount]
    BY DEF Wraps
  <1>2. weth \in [Holders -> Nat] /\ u \in Holders /\ u # Market /\ Market \in Holders
    BY MarketConstants DEF MarketInv, TypeOK, Holders
  <1>3. weth' \in [Holders -> Nat] /\ weth'[Market] = weth[Market]
    BY <1>1, <1>2
  <1>4. TypeOK'
    <2>1. MarketTypeOK'
      BY <1>3 DEF MarketInv, Wraps, TypeOK, MarketTypeOK
    <2>2. BeaconTypeOK' /\ Policy!EligibilityTypeOK' /\ OrdersTypeOK'
      BY DEF MarketInv, Wraps, TypeOK, beaconVars, orderVars, eligibilityVars, BeaconTypeOK,
             Policy!EligibilityTypeOK, OrdersTypeOK
    <2> QED
      BY <2>1, <2>2 DEF TypeOK, MarketTypeOK, OrdersTypeOK
  <1>5. SettlementInv'
    <2>1. UNCHANGED <<beaconVars, trades, nextTradeId, nonceUsed, activeTradeBySource>>
      BY DEF Wraps
    <2>2. ConsensusInv'
      BY <2>1, RequestsKeepConsensus DEF MarketInv, SettlementInv, beaconVars
    <2>3. SaleInv'
      BY <2>1 DEF MarketInv, SettlementInv, SaleInv, FreshIds, SourceLock, NonceFilledOnce,
         IsOpen, IsFilled
    <2>4. SameTerms
      BY <2>1 DEF SameTerms, IsFilled
    <2>5. TermsInv'
      BY <2>1, <2>4, SettleKeepsTerms DEF MarketInv, SettlementInv
    <2>6. OutcomeInv'
      BY <2>1 DEF MarketInv, SettlementInv, OutcomeInv, AcceptedTrades, DeliveredStakeMoved,
         RefundKillsRequest, WithStatus, beaconVars
    <2> QED
      BY <2>2, <2>3, <2>5, <2>6 DEF SettlementInv
  <1>6. BacksTrades'
    <2>1. trades' = trades
      BY DEF Wraps
    <2> QED
      BY <1>3, <2>1, BooksKept DEF MarketInv, BacksTrades
  <1> QED
    BY <1>4, <1>5, <1>6

LEMMA MarketInvStep ==
  ASSUME MarketInv, MarketStep
  PROVE  MarketInv'
  <1>1. NoGaps' /\ HeadInRing'
    BY NoGapsStep, HeadInRingStep DEF MarketInv
  <1>2. CASE [MarketNext]_vars
    <2>1. TypeOK'
      BY <1>2, StepType DEF MarketInv
    <2>2. SettlementInv'
      BY <1>2, SettlementStep DEF MarketInv
    <2>3. BacksTrades'
      BY <1>2, BacksTradesStep DEF MarketInv, SettlementInv
    <2> QED
      BY <1>1, <2>1, <2>2, <2>3 DEF MarketInv
  <1>3. CASE Wraps
    BY <1>1, <1>3, WrapsKeepsMarket DEF MarketInv
  <1> QED
    BY <1>2, <1>3 DEF MarketStep

LEMMA MarketInvInit == Init => MarketInv
  <1> SUFFICES ASSUME Init PROVE MarketInv
    OBVIOUS
  <1>1. NoGaps
    BY DEF Init, NoGaps, TradeIds
  <1>2. HeadInRing
    BY DEF Init, BeaconInit, SnapshotAt, HeadInRing
  <1> QED
    BY <1>1, <1>2, InitType, SettlementInit, BacksTradesInit DEF MarketInv

(***************************************************************************)
(* Transactions                                                            *)
(***************************************************************************)
\* What a transaction is about, and the number an ether purchase was quoted.
ItemFor(kind, item, quote) ==
  /\ kind \in BuyButtons => item.o \in Orders /\ item.target \in Validators
  /\ kind \in {"eth", "weth"} => quote \in Nat
  /\ kind = "match" => item.o \in Orders /\ item.bid \in Bids
  /\ kind = "list" => item.o \in Orders
  /\ kind \in {"accept", "deliver", "refund"} => item.id \in TradeIds

TxOK(tx) ==
  \/ tx.fn = "approve"
  \/ tx.fn = "deposit" /\ tx.amount \in Nat
  \/ tx.fn = "delegate" /\ tx.seller \in Sellers
  \/ tx.fn \in Kinds \ {"delegate"} /\ ItemFor(tx.fn, tx.item, tx.quote)

\* The trade a purchase opens is the one its page is about.
TermsOf(u, id, kind, item, quote) ==
  /\ trades[id].sourceIndex = item.o.sourceIndex
  /\ IF kind = "match" THEN trades[id].buyer = item.bid.maker /\ trades[id].targetIndex = item.bid.target
     ELSE trades[id].buyer = u /\ trades[id].targetIndex = item.target
  /\ kind = "eth" => trades[id].payment <= quote + FeeBuffer

LEMMA FillTerms ==
  ASSUME TypeOK, NEW o \in Orders, NEW target \in Validators, NEW state \in roots,
         NEW buyer \in Accounts, NEW payment, FillFor(o, target, state, buyer, payment)
  PROVE  /\ nextTradeId \in TradeIds /\ nextTradeId' = nextTradeId + 1
         /\ trades'[nextTradeId].status # "None"
         /\ trades'[nextTradeId].sourceIndex = o.sourceIndex
         /\ trades'[nextTradeId].targetIndex = target
         /\ trades'[nextTradeId].buyer = buyer
         /\ trades'[nextTradeId].payment = payment /\ payment \in Nat
  <1>1. /\ nextTradeId \in TradeIds /\ nextTradeId' = nextTradeId + 1
        /\ trades'[nextTradeId].sourceIndex = o.sourceIndex
        /\ trades'[nextTradeId].targetIndex = target
        /\ trades'[nextTradeId].status = "RequestSubmitted"
    BY FillFacts
  <1>2. trades'[nextTradeId].buyer = buyer /\ trades'[nextTradeId].payment = payment
    BY <1>1 DEF FillFor, OpenTrade, TypeOK
  <1> QED
    BY <1>1, <1>2, FillType
LEMMA BuyOpens ==
  ASSUME TypeOK, NEW u \in Users, NEW tx, ItemFor(tx.fn, tx.item, tx.quote), ExecuteBuy(u, tx)
  PROVE  /\ AnyFill /\ nextTradeId \in TradeIds /\ nextTradeId' = nextTradeId + 1
         /\ trades'[nextTradeId].status # "None"
         /\ \A id : id = nextTradeId => TermsOf(u, id, tx.fn, tx.item, tx.quote)'
  <1>0. /\ tx.fn \in {"eth", "weth", "usdc", "match"} /\ tx.state \in roots /\ u \in Accounts
        /\ FeeBuffer \in Nat
    BY FrontendConstants DEF ExecuteBuy, Buys
  <1>1. CASE tx.fn # "match"
    <2>1. tx.item.o \in Orders /\ tx.item.target \in Validators
      BY <1>0, <1>1 DEF ItemFor, BuyButtons
    <2> DEFINE PaidFor(payment) ==
                 /\ FillFor(tx.item.o, tx.item.target, tx.state, u, payment)
                 /\ tx.fn = "eth" => payment <= tx.quote + FeeBuffer
                 /\ \/ weth' = [weth EXCEPT ![Market] = @ + payment]
                    \/ \E payer \in Accounts :
                         /\ weth[payer] >= payment
                         /\ weth' = [weth EXCEPT ![payer] = @ - payment, ![Market] = @ + payment]
    <2>2. \E payment : PaidFor(payment)
      <3>1. CASE tx.fn = "eth"
        <4>1. PICK payment :
                /\ FillFor(tx.item.o, tx.item.target, tx.state, u, payment)
                /\ weth' = [weth EXCEPT ![Market] = @ + payment]
          BY <3>1 DEF ExecuteBuy, BuyWithEth, FillWithEth
        <4>2. PICK fee \in Fees : tx.quote + FeeBuffer >= NewPayment + fee
          BY <3>1 DEF ExecuteBuy, BuyWithEth, Covers
        <4>3. payment \in Nat /\ NewPayment = payment
          BY <1>0, <2>1, <4>1, FillTerms DEF NewPayment
        <4>4. fee \in Nat /\ tx.quote \in Nat
          BY <3>1, PurchaseConstants DEF ItemFor
        <4>5. payment <= tx.quote + FeeBuffer
          BY <1>0, <4>2, <4>3, <4>4
        <4> QED
          BY <4>1, <4>5
      <3>2. CASE tx.fn = "weth"
        BY <1>0, <3>2 DEF ExecuteBuy, BuyWithWeth, Fill, TransferSucceeds
      <3>3. CASE tx.fn = "usdc"
        BY <3>3 DEF ExecuteBuy, BuyWithToken, FillWithEth
      <3> QED
        BY <1>0, <1>1, <3>1, <3>2, <3>3
    <2>3. PICK payment : PaidFor(payment)
      BY <2>2
    <2>4. AnyFill
      BY <1>0, <2>1, <2>3 DEF AnyFill
    <2> QED
      BY <1>0, <1>1, <2>1, <2>3, <2>4, FillTerms DEF TermsOf
  <1>2. CASE tx.fn = "match"
    <2>1. tx.item.o \in Orders /\ tx.item.bid \in Bids /\ MatchBid(tx.item.bid, tx.item.o, tx.state)
      BY <1>2 DEF ItemFor, ExecuteBuy, BuyForBid
    <2>2. PICK payment : FillFor(tx.item.o, tx.item.bid.target, tx.state, tx.item.bid.maker, payment)
      BY <2>1 DEF MatchBid, BuyerFor
    <2>3. tx.item.bid.maker \in Accounts /\ tx.item.bid.target \in Validators
      BY <2>1, BidTerms
    <2>4. AnyFill
      BY <1>0, <2>1, MatchIsFill
    <2> QED
      BY <1>0, <1>2, <2>1, <2>2, <2>3, <2>4, FillTerms DEF TermsOf
  <1> QED
    BY <1>1, <1>2

LEMMA DelegationIsOffer ==
  ASSUME NEW seller \in Sellers, SetDelegation(seller)
  PROVE  MarketNext
  BY DEF MarketNext, AnyOffer

\* What a transaction does to the market.
LEMMA ExecuteSteps ==
  ASSUME TypeOK, NEW u \in Users, NEW tx, TxOK(tx), Execute(u, tx)
  PROVE  /\ MarketStep
         /\ tx.fn \in Buys => ExecuteBuy(u, tx)
         /\ tx.fn \notin Buys => nextTradeId' = nextTradeId
         /\ tx.fn = "accept" => trades'[tx.item.id].status # "RequestSubmitted"
         /\ tx.fn = "deliver" => trades'[tx.item.id].status = "Delivered"
  <1>0. tx.fn = "approve" \/ tx.fn = "deposit" \/ tx.fn \in Kinds
    BY DEF TxOK, Kinds
  <1>1. CASE tx.fn = "approve"
    <2>1. UNCHANGED marketVars
      BY <1>1 DEF Execute, ExecuteBuy, ExecuteMarket, ExecuteBid, Buys, RelayAccepted,
         RelayDelivered, Refund, EnableDelegation
    <2>2. UNCHANGED vars /\ nextTradeId' = nextTradeId
      BY <2>1 DEF marketVars, allVars, vars, tradeVars
    <2> QED
      BY <1>1, <2>2 DEF MarketStep, Buys
  <1>2. CASE tx.fn = "deposit"
    <2>1. Deposit(u, tx.amount) /\ tx.amount \in Nat
      BY <1>2 DEF TxOK, Kinds, Buys, Execute, ExecuteBuy, ExecuteMarket, ExecuteBid, RelayAccepted,
         RelayDelivered, Refund, EnableDelegation
    <2>2. u \in Accounts
      BY FrontendConstants
    <2> QED
      BY <1>2, <2>1, <2>2 DEF Deposit, MarketStep, Wraps, Buys
  <1>3. CASE tx.fn \in Buys
    <2>1. ExecuteBuy(u, tx)
      BY <1>3 DEF Buys, Execute, ExecuteMarket, ExecuteBid, RelayAccepted, RelayDelivered, Refund,
         EnableDelegation
    <2>2. ItemFor(tx.fn, tx.item, tx.quote)
      BY <1>3 DEF TxOK, Buys
    <2>3. AnyFill
      BY <2>1, <2>2, BuyOpens
    <2> QED
      BY <1>3, <2>1, <2>3 DEF MarketStep, MarketNext, Buys
  <1>4. CASE tx.fn \in {"accept", "deliver", "refund"}
    <2>1. tx.item.id \in TradeIds
      BY <1>4 DEF TxOK, ItemFor
    <2>2. RelayAccepted(tx) \/ RelayDelivered(tx) \/ Refund(tx)
      BY <1>4 DEF Buys, Execute, ExecuteBuy, ExecuteMarket, ExecuteBid, EnableDelegation
    <2>3. /\ SettleNext
          /\ tx.fn = "accept" => ProveAccepted(tx.item.id, tx.state)
          /\ tx.fn = "deliver" => ProveDelivered(tx.item.id, tx.state)
      BY <1>4, <2>1, <2>2 DEF RelayAccepted, RelayDelivered, Refund, SettleNext
    <2>4. nextTradeId' = nextTradeId
      BY <2>3 DEF SettleNext, ProveAccepted, ProveDelivered, ProveNotAccepted, ProveFailed,
         RefundExpired, Fail, Close
    <2>5. tx.fn = "accept" => trades'[tx.item.id].status = "Accepted"
      BY <2>1, <2>3, AcceptKeepsTerms
    <2>6. tx.fn = "deliver" => trades'[tx.item.id].status = "Delivered"
      <3>1. SUFFICES ASSUME ProveDelivered(tx.item.id, tx.state)
                     PROVE  trades'[tx.item.id].status = "Delivered"
        BY <2>3
      <3>2. /\ Close(tx.item.id, "Delivered", trades[tx.item.id].seller)
            /\ IsOpen(tx.item.id)
        BY <3>1 DEF ProveDelivered, ShowsDelivery, IsOpen, OpenStatus
      <3> QED
        BY <2>1, <3>2, CloseKeepsTerms
    <2> QED
      BY <1>4, <2>3, <2>4, <2>5, <2>6 DEF MarketStep, MarketNext, Buys
  <1>5. CASE tx.fn = "delegate"
    <2>1. tx.seller \in Sellers /\ SetDelegation(tx.seller)
      BY <1>5 DEF TxOK, Buys, Execute, ExecuteBuy, ExecuteMarket, ExecuteBid, RelayAccepted,
         RelayDelivered, Refund, EnableDelegation
    <2> QED
      BY <1>5, <2>1, DelegationIsOffer DEF MarketStep, Buys, SetDelegation, tradeVars
  <1>6. CASE tx.fn = "list"
    <2>1. tx.item.o \in Orders /\ ListOrder(tx.item.o)
      BY <1>6 DEF TxOK, ItemFor, Buys, Execute, ExecuteBuy, ExecuteMarket, ExecuteBid, RelayAccepted,
         RelayDelivered, Refund, EnableDelegation
    <2> QED
      BY <1>6, <2>1 DEF MarketStep, MarketNext, AnyOffer, Buys, ListOrder, tradeVars
  <1>7. CASE tx.fn \in {"ship", "dock"}
    <2>1. ExecuteBid(tx)
      BY <1>7 DEF Buys, Execute, ExecuteBuy, ExecuteMarket, RelayAccepted, RelayDelivered, Refund,
         EnableDelegation
    <2>2. UNCHANGED vars
      BY <2>1 DEF ExecuteBid, Ship, Dock
    <2> QED
      BY <1>7, <2>2 DEF MarketStep, Buys, vars, tradeVars
  <1> QED
    BY <1>0, <1>1, <1>2, <1>3, <1>4, <1>5, <1>6, <1>7 DEF Kinds

LEMMA OthersStep ==
  ASSUME ChainNext
  PROVE  MarketStep /\ UNCHANGED pageVars
  <1>1. CASE \E seller \in Sellers \ (Users \cup delegated) : SetDelegation(seller)
    BY <1>1, DelegationIsOffer DEF ChainNext, MarketStep
  <1>2. CASE \E o \in Orders : ListOrder(o) \/ CancelOrder(o.seller, o.nonce)
    BY <1>2 DEF ChainNext, MarketStep, MarketNext, AnyOffer
  <1>3. CASE /\ NewBlock \/ \E v \in Validators : Sweep(v)
             /\ UNCHANGED <<orderVars, tradeVars, eligibilityVars>>
    BY <1>3 DEF ChainNext, MarketStep, MarketNext, BeaconNext
  <1> QED
    BY <1>1, <1>2, <1>3 DEF ChainNext
(***************************************************************************)
(* What a page knows of the chain                                          *)
(***************************************************************************)
DemoOK(i) ==
  /\ i = [o |-> i.o, target |-> i.target, at |-> i.at, id |-> i.id]
  /\ i.o \in Orders /\ i.target \in Validators /\ i.at \in 0..4
  /\ i.at >= 2 => i.id \in TradeIds /\ IsFilled(i.id)
  /\ i.at >= 3 => trades[i.id].status # "RequestSubmitted"
  /\ i.at = 4 => trades[i.id].status = "Delivered"

ItemOK(page, item) ==
  /\ page = "buy" => item.o \in Orders /\ item.target \in Validators
  /\ page = "match" => item.o \in Orders /\ item.bid \in Bids
  /\ page = "sell" => item.o \in Orders
  /\ page = "ship" => item.budget \in Nat
  /\ page = "trade" /\ item.status # "None" => item.id \in TradeIds /\ IsFilled(item.id)
  /\ page = "portfolio" =>
       /\ item.id \in TradeIds /\ IsFilled(item.id)
       /\ item.advice = "refund" => RefundDue(trades[item.id])
  /\ page = "demo" => DemoOK(item)

Clicked(j) == j.kind \in Buttons(j) /\ (j.kind \in {"eth", "weth"} => j.quote \in Nat)

StepOK(j) ==
  \/ j.step \in {"blank", "ready", "failed"} /\ j.kind = "none"
  \/ j.step = "busy" /\ Clicked(j) /\ j.todo \in Plans(j.kind)
  \/ j.step = "waiting" /\ Clicked(j) /\ j.todo \in Plans(j.kind) /\ Head(j.todo) # "read"
  \/ j.step = "done" /\ Clicked(j)

SettledOK(j) ==
  j.step = "done" =>
    /\ j.kind = "accept" => trades[j.item.id].status # "RequestSubmitted"
    /\ j.kind = "deliver" => trades[j.item.id].status = "Delivered"

\* The purchase of a page has been mined.
PastBuy(j) ==
  \/ j.step = "done" /\ j.kind \in Buys
  \/ j.step = "busy" /\ j.kind \in Buys /\ j.todo = ReadLeft

BoughtOK(u, j, id) ==
  /\ id # 0 => /\ id \in TradeIds /\ IsFilled(id)
               /\ PastBuy(j) \/ (j.page = "demo" /\ j.item.at >= 2)
  /\ PastBuy(j) => id # 0 /\ TermsOf(u, id, j.kind, j.item, j.quote)
  /\ PastBuy(j) /\ j.step = "done" => j.shown \in TradeIds /\ IsFilled(j.shown) /\ id <= j.shown

SentFor(j, tx) ==
  IF Head(j.todo) = "send" THEN tx = FinalTx(j) ELSE tx.fn \in {"approve", "deposit", "delegate"}

\* A page waits for the last transaction of its account only.
QueueOK(j, q) ==
  /\ \E S : q \in Seq(S)
  /\ \A i \in 1..Len(q) :
       /\ q[i] = [tx |-> q[i].tx, awaited |-> q[i].awaited]
       /\ TxOK(q[i].tx)
       /\ q[i].awaited => i = Len(q) /\ j.step = "waiting" /\ SentFor(j, q[i].tx)

Consistent(u, j, q, id) ==
  IsJob(j) /\ ItemOK(j.page, j.item) /\ StepOK(j) /\ BoughtOK(u, j, id) /\ QueueOK(j, q)

Sound(u, j, q, id) == Consistent(u, j, q, id) /\ SettledOK(j)

PagesSound ==
  \A u \in Users : \A j, q, id :
    j = job[u] /\ q = mempool[u] /\ id = opened[u] => Sound(u, j, q, id)

PagesInv ==
  /\ MarketInv /\ PagesSound
  /\ DOMAIN job = Users /\ DOMAIN mempool = Users /\ DOMAIN opened = Users

\* What a page knows stays true whatever others do to the market.
LEMMA PastKeepsSound ==
  ASSUME TypeOK, TypeOK', PastKept, NEW u, NEW j, NEW q, NEW id, Consistent(u, j, q, id)
  PROVE  Consistent(u, j, q, id)' /\ (SettledOK(j) => SettledOK(j)')
  <1>1. ASSUME NEW i \in TradeIds, IsFilled(i)
        PROVE  /\ IsFilled(i)' /\ TradeKept(i)
               /\ RefundDue(trades[i]) => now' - trades'[i].filledAt > AcceptWindow
    <2>1. TradeKept(i) /\ now' >= now
      BY <1>1 DEF PastKept
    <2>2. trades[i].filledAt \in Int
      BY <1>1, FilledIsTrade DEF IsFilled, Trade
    <2>3. now \in Int /\ now' \in Int /\ AcceptWindow \in Int
      BY BeaconConstants, MarketConstants DEF TypeOK, BeaconTypeOK
    <2> QED
      BY <2>1, <2>2, <2>3 DEF TradeKept, IsFilled, RefundDue
  <1>2. ItemOK(j.page, j.item)'
    <2>1. ItemOK(j.page, j.item)
      BY DEF Consistent
    <2>2. j.page = "trade" /\ j.item.status # "None" => j.item.id \in TradeIds /\ IsFilled(j.item.id)'
      BY <1>1, <2>1 DEF ItemOK
    <2>3. j.page = "portfolio" =>
            /\ j.item.id \in TradeIds /\ IsFilled(j.item.id)'
            /\ j.item.advice = "refund" => now' - trades'[j.item.id].filledAt > AcceptWindow
      BY <1>1, <2>1 DEF ItemOK
    <2>4. j.page = "demo" => DemoOK(j.item)'
      BY <1>1, <2>1 DEF ItemOK, DemoOK, TradeKept
    <2> QED
      BY <2>1, <2>2, <2>3, <2>4 DEF ItemOK, RefundDue
  <1>3. SettledOK(j) => SettledOK(j)'
    <2>1. ASSUME j.step = "done", j.kind \in {"accept", "deliver"}
          PROVE  j.item.id \in TradeIds /\ IsFilled(j.item.id)
      <3>1. j.kind \in Buttons(j)
        BY <2>1 DEF Consistent, StepOK, Clicked
      <3>2. \/ j.page = "trade" /\ j.item.status # "None"
            \/ j.page = "demo" /\ j.item.at \in {2, 3}
        BY <2>1, <3>1, ButtonFacts
      <3> QED
        BY <3>2 DEF Consistent, ItemOK, DemoOK
    <2> QED
      BY <1>1, <2>1 DEF Consistent, SettledOK, TradeKept
  <1>4. BoughtOK(u, j, id)'
    <2>1. BoughtOK(u, j, id)
      BY DEF Consistent
    <2>2. id # 0 => id \in TradeIds /\ IsFilled(id)
      BY <2>1 DEF BoughtOK
    <2>3. id # 0 /\ TermsOf(u, id, j.kind, j.item, j.quote)
            => TermsOf(u, id, j.kind, j.item, j.quote)'
      BY <1>1, <2>2 DEF TermsOf, TradeKept
    <2> QED
      BY <1>1, <2>1, <2>3 DEF BoughtOK, PastBuy
  <1>5. QueueOK(j, q)' /\ StepOK(j)' /\ IsJob(j)'
    BY DEF Consistent, QueueOK, StepOK
  <1> QED
    BY <1>2, <1>3, <1>4, <1>5 DEF Consistent

(***************************************************************************)
(* The steps of a page                                                     *)
(***************************************************************************)
\* A page that has nothing under way.
LEMMA IdleSound ==
  ASSUME NEW u, NEW step \in {"blank", "ready", "failed"}, NEW page, NEW item,
         ItemOK(page, item), NEW q, QueueOK(Job(step, page, item, "none", 0, 0), q),
         NEW id, id # 0 => id \in TradeIds /\ IsFilled(id) /\ page = "demo" /\ item.at >= 2
  PROVE  Sound(u, Job(step, page, item, "none", 0, 0), q, id)
  <1> DEFINE n == Job(step, page, item, "none", 0, 0)
  <1>1. IsJob(n) /\ n.step = step /\ n.page = page /\ n.item = item /\ n.kind = "none"
    BY NewJob
  <1> HIDE DEF n
  <1>2. ~PastBuy(n)
    BY <1>1 DEF PastBuy
  <1>3. Sound(u, n, q, id)
    BY <1>1, <1>2 DEF Sound, Consistent, StepOK, SettledOK, BoughtOK, n
  <1> QED
    BY <1>3 DEF n

\* A queue nobody waits for may belong to any page.
LEMMA UnawaitedQueue ==
  ASSUME NEW j, NEW q, QueueOK(j, q), j.step # "waiting", NEW n
  PROVE  QueueOK(n, q)
  BY DEF QueueOK

\* A page that fails while its purchase is not mined.
LEMMA FailedSound ==
  ASSUME NEW u, NEW j, NEW q, NEW id, Sound(u, j, q, id), ~PastBuy(j),
         NEW r, QueueOK(Failed(j), r)
  PROVE  Sound(u, Failed(j), r, id)
  <1>1. ItemOK(j.page, j.item)
    BY DEF Sound, Consistent
  <1>2. id # 0 => id \in TradeIds /\ IsFilled(id) /\ j.page = "demo" /\ j.item.at >= 2
    BY DEF Sound, Consistent, BoughtOK
  <1> QED
    BY <1>1, <1>2, IdleSound DEF Failed

\* Who has steps to do has not bought unless reading is all that is left.
LEMMA UnderWay ==
  ASSUME NEW u, NEW j, NEW q, NEW id, Sound(u, j, q, id), j.step \in {"busy", "waiting"}
  PROVE  /\ Clicked(j) /\ j.kind \in Kinds /\ j.kind \in Buttons(j) /\ j.todo \in Plans(j.kind)
         /\ Head(j.todo) # "read" => ~PastBuy(j)
         /\ Head(j.todo) = "read" => j.step = "busy" /\ PastBuy(j)
  <1>1. Clicked(j) /\ j.todo \in Plans(j.kind) /\ (j.step = "waiting" => Head(j.todo) # "read")
    BY DEF Sound, Consistent, StepOK
  <1>2. j.kind \in Buttons(j) /\ j.kind \in Kinds
    BY <1>1, ButtonFacts DEF Clicked
  <1> QED
    BY <1>1, <1>2, PlanFacts DEF PastBuy
\* A step of a click that buys nothing.
LEMMA AdvanceKeeps ==
  ASSUME NEW u, NEW j, NEW q, NEW id, Sound(u, j, q, id), j.step \in {"busy", "waiting"},
         Head(j.todo) # "read", j.kind \in Buys => Head(j.todo) # "send",
         NEW r, QueueOK(Advance(j), r)
  PROVE  /\ Consistent(u, Advance(j), r, id)
         /\ Head(j.todo) # "send" => SettledOK(Advance(j))
  <1> DEFINE n == Advance(j)
  <1>1. /\ Clicked(j) /\ j.kind \in Kinds /\ j.kind \in Buttons(j) /\ j.todo \in Plans(j.kind)
        /\ ~PastBuy(j)
    BY UnderWay
  <1>2. /\ IsJob(n) /\ n.page = j.page /\ n.item = j.item /\ n.kind = j.kind /\ n.quote = j.quote
        /\ IF Len(j.todo) = 1 THEN n.step = "done" /\ n.todo = <<>>
           ELSE n.step = "busy" /\ n.todo = Tail(j.todo)
    BY Advances DEF Sound, Consistent
  <1> HIDE DEF n
  <1>3. Buttons(n) = Buttons(j)
    BY <1>2 DEF Buttons
  <1>4. ~PastBuy(n)
    <2>1. j.kind \in Buys => Len(j.todo) # 1 /\ Tail(j.todo) # ReadLeft
      <3>1. /\ j.todo = ReadLeft => Head(j.todo) = "read"
            /\ Len(j.todo) # 1 => (Tail(j.todo) = ReadLeft => Head(j.todo) = "send")
            /\ Len(j.todo) = 1 => (j.kind \in Buys => j.todo = ReadLeft)
        BY <1>1, PlanFacts
      <3> QED
        BY <3>1
    <2> QED
      BY <1>2, <2>1 DEF PastBuy
  <1>5. StepOK(n)
    BY <1>1, <1>2, <1>3, PlanFacts DEF StepOK, Clicked
  <1>6. BoughtOK(u, n, id)
    BY <1>1, <1>2, <1>4 DEF Sound, Consistent, BoughtOK
  <1>7. Head(j.todo) # "send" => SettledOK(n)
    <2> SUFFICES ASSUME Head(j.todo) # "send", n.step = "done" PROVE n.kind \notin {"accept", "deliver"}
      BY DEF SettledOK
    <2> QED
      BY <1>1, <1>2, PlanFacts DEF Buys
  <1>8. QueueOK(n, r)
    BY DEF n
  <1>9. ItemOK(n.page, n.item)
    BY <1>2 DEF Sound, Consistent
  <1> QED
    BY <1>2, <1>5, <1>6, <1>7, <1>8, <1>9 DEF Consistent, n

\* A click.
LEMMA ClickSound ==
  ASSUME MarketInv, NEW u \in Users, NEW j, NEW q, NEW id, Sound(u, j, q, id),
         j.step \in {"ready", "failed"},
         NEW kind \in Buttons(j), NEW state \in Proofs(j, kind), NEW quote \in Read(j, kind, state)
  PROVE  LET n == [Job("busy", j.page, j.item, kind, quote, state) EXCEPT !.todo = StepsOf(j.page, kind)]
         IN Sound(u, n, q, id)
  <1> DEFINE m == Job("busy", j.page, j.item, kind, quote, state)
             n == [m EXCEPT !.todo = StepsOf(j.page, kind)]
  <1>1. /\ IsJob(m) /\ m.step = "busy" /\ m.page = j.page /\ m.item = j.item
        /\ m.kind = kind /\ m.quote = quote
    BY NewJob
  <1> HIDE DEF m
  <1>2. /\ IsJob(n) /\ n.step = "busy" /\ n.page = j.page /\ n.item = j.item
        /\ n.kind = kind /\ n.quote = quote /\ n.todo = StepsOf(j.page, kind)
    BY <1>1, TodoOfJob
  <1> HIDE DEF n
  <1>3. kind \in Kinds
    BY ButtonFacts
  <1>4. n.todo \in Plans(n.kind) /\ n.todo # ReadLeft
    BY <1>2, <1>3, ClicksPlan
  <1>5. Buttons(n) = Buttons(j)
    BY <1>2 DEF Buttons
  <1>6. kind \in {"eth", "weth"} => quote \in Nat
    <2> SUFFICES ASSUME kind \in {"eth", "weth"} PROVE quote \in Nat
      OBVIOUS
    <2>1. state \in roots
      BY DEF MarketInv, HeadInRing, Proofs, Newest, Buys
    <2>2. j.item.o \in Orders
      <3>1. j.page = "buy" \/ j.page = "demo"
        BY ButtonFacts
      <3> QED
        BY <3>1 DEF Sound, Consistent, ItemOK, DemoOK
    <2>3. j.item.o.sourceIndex \in Validators
      BY <2>2, MarketConstants DEF Order
    <2>4. state.val[j.item.o.sourceIndex].eff \in Nat
      BY <2>1, <2>3 DEF MarketInv, TypeOK, BeaconTypeOK, Snapshot, ValidatorState
    <2> QED
      BY <2>2, <2>4, QuotesNat DEF Read, BuyButtons
  <1>7. StepOK(n)
    BY <1>2, <1>4, <1>5, <1>6 DEF StepOK, Clicked
  <1>8. ~PastBuy(n) /\ ~PastBuy(j)
    BY <1>2, <1>4 DEF PastBuy
  <1>9. BoughtOK(u, n, id) /\ SettledOK(n) /\ ItemOK(n.page, n.item)
    BY <1>2, <1>8 DEF Sound, Consistent, BoughtOK, SettledOK
  <1>10. QueueOK(n, q)
    BY UnawaitedQueue DEF Sound, Consistent
  <1> QED
    BY <1>2, <1>7, <1>9, <1>10 DEF Sound, Consistent, n, m
OthersKept(u) ==
  /\ \A w \in Users \ {u} :
       job'[w] = job[w] /\ mempool'[w] = mempool[w] /\ opened'[w] = opened[w]
  /\ DOMAIN job' = Users /\ DOMAIN mempool' = Users /\ DOMAIN opened' = Users

\* A step of one page that leaves the market alone.
QuietStep(u) ==
  /\ UNCHANGED vars /\ OthersKept(u)
  /\ \A n, r, i : n = job'[u] /\ r = mempool'[u] /\ i = opened'[u] => Sound(u, n, r, i)

LEMMA OneTurn ==
  ASSUME PagesInv, NEW u \in Users, NEW n, NEW r, NEW i,
         job' = [job EXCEPT ![u] = n],
         (mempool' = mempool /\ r = mempool[u]) \/ mempool' = [mempool EXCEPT ![u] = r],
         (opened' = opened /\ i = opened[u]) \/ opened' = [opened EXCEPT ![u] = i]
  PROVE  OthersKept(u) /\ job'[u] = n /\ mempool'[u] = r /\ opened'[u] = i
  BY DEF PagesInv, OthersKept

LEMMA QuietTurn ==
  ASSUME PagesInv, NEW u \in Users, NEW n, NEW r, NEW i, UNCHANGED vars,
         job' = [job EXCEPT ![u] = n],
         (mempool' = mempool /\ r = mempool[u]) \/ mempool' = [mempool EXCEPT ![u] = r],
         (opened' = opened /\ i = opened[u]) \/ opened' = [opened EXCEPT ![u] = i],
         Sound(u, n, r, i)
  PROVE  QuietStep(u)
  <1>1. OthersKept(u) /\ job'[u] = n /\ mempool'[u] = r /\ opened'[u] = i
    BY OneTurn
  <1> QED
    BY <1>1 DEF QuietStep

LEMMA PageIsSound ==
  ASSUME PagesInv, NEW u \in Users
  PROVE  Sound(u, job[u], mempool[u], opened[u])
  BY DEF PagesInv, PagesSound

LEMMA MarketVarsKept ==
  ASSUME UNCHANGED marketVars
  PROVE  UNCHANGED vars
  BY DEF marketVars, allVars

\* A page loads.
LEMMA LoadStep ==
  ASSUME PagesInv, NEW u \in Users, NEW page, NEW item, Load(u, page, item), ItemOK(page, item)
  PROVE  QuietStep(u)
  <1> DEFINE j == job[u]
             q == mempool[u]
             n == Ready(page, item)
  <1>1. /\ j.step \in {"blank", "done", "failed"} /\ job' = [job EXCEPT ![u] = n]
        /\ opened' = [opened EXCEPT ![u] = 0] /\ mempool' = mempool /\ UNCHANGED vars
    BY MarketVarsKept DEF Load
  <1>2. QueueOK(n, q)
    BY <1>1, PageIsSound, UnawaitedQueue DEF Sound, Consistent
  <1>3. Sound(u, n, q, 0)
    BY <1>2, IdleSound DEF Ready
  <1> QED
    BY <1>1, <1>3, QuietTurn

LEMMA LoadPageStep ==
  ASSUME PagesInv, NEW u \in Users, LoadPage(u)
  PROVE  QuietStep(u)
  <1>0. \A o : Suitable(u, o) \subseteq Validators
    BY DEF Suitable, Receivers, OwnActive
  <1>1. ASSUME NEW o \in Orders, LoadBuy(u, o) PROVE QuietStep(u)
    <2>1. PICK target \in Suitable(u, o) : Load(u, "buy", [o |-> o, target |-> target])
      BY <1>1 DEF LoadBuy
    <2>2. ItemOK("buy", [o |-> o, target |-> target])
      BY <1>0 DEF ItemOK
    <2> QED
      BY <2>1, <2>2, LoadStep
  <1>2. ASSUME NEW o \in Orders, LoadSell(u, o) PROVE QuietStep(u)
    <2>1. ItemOK("sell", SellItem(o))
      BY DEF ItemOK, SellItem
    <2> QED
      BY <1>2, <2>1, LoadStep DEF LoadSell
  <1>3. ASSUME NEW o \in Orders, LoadDemo(u, o) PROVE QuietStep(u)
    <2>1. PICK target \in Suitable(u, o) :
            Load(u, "demo", [o |-> o, target |-> target, at |-> 0, id |-> 0])
      BY <1>3 DEF LoadDemo
    <2>2. ItemOK("demo", [o |-> o, target |-> target, at |-> 0, id |-> 0])
      BY <1>0 DEF ItemOK, DemoOK
    <2> QED
      BY <2>1, <2>2, LoadStep
  <1>4. ASSUME NEW b \in Bids, NEW o \in Orders, LoadMatch(u, b, o) PROVE QuietStep(u)
    <2>1. ItemOK("match", [o |-> o, bid |-> b])
      BY DEF ItemOK
    <2> QED
      BY <1>4, <2>1, LoadStep DEF LoadMatch
  <1>5. ASSUME NEW s \in Shipments, LoadShip(u, s) \/ LoadDock(u, s) PROVE QuietStep(u)
    <2>1. ItemOK("ship", s) /\ ItemOK("dock", s)
      BY BidConstants DEF ItemOK
    <2> QED
      BY <1>5, <2>1, LoadStep DEF LoadShip, LoadDock
  <1>6. ASSUME NEW id \in TradeIds, LoadTrade(u, id) PROVE QuietStep(u)
    <2>1. ItemOK("trade", TradeItem(id))
      BY <1>6 DEF ItemOK, TradeItem, LoadTrade
    <2> QED
      BY <1>6, <2>1, LoadStep DEF LoadTrade
  <1>7. ASSUME NEW id \in TradeIds, LoadPortfolio(u, id) PROVE QuietStep(u)
    <2>1. ItemOK("portfolio", [id |-> id, advice |-> Advice(trades[id])])
      BY <1>7 DEF ItemOK, LoadPortfolio, Advice
    <2> QED
      BY <1>7, <2>1, LoadStep DEF LoadPortfolio
  <1> QED
    BY <1>1, <1>2, <1>3, <1>4, <1>5, <1>6, <1>7 DEF LoadPage

LEMMA ClickStep ==
  ASSUME PagesInv, NEW u \in Users, NEW kind \in Buttons(job[u]), Click(u, kind)
  PROVE  QuietStep(u)
  <1> DEFINE j == job[u]
             N(quote, state) == [Job("busy", j.page, j.item, kind, quote, state)
                                   EXCEPT !.todo = StepsOf(j.page, kind)]
  <1>1. PICK state \in Proofs(j, kind) : \E quote \in Read(j, kind, state) :
          job' = [job EXCEPT ![u] = N(quote, state)]
    BY DEF Click
  <1>2. PICK quote \in Read(j, kind, state) : job' = [job EXCEPT ![u] = N(quote, state)]
    BY <1>1
  <1>3. /\ j.step \in {"ready", "failed"} /\ mempool' = mempool /\ opened' = opened
        /\ UNCHANGED vars
    BY MarketVarsKept DEF Click
  <1>4. Sound(u, N(quote, state), mempool[u], opened[u])
    BY <1>3, PageIsSound, ClickSound DEF PagesInv
  <1> HIDE DEF N
  <1> QED
    BY <1>2, <1>3, <1>4, QuietTurn
\* What a step of a click sends is a transaction as it should be.
LEMMA SentIsOK ==
  ASSUME PagesInv, NEW u \in Users, Sending(u), NEW tx \in TxOf(u)
  PROVE  TxOK(tx) /\ SentFor(job[u], tx)
  <1> DEFINE j == job[u]
             head == Head(j.todo)
  <1>1. /\ Sound(u, j, mempool[u], opened[u]) /\ j.step = "busy" /\ head # "read"
    BY PageIsSound DEF Sending
  <1>2. /\ j.kind \in Kinds /\ j.kind \in Buttons(j) /\ j.todo \in Plans(j.kind) /\ Clicked(j)
    BY <1>1, UnderWay
  <1>3. ItemOK(j.page, j.item)
    BY <1>1 DEF Sound, Consistent
  <1>4. head \in {"wrap", "approve", "delegate", "send"}
    BY <1>1, <1>2, PlanFacts
  <1>5. CASE head = "wrap"
    <2>1. j.kind \in {"weth", "ship"}
      BY <1>2, <1>5, PlanFacts
    <2>2. Need(j) \in Nat
      BY <1>2, <1>3, <2>1, ButtonFacts DEF Need, Clicked, ItemOK
    <2>3. tx = DepositTx(Need(j) - weth[u]) /\ ~(weth[u] >= Need(j))
      BY <1>5 DEF TxOf
    <2>4. weth[u] \in Nat
      BY FrontendConstants DEF PagesInv, MarketInv, TypeOK, Holders
    <2>5. Need(j) - weth[u] \in Nat
      BY <2>2, <2>3, <2>4
    <2> QED
      BY <1>5, <2>3, <2>5 DEF DepositTx, TxOK, SentFor
  <1>6. CASE head = "approve"
    <2>1. tx.fn = "approve"
      BY <1>6 DEF TxOf, ApproveTx
    <2> QED
      BY <1>6, <2>1 DEF TxOK, SentFor
  <1>7. CASE head = "delegate"
    <2>1. j.kind \in {"delegate", "list"}
      BY <1>2, <1>7, PlanFacts
    <2>2. j.item.o \in Orders
      BY <1>2, <1>3, <2>1, ButtonFacts DEF ItemOK, DemoOK
    <2>3. tx = DelegateTx(j.item.o.seller)
      BY <1>7 DEF TxOf
    <2> QED
      BY <1>7, <2>2, <2>3 DEF DelegateTx, TxOK, SentFor, Sellers
  <1>8. CASE head = "send"
    <2>1. tx = FinalTx(j) /\ j.kind # "delegate"
      BY <1>2, <1>8, PlanFacts DEF TxOf
    <2>2. tx.fn = j.kind /\ tx.item = j.item /\ tx.quote = j.quote
      BY <2>1 DEF FinalTx
    <2>3. ItemFor(j.kind, j.item, j.quote)
      BY <1>2, <1>3, ButtonFacts DEF ItemFor, BuyButtons, ItemOK, DemoOK, Clicked
    <2> QED
      BY <1>2, <1>8, <2>1, <2>2, <2>3 DEF TxOK, SentFor
  <1> QED
    BY <1>4, <1>5, <1>6, <1>7, <1>8

LEMMA SkipsStep ==
  ASSUME PagesInv, NEW u \in Users, SkipStep(u)
  PROVE  QuietStep(u)
  <1> DEFINE j == job[u]
             q == mempool[u]
             id == opened[u]
  <1>1. /\ j.step = "busy" /\ Head(j.todo) # "read" /\ TxOf(u) = {}
        /\ job' = [job EXCEPT ![u] = Advance(j)] /\ mempool' = mempool /\ opened' = opened
        /\ UNCHANGED vars
    BY MarketVarsKept DEF SkipStep, Sending
  <1>2. Sound(u, j, q, id)
    BY PageIsSound
  <1>3. Head(j.todo) # "send"
    BY <1>1 DEF TxOf
  <1>4. QueueOK(Advance(j), q)
    BY <1>1, <1>2, UnawaitedQueue DEF Sound, Consistent
  <1>5. Sound(u, Advance(j), q, id)
    BY <1>1, <1>2, <1>3, <1>4, AdvanceKeeps DEF Sound
  <1> QED
    BY <1>1, <1>5, QuietTurn

LEMMA AppendQueue ==
  ASSUME NEW j, NEW q, QueueOK(j, q), j.step # "waiting", NEW n, n.step = "waiting",
         NEW tx, TxOK(tx), SentFor(n, tx)
  PROVE  QueueOK(n, Append(q, [tx |-> tx, awaited |-> TRUE]))
  <1> DEFINE e == [tx |-> tx, awaited |-> TRUE]
             r == Append(q, e)
  <1>1. PICK S : q \in Seq(S)
    BY DEF QueueOK
  <1>2. q \in Seq(S \cup {e}) /\ e \in S \cup {e}
    BY <1>1
  <1>3. /\ r \in Seq(S \cup {e}) /\ Len(r) = Len(q) + 1 /\ Len(q) \in Nat
        /\ r[Len(q) + 1] = e /\ \A i \in 1..Len(q) : r[i] = q[i]
    BY <1>2, AppendProperties
  <1>4. /\ e.tx = tx /\ e = [tx |-> e.tx, awaited |-> e.awaited]
    OBVIOUS
  <1> HIDE DEF e, r
  <1>5. ASSUME NEW i \in 1..Len(r)
        PROVE  /\ r[i] = [tx |-> r[i].tx, awaited |-> r[i].awaited]
               /\ TxOK(r[i].tx)
               /\ r[i].awaited => i = Len(r) /\ n.step = "waiting" /\ SentFor(n, r[i].tx)
    <2>1. CASE i \in 1..Len(q)
      BY <1>3, <2>1 DEF QueueOK
    <2>2. CASE i = Len(q) + 1
      BY <1>3, <1>4, <2>2
    <2> QED
      BY <1>3, <2>1, <2>2
  <1>6. QueueOK(n, r)
    BY <1>3, <1>5 DEF QueueOK
  <1> QED
    BY <1>6 DEF e, r

LEMMA WriteStep ==
  ASSUME PagesInv, NEW u \in Users, Write(u)
  PROVE  QuietStep(u)
  <1> DEFINE j == job[u]
             q == mempool[u]
             id == opened[u]
             n == [j EXCEPT !.step = "waiting"]
  <1>1. /\ Sending(u) /\ j.step = "busy" /\ Head(j.todo) # "read"
        /\ job' = [job EXCEPT ![u] = n] /\ opened' = opened /\ UNCHANGED vars
    BY MarketVarsKept DEF Write, Sending
  <1>2. PICK tx \in TxOf(u) :
          mempool' = [mempool EXCEPT ![u] = Append(q, [tx |-> tx, awaited |-> TRUE])]
    BY DEF Write
  <1>3. Sound(u, j, q, id)
    BY PageIsSound
  <1>4. TxOK(tx) /\ SentFor(j, tx)
    BY <1>1, SentIsOK
  <1>5. /\ IsJob(n) /\ n.step = "waiting" /\ n.todo = j.todo /\ n.page = j.page
        /\ n.item = j.item /\ n.kind = j.kind /\ n.quote = j.quote /\ n.state = j.state
    BY <1>3, StepOfJob DEF Sound, Consistent
  <1> DEFINE r == Append(q, [tx |-> tx, awaited |-> TRUE])
  <1> HIDE DEF n
  <1>6. SentFor(n, tx)
    BY <1>4, <1>5 DEF SentFor, FinalTx
  <1>7. QueueOK(n, r)
    BY <1>1, <1>3, <1>4, <1>5, <1>6, AppendQueue DEF Sound, Consistent
  <1>8. /\ Clicked(j) /\ j.todo \in Plans(j.kind) /\ ~PastBuy(j)
    BY <1>1, <1>3, UnderWay
  <1>9. StepOK(n)
    BY <1>1, <1>5, <1>8 DEF StepOK, Clicked, Buttons
  <1>10. ~PastBuy(n)
    BY <1>5 DEF PastBuy
  <1>11. BoughtOK(u, n, id) /\ SettledOK(n) /\ ItemOK(n.page, n.item)
    BY <1>3, <1>5, <1>8, <1>10 DEF Sound, Consistent, BoughtOK, SettledOK
  <1>12. Sound(u, n, r, id)
    BY <1>5, <1>7, <1>9, <1>11 DEF Sound, Consistent
  <1> QED
    BY <1>1, <1>2, <1>12, QuietTurn

LEMMA RefuseStep ==
  ASSUME PagesInv, NEW u \in Users, Refuse(u)
  PROVE  QuietStep(u)
  <1> DEFINE j == job[u]
             q == mempool[u]
             id == opened[u]
  <1>1. /\ j.step = "busy" /\ Head(j.todo) # "read"
        /\ job' = [job EXCEPT ![u] = Failed(j)] /\ mempool' = mempool /\ opened' = opened
        /\ UNCHANGED vars
    BY MarketVarsKept DEF Refuse, Sending
  <1>2. Sound(u, j, q, id)
    BY PageIsSound
  <1>3. ~PastBuy(j) /\ QueueOK(Failed(j), q)
    BY <1>1, <1>2, UnderWay, UnawaitedQueue DEF Sound, Consistent
  <1>4. Sound(u, Failed(j), q, id)
    BY <1>2, <1>3, FailedSound
  <1> QED
    BY <1>1, <1>4, QuietTurn

LEMMA TimeOutStep ==
  ASSUME PagesInv, NEW u \in Users, TimeOut(u)
  PROVE  QuietStep(u)
  <1> DEFINE j == job[u]
             q == mempool[u]
             id == opened[u]
             r == [i \in 1..Len(q) |-> [q[i] EXCEPT !.awaited = FALSE]]
  <1>1. /\ j.step = "waiting" /\ job' = [job EXCEPT ![u] = Failed(j)]
        /\ mempool' = [mempool EXCEPT ![u] = r] /\ opened' = opened /\ UNCHANGED vars
    BY MarketVarsKept DEF TimeOut, Waiting
  <1>2. Sound(u, j, q, id) /\ QueueOK(j, q)
    BY PageIsSound DEF Sound, Consistent
  <1>3. ~PastBuy(j)
    BY <1>1 DEF PastBuy
  <1>4. Len(q) \in Nat
    BY <1>2 DEF QueueOK
  <1>5. ASSUME NEW i \in 1..Len(q)
        PROVE  r[i] = [tx |-> q[i].tx, awaited |-> FALSE]
    <2>1. q[i] = [tx |-> q[i].tx, awaited |-> q[i].awaited]
      BY <1>2 DEF QueueOK
    <2> QED
      BY <2>1
  <1> DEFINE T == {r[i] : i \in 1..Len(q)}
  <1>6. r \in Seq(T) /\ Len(r) = Len(q)
    <2>1. r \in [1..Len(q) -> T]
      OBVIOUS
    <2> HIDE DEF r, T
    <2> QED
      BY <1>4, <2>1
  <1> HIDE DEF r, T
  <1>7. QueueOK(Failed(j), r)
    <2>1. ASSUME NEW i \in 1..Len(r)
          PROVE  /\ r[i] = [tx |-> r[i].tx, awaited |-> r[i].awaited]
                 /\ TxOK(r[i].tx) /\ ~r[i].awaited
      <3>1. i \in 1..Len(q)
        BY <1>6
      <3>2. r[i] = [tx |-> q[i].tx, awaited |-> FALSE] /\ TxOK(q[i].tx)
        BY <1>2, <1>5, <3>1 DEF QueueOK
      <3> QED
        BY <3>2
    <2> QED
      BY <1>6, <2>1 DEF QueueOK
  <1>8. Sound(u, Failed(j), r, id)
    BY <1>2, <1>3, <1>7, FailedSound
  <1> QED
    BY <1>1, <1>8, QuietTurn
\* The page reads the counter: the last trade is there and not before its own.
LEMMA ReadTradeStep ==
  ASSUME PagesInv, NEW u \in Users, ReadTradeId(u)
  PROVE  QuietStep(u)
  <1> DEFINE j == job[u]
             q == mempool[u]
             id == opened[u]
             a == Advance(j)
             n == [a EXCEPT !.shown = LastTrade]
  <1>1. /\ j.step = "busy" /\ Head(j.todo) = "read"
        /\ job' = [job EXCEPT ![u] = n] /\ mempool' = mempool /\ opened' = opened
        /\ UNCHANGED vars
    BY MarketVarsKept DEF ReadTradeId, Reading
  <1>2. Sound(u, j, q, id)
    BY PageIsSound
  <1>3. /\ Clicked(j) /\ j.kind \in Kinds /\ j.todo \in Plans(j.kind) /\ PastBuy(j)
    BY <1>1, <1>2, UnderWay
  <1>4. Len(j.todo) = 1 /\ j.kind \in Buys
    BY <1>1, <1>3, PlanFacts DEF PastBuy
  <1>5. /\ IsJob(a) /\ a.step = "done" /\ a.page = j.page /\ a.item = j.item
        /\ a.kind = j.kind /\ a.quote = j.quote
    BY <1>2, <1>4, Advances DEF Sound, Consistent
  <1> HIDE DEF a
  <1>6. /\ IsJob(n) /\ n.step = "done" /\ n.page = j.page /\ n.item = j.item
        /\ n.kind = j.kind /\ n.quote = j.quote /\ n.shown = LastTrade
    BY <1>5, ShownOfJob
  <1> HIDE DEF n
  <1>7. id \in TradeIds /\ IsFilled(id) /\ TermsOf(u, id, j.kind, j.item, j.quote)
    BY <1>2, <1>3 DEF Sound, Consistent, BoughtOK
  <1>8. LastTrade \in TradeIds /\ IsFilled(LastTrade) /\ id <= LastTrade
    <2>1. /\ FreshIds /\ NoGaps /\ nextTradeId \in 1..(MaxTrades + 1) /\ MaxTrades \in Nat
      BY MarketConstants DEF PagesInv, MarketInv, SettlementInv, SaleInv, TypeOK
    <2>2. id \in Int /\ id >= 1 /\ ~(id >= nextTradeId)
      BY <1>7, <2>1 DEF FreshIds, TradeIds
    <2>3. LastTrade \in 1..MaxTrades /\ LastTrade < nextTradeId /\ id <= LastTrade
      BY <2>1, <2>2 DEF LastTrade
    <2> QED
      BY <2>1, <2>3 DEF NoGaps, TradeIds
  <1>9. StepOK(n) /\ SettledOK(n) /\ ItemOK(n.page, n.item)
    BY <1>2, <1>3, <1>4, <1>6 DEF Sound, Consistent, StepOK, Clicked, Buttons, SettledOK, Buys
  <1>10. BoughtOK(u, n, id)
    BY <1>4, <1>6, <1>7, <1>8 DEF BoughtOK, PastBuy, TradeIds
  <1>11. QueueOK(n, q)
    BY <1>1, <1>2, UnawaitedQueue DEF Sound, Consistent
  <1>12. Sound(u, n, q, id)
    BY <1>6, <1>9, <1>10, <1>11 DEF Sound, Consistent
  <1> QED
    BY <1>1, <1>12, QuietTurn

\* A page whose read fails forgets the trade it has opened.
LEMMA ReadFailsStep ==
  ASSUME PagesInv, NEW u \in Users, ReadFails(u)
  PROVE  QuietStep(u)
  <1> DEFINE j == job[u]
             q == mempool[u]
  <1>1. /\ j.step = "busy" /\ job' = [job EXCEPT ![u] = Failed(j)] /\ mempool' = mempool
        /\ opened' = [opened EXCEPT ![u] = 0] /\ UNCHANGED vars
    BY MarketVarsKept DEF ReadFails, Reading
  <1>2. ItemOK(j.page, j.item) /\ QueueOK(j, q)
    BY PageIsSound DEF Sound, Consistent
  <1>3. QueueOK(Failed(j), q)
    BY <1>1, <1>2, UnawaitedQueue
  <1>4. Sound(u, Failed(j), q, 0)
    BY <1>2, <1>3, IdleSound DEF Failed
  <1> QED
    BY <1>1, <1>4, QuietTurn

\* A page shows something else after a click.
LEMMA BecomeStep ==
  ASSUME PagesInv, NEW u \in Users, NEW page, NEW item, Become(u, Ready(page, item)),
         ItemOK(page, item), NEW i, (opened' = opened /\ i = opened[u]) \/ opened' = [opened EXCEPT ![u] = i],
         i # 0 => i \in TradeIds /\ IsFilled(i) /\ page = "demo" /\ item.at >= 2
  PROVE  QuietStep(u)
  <1> DEFINE n == Ready(page, item)
  <1>1. /\ job[u].step = "done" /\ job' = [job EXCEPT ![u] = n] /\ mempool' = mempool
        /\ UNCHANGED vars
    BY MarketVarsKept DEF Become
  <1>2. QueueOK(n, mempool[u])
    BY <1>1, PageIsSound, UnawaitedQueue DEF Sound, Consistent
  <1>3. Sound(u, n, mempool[u], i)
    BY <1>2, IdleSound DEF Ready
  <1> QED
    BY <1>1, <1>3, QuietTurn

\* What a page that is done has done.
LEMMA DoneFacts ==
  ASSUME PagesInv, NEW u \in Users, job[u].step = "done"
  PROVE  LET j == job[u]
         IN /\ j.kind \in Buttons(j) /\ j.kind \in Kinds /\ ItemOK(j.page, j.item) /\ SettledOK(j)
            /\ opened[u] # 0 => opened[u] \in TradeIds /\ IsFilled(opened[u])
            /\ opened[u] # 0 => j.kind \in Buys \/ (j.page = "demo" /\ j.item.at >= 2)
            /\ j.kind \in Buys => j.shown \in TradeIds /\ IsFilled(j.shown)
  <1>1. Sound(u, job[u], mempool[u], opened[u])
    BY PageIsSound
  <1> QED
    BY <1>1, ButtonFacts DEF Sound, Consistent, StepOK, Clicked, BoughtOK, PastBuy

LEMMA TradeItemOK ==
  ASSUME NEW id
  PROVE  ItemOK("trade", TradeItem(id))
  BY DEF ItemOK, TradeItem, IsFilled

LEMMA RefreshStep ==
  ASSUME PagesInv, NEW u \in Users, Refresh(u)
  PROVE  QuietStep(u)
  <1> DEFINE j == job[u]
  <1>1. /\ opened' = opened
        /\ \/ j.kind = "delegate" /\ Become(u, Ready("sell", SellItem(j.item.o)))
           \/ j.page = "trade" /\ Become(u, Ready("trade", TradeItem(j.item.id)))
    BY DEF Refresh
  <1>2. j.step = "done"
    BY <1>1 DEF Become
  <1>3. /\ j.kind \in Buttons(j) /\ j.kind \in Kinds /\ ItemOK(j.page, j.item)
        /\ opened[u] # 0 => j.kind \in Buys \/ (j.page = "demo" /\ j.item.at >= 2)
    BY <1>2, DoneFacts
  <1>4. CASE j.kind = "delegate"
    <2>1. j.page = "sell"
      BY <1>3, <1>4, ButtonFacts
    <2>2. opened[u] = 0
      BY <1>3, <1>4, <2>1 DEF Buys
    <2>3. ItemOK("sell", SellItem(j.item.o))
      BY <1>3, <2>1 DEF ItemOK, SellItem
    <2>4. Become(u, Ready("sell", SellItem(j.item.o)))
      BY <1>1, <2>1
    <2> QED
      BY <1>1, <2>2, <2>3, <2>4, BecomeStep
  <1>5. CASE j.page = "trade"
    <2>1. j.kind \notin Buys /\ j.kind # "delegate"
      BY <1>3, <1>5, ButtonFacts DEF Buys
    <2>2. opened[u] = 0
      BY <1>3, <1>5, <2>1
    <2>3. Become(u, Ready("trade", TradeItem(j.item.id)))
      BY <1>1, <2>1
    <2> QED
      BY <1>1, <2>2, <2>3, TradeItemOK, BecomeStep
  <1> QED
    BY <1>1, <1>4, <1>5

LEMMA OpenTradeStep ==
  ASSUME PagesInv, NEW u \in Users, OpenTradePage(u)
  PROVE  QuietStep(u)
  <1>1. /\ Become(u, Ready("trade", TradeItem(job[u].shown)))
        /\ opened' = [opened EXCEPT ![u] = 0]
    BY DEF OpenTradePage
  <1> QED
    BY <1>1, TradeItemOK, BecomeStep

DemoAt(i, at, id) == [i EXCEPT !.at = at, !.id = id]

LEMMA DemoItem ==
  ASSUME NEW i, i = [o |-> i.o, target |-> i.target, at |-> i.at, id |-> i.id], NEW at, NEW id
  PROVE  LET k == DemoAt(i, at, id)
         IN /\ k.o = i.o /\ k.target = i.target /\ k.at = at /\ k.id = id
            /\ k = [o |-> k.o, target |-> k.target, at |-> k.at, id |-> k.id]
  <1> DEFINE a == [i EXCEPT !.at = at]
             b == [a EXCEPT !.id = id]
  <1>1. a = [o |-> i.o, target |-> i.target, at |-> at, id |-> i.id]
    OBVIOUS
  <1>2. a.o = i.o /\ a.target = i.target /\ a.at = at
    BY <1>1
  <1> HIDE DEF a
  <1>3. b = [o |-> i.o, target |-> i.target, at |-> at, id |-> id]
    BY <1>1
  <1>4. /\ b.o = i.o /\ b.target = i.target /\ b.at = at /\ b.id = id
        /\ b = [o |-> b.o, target |-> b.target, at |-> b.at, id |-> b.id]
    BY <1>3
  <1> QED
    BY <1>4 DEF a, DemoAt

LEMMA NextDemo ==
  ASSUME PagesInv, NEW u \in Users, NextDemoStep(u)
  PROVE  QuietStep(u)
  <1> DEFINE j == job[u]
             i == j.item
             next == IF j.kind \in Buys THEN j.shown ELSE i.id
             k == DemoAt(i, i.at + 1, next)
  <1>1. /\ j.page = "demo" /\ opened' = opened /\ Become(u, Ready("demo", k))
    BY DEF NextDemoStep, DemoAt
  <1>2. j.step = "done"
    BY <1>1 DEF Become
  <1>3. /\ j.kind \in Buttons(j) /\ j.kind \in Kinds /\ DemoOK(i) /\ SettledOK(j)
        /\ opened[u] # 0 => opened[u] \in TradeIds /\ IsFilled(opened[u])
        /\ opened[u] # 0 => j.kind \in Buys \/ i.at >= 2
        /\ j.kind \in Buys => j.shown \in TradeIds /\ IsFilled(j.shown)
    BY <1>1, <1>2, DoneFacts DEF ItemOK
  <1>4. \/ i.at = 0 /\ j.kind = "list"
        \/ i.at = 1 /\ j.kind \in {"eth", "usdc"}
        \/ i.at = 2 /\ j.kind = "accept"
        \/ i.at = 3 /\ j.kind = "deliver"
    BY <1>1, <1>3, ButtonFacts DEF Kinds, Buys
  <1>5. /\ k.o = i.o /\ k.target = i.target /\ k.at = i.at + 1 /\ k.id = next
        /\ k = [o |-> k.o, target |-> k.target, at |-> k.at, id |-> k.id]
    BY <1>3, DemoItem DEF DemoOK
  <1> HIDE DEF k
  <1>7. ItemOK("demo", k)
    <2>1. DemoOK(k)
      BY <1>2, <1>3, <1>4, <1>5 DEF DemoOK, SettledOK, Buys
    <2> QED
      BY <2>1 DEF ItemOK
  <1>8. opened[u] # 0 => k.at >= 2
    BY <1>3, <1>4, <1>5 DEF Buys
  <1> QED
    BY <1>1, <1>3, <1>7, <1>8, BecomeStep
(***************************************************************************)
(* A transaction is mined                                                  *)
(***************************************************************************)
\* The first transaction of a queue, and what is left.
LEMMA QueueHead ==
  ASSUME NEW j, NEW q, QueueOK(j, q), q # <<>>
  PROVE  /\ TxOK(Head(q).tx)
         /\ Head(q).awaited => j.step = "waiting" /\ SentFor(j, Head(q).tx)
         /\ Head(q).awaited => \A n : QueueOK(n, Tail(q))
         /\ QueueOK(j, Tail(q))
  <1>1. PICK S : q \in Seq(S)
    BY DEF QueueOK
  <1>2. /\ Head(q) = q[1] /\ Tail(q) \in Seq(S) /\ Len(q) \in Nat /\ Len(q) > 0
        /\ Len(Tail(q)) = Len(q) - 1
        /\ \A i \in 1..(Len(q) - 1) : Tail(q)[i] = q[i + 1]
    BY <1>1, HeadTailProperties
  <1> DEFINE h == Head(q)
             t == Tail(q)
  <1> HIDE DEF h, t
  <1>3. 1 \in 1..Len(q) /\ h = q[1] /\ t \in Seq(S) /\ Len(t) = Len(q) - 1
    BY <1>2 DEF h, t
  <1>4. TxOK(h.tx) /\ (h.awaited => Len(q) = 1 /\ j.step = "waiting" /\ SentFor(j, h.tx))
    BY <1>3 DEF QueueOK
  <1>5. ASSUME NEW i \in 1..Len(t)
        PROVE  i + 1 \in 1..Len(q) /\ t[i] = q[i + 1] /\ (i + 1 = Len(q) => i = Len(t))
    <2>1. \A k \in 1..(Len(q) - 1) : t[k] = q[k + 1]
      BY <1>2 DEF t
    <2>2. i \in 1..(Len(q) - 1) /\ Len(q) \in Nat /\ Len(t) = Len(q) - 1
      BY <1>2, <1>3
    <2> QED
      BY <2>1, <2>2
  <1>6. QueueOK(j, t)
    BY <1>3, <1>5 DEF QueueOK
  <1>7. ASSUME h.awaited, NEW n PROVE QueueOK(n, t)
    <2>1. Len(t) = 0
      BY <1>2, <1>3, <1>4, <1>7
    <2>2. \A i \in 1..Len(t) : FALSE
      BY <2>1
    <2> QED
      BY <1>3, <2>2 DEF QueueOK
  <1> QED
    BY <1>4, <1>6, <1>7 DEF h, t

\* A transaction that is not the purchase of the page that waits for it.
LEMMA OtherReceipt ==
  ASSUME TypeOK, TypeOK', PastKept, NEW u \in Users, NEW j, NEW q, NEW id, Sound(u, j, q, id),
         q # <<>>, Head(q).awaited, Execute(u, Head(q).tx), Head(q).tx.fn \notin Buys
  PROVE  Sound(u, Advance(j), Tail(q), id)'
  <1> DEFINE tx == Head(q).tx
             n == Advance(j)
  <1>1. /\ TxOK(tx) /\ j.step = "waiting" /\ SentFor(j, tx) /\ QueueOK(n, Tail(q))
    BY QueueHead DEF Sound, Consistent
  <1>2. /\ j.todo \in Plans(j.kind) /\ j.kind \in Kinds /\ Head(j.todo) # "read"
    <2>1. j.todo \in Plans(j.kind) /\ j.kind \in Kinds /\ (Head(j.todo) = "read" => j.step = "busy")
      BY <1>1, UnderWay
    <2> QED
      BY <1>1, <2>1
  <1>3. Head(j.todo) = "send" => tx.fn = j.kind /\ tx.item = j.item
    BY <1>1 DEF SentFor, FinalTx
  <1>4. Consistent(u, n, Tail(q), id) /\ (Head(j.todo) # "send" => SettledOK(n))
    BY <1>1, <1>2, <1>3, AdvanceKeeps
  <1>5. n.kind = j.kind /\ n.item = j.item
    BY Advances DEF Sound, Consistent
  <1> HIDE DEF n
  <1>6. Consistent(u, n, Tail(q), id)' /\ (SettledOK(n) => SettledOK(n)')
    BY <1>4, PastKeepsSound
  <1>7. Head(j.todo) = "send" => SettledOK(n)'
    <2>1. /\ tx.fn = "accept" => trades'[tx.item.id].status # "RequestSubmitted"
          /\ tx.fn = "deliver" => trades'[tx.item.id].status = "Delivered"
      BY <1>1, ExecuteSteps
    <2> QED
      BY <1>3, <1>5, <2>1 DEF SettledOK
  <1>8. Sound(u, n, Tail(q), id)'
    BY <1>4, <1>6, <1>7 DEF Sound
  <1> QED
    BY <1>8 DEF n

\* The purchase of the page that waits for it.
LEMMA BuyReceipt ==
  ASSUME TypeOK, TypeOK', PastKept, NEW u \in Users, NEW j, NEW q, NEW id, Sound(u, j, q, id),
         q # <<>>, Head(q).awaited, Execute(u, Head(q).tx), Head(q).tx.fn \in Buys
  PROVE  /\ nextTradeId' # nextTradeId
         /\ \A new : new = nextTradeId => Sound(u, Advance(j), Tail(q), new)'
  <1> DEFINE tx == Head(q).tx
             n == Advance(j)
  <1>1. /\ TxOK(tx) /\ j.step = "waiting" /\ SentFor(j, tx) /\ QueueOK(n, Tail(q))
    BY QueueHead DEF Sound, Consistent
  <1>2. /\ Clicked(j) /\ j.todo \in Plans(j.kind) /\ j.kind \in Kinds
    BY <1>1, UnderWay
  <1>3. Head(j.todo) = "send" /\ tx = FinalTx(j)
    BY <1>1 DEF SentFor, Buys
  <1>4. tx.fn = j.kind /\ tx.item = j.item /\ tx.quote = j.quote /\ j.kind \in Buys
    BY <1>3 DEF FinalTx
  <1>5. Len(j.todo) # 1 /\ Tail(j.todo) = ReadLeft /\ ReadLeft \in Plans(j.kind)
    <2>1. Len(j.todo) # 1 /\ Tail(j.todo) = ReadLeft
      BY <1>2, <1>3, <1>4, PlanFacts
    <2>2. ReadLeft \in Plans(j.kind)
      BY <1>4 DEF Plans, Buys
    <2> QED
      BY <2>1, <2>2
  <1>6. /\ IsJob(n) /\ n.page = j.page /\ n.item = j.item /\ n.kind = j.kind
        /\ n.quote = j.quote /\ n.step = "busy" /\ n.todo = ReadLeft
    BY <1>5, Advances DEF Sound, Consistent
  <1> HIDE DEF n
  <1>7. ExecuteBuy(u, tx) /\ ItemFor(tx.fn, tx.item, tx.quote)
    <2>1. ExecuteBuy(u, tx)
      BY <1>1, ExecuteSteps
    <2>2. ItemFor(tx.fn, tx.item, tx.quote)
      BY <1>1 DEF TxOK, Buys
    <2> QED
      BY <2>1, <2>2
  <1>8. /\ nextTradeId \in TradeIds /\ nextTradeId' = nextTradeId + 1
        /\ trades'[nextTradeId].status # "None"
        /\ \A i : i = nextTradeId => TermsOf(u, i, j.kind, j.item, j.quote)'
    BY <1>4, <1>7, BuyOpens
  <1>9. ItemOK(j.page, j.item)'
    BY PastKeepsSound DEF Sound, Consistent
  <1>10. StepOK(n)
    BY <1>2, <1>5, <1>6 DEF StepOK, Clicked, Buttons
  <1>11. ASSUME NEW new, new = nextTradeId
         PROVE  Sound(u, n, Tail(q), new)'
    <2>1. new \in TradeIds /\ IsFilled(new)' /\ new # 0 /\ TermsOf(u, new, n.kind, n.item, n.quote)'
      BY <1>6, <1>8, <1>11 DEF IsFilled, TradeIds
    <2>2. PastBuy(n) /\ n.step # "done"
      BY <1>4, <1>6 DEF PastBuy
    <2>3. BoughtOK(u, n, new)'
      BY <2>1, <2>2 DEF BoughtOK, PastBuy
    <2>4. SettledOK(n)' /\ QueueOK(n, Tail(q))' /\ StepOK(n)' /\ IsJob(n)'
      BY <1>1, <1>6, <1>10 DEF SettledOK, QueueOK, StepOK, n
    <2>5. ItemOK(n.page, n.item)'
      BY <1>6, <1>9
    <2> QED
      BY <2>3, <2>4, <2>5 DEF Sound, Consistent
  <1>12. nextTradeId' # nextTradeId
    BY <1>8 DEF TradeIds
  <1> QED
    BY <1>11, <1>12 DEF n
LEMMA MineStep ==
  ASSUME PagesInv, NEW u \in Users, Mine(u)
  PROVE  /\ MarketStep /\ OthersKept(u)
         /\ \A j, q, id : j = job'[u] /\ q = mempool'[u] /\ id = opened'[u] => Sound(u, j, q, id)'
  <1> DEFINE j == job[u]
             q == mempool[u]
             id == opened[u]
             tx == Head(q).tx
             r == Tail(q)
  <1>1. q # <<>> /\ mempool' = [mempool EXCEPT ![u] = r]
    BY DEF Mine
  <1>2. Sound(u, j, q, id) /\ QueueOK(j, q)
    BY PageIsSound DEF Sound, Consistent
  <1>3. /\ TxOK(tx) /\ (Head(q).awaited => j.step = "waiting")
        /\ (Head(q).awaited => \A n : QueueOK(n, r)) /\ QueueOK(j, r)
    BY <1>1, <1>2, QueueHead
  <1>4. TypeOK /\ MarketInv /\ DOMAIN job = Users /\ DOMAIN mempool = Users /\ DOMAIN opened = Users
    BY DEF PagesInv, MarketInv
  <1>5. Sound(u, j, r, id)
    BY <1>2, <1>3 DEF Sound, Consistent
  <1> DEFINE Executed == /\ Execute(u, tx)
                         /\ IF Head(q).awaited THEN job' = [job EXCEPT ![u] = Advance(j)]
                            ELSE UNCHANGED job
                         /\ opened' = [opened EXCEPT ![u] =
                              IF Head(q).awaited /\ nextTradeId' # nextTradeId
                              THEN nextTradeId ELSE id]
             Reverted == /\ UNCHANGED <<marketVars, opened>>
                         /\ IF Head(q).awaited THEN job' = [job EXCEPT ![u] = Failed(j)]
                            ELSE UNCHANGED job
  <1>6. Executed \/ Reverted
    BY DEF Mine, OnReceipt
  <1>7. CASE Executed
    <2>1. MarketStep
      BY <1>3, <1>4, <1>7, ExecuteSteps
    <2>2. PastKept /\ TypeOK'
      BY <1>4, <2>1, StepKeepsPast, MarketInvStep DEF MarketInv
    <2>3. CASE ~Head(q).awaited
      <3>1. job' = job /\ opened' = [opened EXCEPT ![u] = id]
        BY <1>7, <2>3
      <3>2. OthersKept(u) /\ job'[u] = j /\ mempool'[u] = r /\ opened'[u] = id
        BY <1>1, <1>4, <3>1 DEF OthersKept
      <3>3. \A k, s, i : k = j /\ s = r /\ i = id => Sound(u, k, s, i)'
        BY <1>4, <1>5, <2>2, PastKeepsSound DEF Sound
      <3> QED
        BY <2>1, <3>2, <3>3
    <2>4. CASE Head(q).awaited /\ tx.fn \notin Buys
      <3>1. nextTradeId' = nextTradeId
        BY <1>3, <1>4, <1>7, <2>4, ExecuteSteps
      <3>2. job' = [job EXCEPT ![u] = Advance(j)] /\ opened' = [opened EXCEPT ![u] = id]
        BY <1>7, <2>4, <3>1
      <3>3. OthersKept(u) /\ job'[u] = Advance(j) /\ mempool'[u] = r /\ opened'[u] = id
        BY <1>1, <1>4, <3>2 DEF OthersKept
      <3>4. \A k, s, i : k = j /\ s = q /\ i = id => Sound(u, Advance(k), Tail(s), i)'
        BY <1>1, <1>2, <1>4, <1>7, <2>2, <2>4, OtherReceipt
      <3>5. \A k, s, i : k = Advance(j) /\ s = r /\ i = id => Sound(u, k, s, i)'
        BY <3>4
      <3> QED
        BY <2>1, <3>3, <3>5
    <2>5. CASE Head(q).awaited /\ tx.fn \in Buys
      <3>1. /\ nextTradeId' # nextTradeId
            /\ \A k, s, i, new : k = j /\ s = q /\ i = id /\ new = nextTradeId
                 => Sound(u, Advance(k), Tail(s), new)'
        BY <1>1, <1>2, <1>4, <1>7, <2>2, <2>5, BuyReceipt
      <3>2. job' = [job EXCEPT ![u] = Advance(j)] /\ opened' = [opened EXCEPT ![u] = nextTradeId]
        BY <1>7, <2>5, <3>1
      <3>3. OthersKept(u) /\ job'[u] = Advance(j) /\ mempool'[u] = r /\ opened'[u] = nextTradeId
        BY <1>1, <1>4, <3>2 DEF OthersKept
      <3>4. \A k, s, i : k = Advance(j) /\ s = r /\ i = nextTradeId => Sound(u, k, s, i)'
        BY <3>1
      <3> QED
        BY <2>1, <3>3, <3>4
    <2> QED
      BY <2>3, <2>4, <2>5
  <1>8. CASE Reverted
    <2>1. UNCHANGED vars /\ opened' = opened
      BY <1>8, MarketVarsKept
    <2>2. MarketStep
      BY <2>1 DEF MarketStep
    <2>3. PastKept /\ TypeOK'
      BY <1>4, <2>2, StepKeepsPast, MarketInvStep DEF MarketInv
    <2>4. PICK n : /\ job' = [job EXCEPT ![u] = n] \/ (job' = job /\ n = j)
                   /\ Sound(u, n, r, id)
      <3>1. CASE Head(q).awaited
        <4>1. ~PastBuy(j) /\ QueueOK(Failed(j), r)
          BY <1>3, <3>1 DEF PastBuy
        <4>2. Sound(u, Failed(j), r, id)
          BY <1>2, <4>1, FailedSound
        <4> QED
          BY <1>8, <3>1, <4>2
      <3>2. CASE ~Head(q).awaited
        BY <1>5, <1>8, <3>2
      <3> QED
        BY <3>1, <3>2
    <2>5. OthersKept(u) /\ job'[u] = n /\ mempool'[u] = r /\ opened'[u] = id
      BY <1>1, <1>4, <2>1, <2>4 DEF OthersKept
    <2>6. \A k, s, i : k = n /\ s = r /\ i = id => Sound(u, k, s, i)'
      BY <1>4, <2>3, <2>4, PastKeepsSound DEF Sound
    <2> QED
      BY <2>2, <2>5, <2>6
  <1> QED
    BY <1>6, <1>7, <1>8
(***************************************************************************)
(* The invariant                                                           *)
(***************************************************************************)
LEMMA PageSteps ==
  ASSUME PagesInv, NEW u \in Users, PageNext(u)
  PROVE  QuietStep(u) \/ Mine(u)
  BY LoadPageStep, ClickStep, SkipsStep, WriteStep, RefuseStep, TimeOutStep, ReadTradeStep,
     ReadFailsStep, RefreshStep, OpenTradeStep, NextDemo DEF PageNext

\* The other pages stay as they are.
LEMMA OtherPagesSound ==
  ASSUME PagesInv, TypeOK', PastKept, NEW u, OthersKept(u)
  PROVE  \A w \in Users \ {u} : \A j, q, id :
           j = job'[w] /\ q = mempool'[w] /\ id = opened'[w] => Sound(w, j, q, id)'
  <1> SUFFICES ASSUME NEW w \in Users \ {u}, NEW j, NEW q, NEW id,
                      j = job'[w], q = mempool'[w], id = opened'[w]
               PROVE  Sound(w, j, q, id)'
    OBVIOUS
  <1>1. Sound(w, j, q, id)
    BY DEF PagesInv, PagesSound, OthersKept
  <1>2. Consistent(w, j, q, id) /\ SettledOK(j) /\ TypeOK
    BY <1>1 DEF Sound, PagesInv, MarketInv
  <1> QED
    BY <1>2, PastKeepsSound DEF Sound

LEMMA PagesStep == PagesInv /\ [FrontendNext]_frontendVars => PagesInv'
  <1> SUFFICES ASSUME PagesInv, [FrontendNext]_frontendVars PROVE PagesInv'
    OBVIOUS
  <1>1. ASSUME MarketStep, NEW u, OthersKept(u),
               u \in Users => \A j, q, id :
                 j = job'[u] /\ q = mempool'[u] /\ id = opened'[u] => Sound(u, j, q, id)'
        PROVE  PagesInv'
    <2>1. MarketInv' /\ PastKept /\ TypeOK'
      BY <1>1, MarketInvStep, StepKeepsPast DEF PagesInv, MarketInv
    <2>2. \A w \in Users \ {u} : \A j, q, id :
            j = job'[w] /\ q = mempool'[w] /\ id = opened'[w] => Sound(w, j, q, id)'
      BY <1>1, <2>1, OtherPagesSound
    <2>3. PagesSound'
      BY <1>1, <2>2 DEF PagesSound
    <2> QED
      BY <1>1, <2>1, <2>3 DEF PagesInv, OthersKept
  <1>2. CASE MarketStep /\ UNCHANGED pageVars
    <2>1. PICK u : u \notin Users
      <3>1. \E u : u \notin Users
        BY MarketConstants, FrontendConstants
      <3> QED
        BY <3>1
    <2>2. OthersKept(u)
      BY <1>2 DEF PagesInv, OthersKept, pageVars
    <2> QED
      BY <1>1, <1>2, <2>1, <2>2
  <1>3. ASSUME NEW u \in Users, QuietStep(u)
        PROVE  PagesInv'
    <2>1. MarketStep /\ OthersKept(u)
      BY <1>3 DEF QuietStep, MarketStep
    <2>2. PastKept /\ TypeOK' /\ TypeOK
      BY <2>1, MarketInvStep, StepKeepsPast DEF PagesInv, MarketInv
    <2>3. ASSUME NEW j, NEW q, NEW id, j = job'[u], q = mempool'[u], id = opened'[u]
          PROVE  Sound(u, j, q, id)'
      <3>1. Sound(u, j, q, id)
        BY <1>3, <2>3 DEF QuietStep
      <3>2. Consistent(u, j, q, id) /\ SettledOK(j)
        BY <3>1 DEF Sound
      <3> QED
        BY <2>2, <3>2, PastKeepsSound DEF Sound
    <2> QED
      BY <1>1, <2>1, <2>3
  <1>4. ASSUME NEW u \in Users, Mine(u)
        PROVE  PagesInv'
    BY <1>1, <1>4, MineStep
  <1>5. CASE ChainNext
    BY <1>2, <1>5, OthersStep
  <1>6. CASE UNCHANGED frontendVars
    BY <1>2, <1>6, MarketVarsKept DEF frontendVars, MarketStep
  <1> QED
    BY <1>3, <1>4, <1>5, <1>6, PageSteps DEF FrontendNext

LEMMA PagesStart == FrontendInit => PagesInv
  <1> SUFFICES ASSUME FrontendInit PROVE PagesInv
    OBVIOUS
  <1>1. MarketInv
    BY MarketInvInit DEF FrontendInit, PurchasesInit, BidsInit
  <1>2. /\ DOMAIN job = Users /\ DOMAIN mempool = Users /\ DOMAIN opened = Users
        /\ \A u \in Users : job[u] = Blank /\ mempool[u] = <<>> /\ opened[u] = 0
    BY DEF FrontendInit
  <1>3. ASSUME NEW u \in Users PROVE Sound(u, Blank, <<>>, 0)
    <2>1. QueueOK(Blank, <<>>)
      BY DEF QueueOK
    <2>2. ItemOK("none", 0)
      BY DEF ItemOK
    <2> QED
      BY <2>1, <2>2, IdleSound DEF Blank
  <1> QED
    BY <1>1, <1>2, <1>3 DEF PagesInv, PagesSound

(***************************************************************************)
(* What the pages know of their trades, their queues and the market keeps  *)
(* up with everything others do between a click and its receipts: the      *)
(* invariant that the theorems below rest on.                              *)
(***************************************************************************)
THEOREM PagesKept == FrontendSpec => []PagesInv
  BY PagesStart, PagesStep, PTL DEF FrontendSpec

(***************************************************************************)
(* Beneath the pages the market keeps its types, the invariant of its      *)
(* settlements, and the payments of its open trades.                       *)
(***************************************************************************)
THEOREM PagesKeepMarket == FrontendSpec => [](TypeOK /\ SettlementInv /\ EscrowBacksOpenTrades)
  <1>1. PagesInv => TypeOK /\ SettlementInv /\ EscrowBacksOpenTrades
    BY BacksOpenTrades DEF PagesInv, MarketInv
  <1> QED
    BY <1>1, PagesKept, PTL

(***************************************************************************)
(* A page that says a purchase went through is right, and leads to a trade *)
(* that exists and is not older than its own.                              *)
(***************************************************************************)
THEOREM PurchasesReal == FrontendSpec => []PurchasesAreReal
  <1>1. PagesInv => PurchasesAreReal
    <2> SUFFICES ASSUME PagesInv, NEW u \in Users, job[u].step = "done", job[u].kind \in Buys
                 PROVE  LET j == job[u]
                            t == trades[opened[u]]
                        IN /\ opened[u] \in TradeIds /\ opened[u] <= j.shown
                           /\ j.shown \in TradeIds /\ IsFilled(j.shown)
                           /\ t.sourceIndex = j.item.o.sourceIndex
                           /\ IF j.kind = "match"
                              THEN t.buyer = j.item.bid.maker /\ t.targetIndex = j.item.bid.target
                              ELSE t.buyer = u /\ t.targetIndex = j.item.target
      BY DEF PurchasesAreReal
    <2>1. BoughtOK(u, job[u], opened[u]) /\ PastBuy(job[u])
      BY PageIsSound DEF Sound, Consistent, PastBuy
    <2> QED
      BY <2>1 DEF BoughtOK, TermsOf
  <1> QED
    BY <1>1, PagesKept, PTL

(***************************************************************************)
(* Paying with ether never costs more than the quote and the fee buffer.   *)
(***************************************************************************)
THEOREM EtherPricesKept == FrontendSpec => []EtherPricesBounded
  <1>1. PagesInv => EtherPricesBounded
    <2> SUFFICES ASSUME PagesInv, NEW u \in Users, opened[u] # 0, job[u].kind = "eth"
                 PROVE  trades[opened[u]].payment <= job[u].quote + FeeBuffer
      BY DEF EtherPricesBounded
    <2> DEFINE j == job[u]
    <2>1. BoughtOK(u, j, opened[u]) /\ StepOK(j)
      BY PageIsSound DEF Sound, Consistent
    <2>2. j.kind \in Buttons(j)
      BY <2>1 DEF StepOK, Clicked
    <2>3. PastBuy(j)
      <3>1. ~(j.page = "demo" /\ j.item.at >= 2)
        BY <2>2, ButtonFacts
      <3> QED
        BY <2>1, <3>1 DEF BoughtOK
    <2> QED
      BY <2>1, <2>3 DEF BoughtOK, TermsOf
  <1> QED
    BY <1>1, PagesKept, PTL

(***************************************************************************)
(* The guided demo counts a step only when the chain has taken it.         *)
(***************************************************************************)
THEOREM DemoInStep == FrontendSpec => []DemoFollowsTrade
  <1>1. PagesInv => DemoFollowsTrade
    <2> SUFFICES ASSUME PagesInv, NEW u \in Users, job[u].page = "demo", job[u].item.at >= 2
                 PROVE  LET i == job[u].item
                        IN /\ i.id \in TradeIds /\ IsFilled(i.id)
                           /\ i.at = 3 => trades[i.id].status # "RequestSubmitted"
                           /\ i.at = 4 => trades[i.id].status = "Delivered"
      BY DEF DemoFollowsTrade
    <2>1. DemoOK(job[u].item)
      BY PageIsSound DEF Sound, Consistent, ItemOK
    <2> QED
      BY <2>1 DEF DemoOK
  <1> QED
    BY <1>1, PagesKept, PTL

(***************************************************************************)
(* When the portfolio page suggests a refund, everything refundExpired     *)
(* asks for holds until somebody settles the trade: the window is over and *)
(* the market holds the payment.                                           *)
(***************************************************************************)
THEOREM RefundAdvised == FrontendSpec => []RefundAdviceStands
  <1>1. PagesInv => RefundAdviceStands
    <2> SUFFICES ASSUME PagesInv, NEW u \in Users, job[u].page = "portfolio",
                        job[u].item.advice = "refund",
                        trades[job[u].item.id].status = "RequestSubmitted"
                 PROVE  CanRefund(job[u].item.id)
      BY DEF RefundAdviceStands
    <2> DEFINE id == job[u].item.id
    <2>1. id \in TradeIds /\ IsFilled(id) /\ RefundDue(trades[id])
      BY PageIsSound DEF Sound, Consistent, ItemOK
    <2>2. TypeOK /\ BacksTrades
      BY DEF PagesInv, MarketInv
    <2>3. IsOpen(id)
      BY DEF IsOpen, OpenStatus
    <2>4. Expired(trades[id])
      <3>1. ASSUME NEW i \in TradeIds, IsFilled(i)
            PROVE  trades[i].filledAt \in Int
        BY <2>2, <3>1, FilledIsTrade DEF IsFilled, Trade
      <3>2. now \in Int /\ AcceptWindow \in Int
        BY <2>2, BeaconConstants, MarketConstants DEF TypeOK, BeaconTypeOK
      <3>3. \A i \in TradeIds :
              IsFilled(i) /\ RefundDue(trades[i]) /\ trades[i].status = "RequestSubmitted"
                => Expired(trades[i])
        BY <3>1, <3>2 DEF Expired, RefundDue
      <3> QED
        BY <2>1, <3>3
    <2> QED
      BY <2>1, <2>2, <2>3, <2>4, EscrowCovers DEF CanRefund, PaymentHeld
  <1> QED
    BY <1>1, PagesKept, PTL
=============================================================================
