------------------------------ MODULE Frontend ------------------------------
(***************************************************************************)
(* The pages of the frontend over the contracts (frontend/src/app, lib):   *)
(* what a page reads when it loads, the buttons it then offers, and the    *)
(* transactions a click sends one after the other.  Every write simulates  *)
(* the call against the latest state, sends it and waits for its receipt   *)
(* (write() of chain.ts); meanwhile others act on the same market.  Nodes  *)
(* and wallets are external: they may refuse a transaction, mine it late,  *)
(* or mine it after the page has stopped waiting.                          *)
(***************************************************************************)
EXTENDS Purchases

CONSTANTS
  Users,     \* accounts that use the pages
  Pages,     \* [Users -> the pages they visit]
  Router,    \* StakePortSwapRouter, as a spender of tokens
  Aqua,      \* the Aqua contract, as a spender of WETH
  FeeBuffer, \* ether attached for the predeploy's fee (0.01 ETH)
  Slippage,  \* tokens added to the quoted input
  MaxClicks  \* bound on the pages loaded and the clicks repeated

PageNames == {"buy", "sell", "match", "ship", "dock", "trade", "portfolio", "demo"}

ASSUME FrontendConstants ==
  /\ Users \subseteq Accounts /\ Pages \in [Users -> SUBSET PageNames]
  /\ FeeBuffer \in Nat /\ Slippage \in Nat /\ MaxClicks \in Nat

VARIABLES
  job,      \* [Users -> what the user's page is doing]
  mempool,  \* [Users -> transactions sent and not mined, in the order of their nonces]
  approved, \* pairs <<owner, spender>>: the pages approve without limit
  clicks,   \* loads and repetitions left
  opened    \* history: the trade the page's purchase opened, or 0 (a page that fails forgets it)

pageVars == <<job, mempool, approved, clicks, opened>>
frontendVars == <<marketVars, pageVars>>

\* A page that is busy or waiting for a receipt has the steps `todo` before it.  It shows
\* `item`; `kind` is the button clicked, `quote` and `state` are what the click has read,
\* `shown` is the trade the page leads to.
Job(step, page, item, kind, quote, state) ==
  [step |-> step, todo |-> <<>>, page |-> page, item |-> item, kind |-> kind,
   quote |-> quote, state |-> state, shown |-> 0]

Blank == Job("blank", "none", 0, "none", 0, 0)
Ready(page, item) == Job("ready", page, item, "none", 0, 0)

FrontendInit ==
  /\ PurchasesInit
  /\ job = [u \in Users |-> Blank]
  /\ mempool = [u \in Users |-> <<>>]
  /\ approved = {}
  /\ clicks = MaxClicks
  /\ opened = [u \in Users |-> 0]

-----------------------------------------------------------------------------
(* Loading a page                                                          *)

Load(u, page, item) ==
  /\ page \in Pages[u]
  /\ job[u].step \in {"blank", "done", "failed"} /\ clicks > 0
  /\ job' = [job EXCEPT ![u] = Ready(page, item)]
  /\ clicks' = clicks - 1
  /\ opened' = [opened EXCEPT ![u] = 0]
  /\ UNCHANGED <<marketVars, mempool, approved>>

\* What listings() reads of a listed order, in this order of precedence.
OrderState(o) ==
  IF <<o.seller, o.nonce>> \in nonceUsed THEN "filled"
  ELSE IF o.expiry < now THEN "expired"
  ELSE IF activeTradeBySource[o.sourceIndex] # 0 THEN "trading" ELSE "open"

ShownOpen(o) == o \in listed /\ OrderState(o) = "open"

\* Validators of a user, as the proof service and the pages classify them.
Active(v) == IsActiveNotExiting(v, validators[v], EpochOf(now))
OwnActive(u) == {v \in Validators : WithdrawalAddress[v] = u /\ Active(v)}
Receivers(u) == {v \in OwnActive(u) : CredsPrefix[v] = 2}
Sellable(u) == {v \in OwnActive(u) : CredsPrefix[v] \in {1, 2}}

Suitable(u, o) ==
  {v \in Receivers(u) : validators[v].eff + validators[o.sourceIndex].eff <= MaxEffective}

LoadBuy(u, o) ==
  /\ ShownOpen(o)
  /\ \E target \in Suitable(u, o) : Load(u, "buy", [o |-> o, target |-> target])

\* The bids page shows the bids their makers have shipped, and offers the pairs that match
\* at the moment it loads.
Available(b) == LET live == {s \in ShippedBy(b) : aqua[s].state = "live"}
                IN IF live = {} THEN 0 ELSE aqua[CHOOSE s \in live : TRUE].balance

Matches(b, o) ==
  LET amount == validators[o.sourceIndex].eff
  IN \E payment \in Quotes(o, amount) : WithinLimit(b, amount, payment) /\ payment <= Available(b)

LoadMatch(u, b, o) ==
  /\ ShownOpen(o) /\ Available(b) > 0 /\ Matches(b, o)
  /\ Load(u, "match", [o |-> o, bid |-> b])

\* A bid is for a validator of the maker's choice.
LoadShip(u, s) ==
  /\ s.shipper = u /\ s.bid.maker = u /\ s.bid.target \in Receivers(u)
  /\ Load(u, "ship", s)

LoadDock(u, s) ==
  /\ s.shipper = u /\ s.bid.maker = u /\ Available(s.bid) > 0
  /\ Load(u, "dock", s)

\* An unknown trade reads as one that does not exist.
TradeItem(id) == [id |-> id, status |-> IF id \in TradeIds THEN trades[id].status ELSE "None"]
LoadTrade(u, id) == IsFilled(id) /\ Load(u, "trade", TradeItem(id))

\* Faulty variant: a refund is suggested when the window ends, not after it.
RefundDueEarly(t) == now - t.filledAt >= AcceptWindow

RefundDue(t) == now - t.filledAt > AcceptWindow

\* What the portfolio page tells a party of a trade to do.
Advice(t) ==
  IF t.status = "RequestSubmitted" THEN IF RefundDue(t) THEN "refund" ELSE "accept"
  ELSE IF t.status # "Accepted" THEN "none"
  ELSE IF t.withdrawableEpoch <= EpochOf(now) THEN "deliver" ELSE "wait"

LoadPortfolio(u, id) ==
  /\ IsFilled(id) /\ u \in {trades[id].buyer, trades[id].seller}
  /\ Load(u, "portfolio", [id |-> id, advice |-> Advice(trades[id])])

\* The order of a sale or of the demo is composed by the page.
SellItem(o) == [o |-> o, delegated |-> o.seller \in delegated]

LoadSell(u, o) ==
  /\ o.seller = u /\ o.sourceIndex \in Sellable(u) /\ o.sourcePubkey = o.sourceIndex
  /\ Load(u, "sell", SellItem(o))

\* The guided demo sells to its user, step by step; `at` counts the steps done.
LoadDemo(u, o) ==
  /\ o.seller # u /\ o.sourcePubkey = o.sourceIndex
  /\ \E target \in Suitable(u, o) :
       Load(u, "demo", [o |-> o, target |-> target, at |-> 0, id |-> 0])

LoadPage(u) ==
  \/ \E o \in Orders : LoadBuy(u, o) \/ LoadSell(u, o) \/ LoadDemo(u, o)
  \/ \E b \in Bids, o \in Orders : LoadMatch(u, b, o)
  \/ \E s \in Shipments : LoadShip(u, s) \/ LoadDock(u, s)
  \/ \E id \in TradeIds : LoadTrade(u, id) \/ LoadPortfolio(u, id)

-----------------------------------------------------------------------------
(* Clicking                                                                *)

BuyButtons == {"eth", "weth", "usdc"}
SellButtons(item) == IF item.delegated THEN {"list"} ELSE {"delegate"}
TradeButtons(status) ==
  IF status = "RequestSubmitted" THEN {"accept", "refund"}
  ELSE IF status = "Accepted" THEN {"deliver"} ELSE {}
DemoButtons(at) ==
  IF at = 0 THEN {"list"} ELSE IF at = 1 THEN {"eth", "usdc"}
  ELSE IF at = 2 THEN {"accept"} ELSE IF at = 3 THEN {"deliver"} ELSE {}

Buttons(j) ==
  IF j.page = "buy" THEN BuyButtons
  ELSE IF j.page = "sell" THEN SellButtons(j.item)
  ELSE IF j.page = "trade" THEN TradeButtons(j.item.status)
  ELSE IF j.page = "demo" THEN DemoButtons(j.item.at)
  ELSE {j.page} \cap {"match", "ship", "dock"}

\* What a click does, write after write; "read" is the reading of the trade it opened.
EthPurchase    == <<"send", "read">>
WethPurchase   == <<"wrap", "approve", "send", "read">>
UsdcPurchase   == <<"approve", "send", "read">>
BidMatch       == <<"send", "read">>
BidCreation    == <<"wrap", "approve", "send">>
DemoListing    == <<"delegate", "send">>

StepsOf(page, kind) ==
  CASE kind = "eth" -> EthPurchase [] kind = "weth" -> WethPurchase
    [] kind = "usdc" -> UsdcPurchase [] kind = "match" -> BidMatch
    [] kind = "ship" -> BidCreation [] kind = "delegate" -> <<"delegate">>
    [] kind = "list" /\ page = "demo" -> DemoListing [] OTHER -> <<"send">>

Buys == {"eth", "weth", "usdc", "match"}

\* The proof service proves the state of the parent of the head, whose root is in the ring.
Newest == CHOOSE s \in roots : s.ts = now

\* Nothing is proved if the pair is not pending in that state, or the source is not
\* withdrawable by then.
AcceptedProofs(t, state) == PairIsPending(t, state)
DeliveredProofs(t, state) == state.val[t.sourceIndex].withdrawable <= EpochOf(state.slot)

Proofs(j, kind) ==
  CASE kind \in Buys -> {Newest}
    [] kind = "accept" -> {s \in {Newest} : AcceptedProofs(trades[j.item.id], s)}
    [] kind = "deliver" -> {s \in {Newest} : DeliveredProofs(trades[j.item.id], s)}
    [] OTHER -> {0}

CeilDiv(a, b) == (a + b - 1) \div b

\* For a swap the page asks for the tokens that bring the price and the buffer, and adds some.
UsdcIn(price) == {CeilDiv(price + FeeBuffer, rate) + Slippage : rate \in Rates}

\* The number the click reads before it sends anything.
Read(j, kind, state) ==
  IF kind \notin BuyButtons THEN {0}
  ELSE LET prices == Quotes(j.item.o, state.val[j.item.o.sourceIndex].eff)
       IN IF kind # "usdc" THEN prices ELSE UNION {UsdcIn(price) : price \in prices}

\* A page that has failed keeps its buttons.
Click(u, kind) ==
  LET j == job[u]
  IN /\ kind \in Buttons(j)
     /\ \/ j.step = "ready" /\ UNCHANGED clicks
        \/ j.step = "failed" /\ clicks > 0 /\ clicks' = clicks - 1
     /\ \E state \in Proofs(j, kind) : \E quote \in Read(j, kind, state) :
          job' = [job EXCEPT ![u] =
            [Job("busy", j.page, j.item, kind, quote, state) EXCEPT !.todo = StepsOf(j.page, kind)]]
     /\ UNCHANGED <<marketVars, mempool, approved, opened>>

-----------------------------------------------------------------------------
(* Transactions                                                            *)

\* WETH and allowances.
Deposit(u, amount) ==
  /\ eth[u] >= amount
  /\ eth' = Send(eth, u, Weth, amount)
  /\ weth' = [weth EXCEPT ![u] = @ + amount]
  /\ UNCHANGED <<nextTradeId, trades, nonceUsed, activeTradeBySource,
                 beaconVars, orderVars, eligibilityVars, bidVars, token, stray, cost>>

\* What a click wants to hold, and whom it lets pull it.
Need(j) == IF j.kind = "ship" THEN j.item.budget ELSE j.quote
Spender(kind) == IF kind = "weth" THEN Market ELSE IF kind = "ship" THEN Aqua ELSE Router

DepositTx(amount)  == [fn |-> "deposit", amount |-> amount]
ApproveTx(spender) == [fn |-> "approve", spender |-> spender]
DelegateTx(seller) == [fn |-> "delegate", seller |-> seller]
FinalTx(j)         == [fn |-> j.kind, item |-> j.item, quote |-> j.quote, state |-> j.state]

MayPull(owner, spender) == <<owner, spender>> \in approved

\* The purchase, the settlement, or the offer a click is about.
ExecuteBuy(u, tx) ==
  /\ tx.fn \in Buys /\ tx.state \in roots
  /\ \/ /\ tx.fn = "eth"
        /\ BuyWithEth(tx.item.o, tx.item.target, tx.state, u, u, tx.quote + FeeBuffer)
     \/ /\ tx.fn = "weth" /\ MayPull(u, Market)
        /\ BuyWithWeth(tx.item.o, tx.item.target, tx.state, u, u, FeeBuffer)
     \/ /\ tx.fn = "usdc" /\ MayPull(u, Router)
        /\ BuyWithToken(tx.item.o, tx.item.target, tx.state, u, u, tx.quote)
     \/ /\ tx.fn = "match" /\ MayPull(tx.item.bid.maker, Aqua)
        /\ BuyForBid(tx.item.bid, tx.item.o, tx.state, u, FeeBuffer)

RelayAccepted(tx)  == tx.fn = "accept" /\ tx.state \in roots /\ ProveAccepted(tx.item.id, tx.state)
RelayDelivered(tx) == tx.fn = "deliver" /\ tx.state \in roots /\ ProveDelivered(tx.item.id, tx.state)
Refund(tx)         == tx.fn = "refund" /\ RefundExpired(tx.item.id)

\* On the demo fork the page sets the seller's code itself.
EnableDelegation(tx) == tx.fn = "delegate" /\ tx.seller \notin delegated /\ SetDelegation(tx.seller)

ExecuteMarket(tx) ==
  /\ \/ RelayAccepted(tx) \/ RelayDelivered(tx) \/ Refund(tx) \/ EnableDelegation(tx)
     \/ tx.fn = "list" /\ ListOrder(tx.item.o)
  /\ UNCHANGED <<bidVars, purchaseVars>>

ExecuteBid(tx) ==
  /\ (tx.fn = "ship" /\ Ship(tx.item)) \/ (tx.fn = "dock" /\ Dock(tx.item))
  /\ UNCHANGED purchaseVars

Execute(u, tx) ==
  \/ tx.fn = "approve" /\ approved' = approved \cup {<<u, tx.spender>>} /\ UNCHANGED marketVars
  \/ tx.fn = "deposit" /\ Deposit(u, tx.amount) /\ UNCHANGED approved
  \/ (ExecuteBuy(u, tx) \/ ExecuteMarket(tx) \/ ExecuteBid(tx)) /\ UNCHANGED approved

\* A call against the latest state succeeds.
Succeeds(u, tx) == ENABLED Execute(u, tx)

-----------------------------------------------------------------------------
(* Sending and waiting                                                     *)

\* The transaction a step sends: none when there is enough, or leave already.
TxOf(u) ==
  LET j    == job[u]
      step == Head(j.todo)
  IN CASE step = "wrap" -> IF weth[u] >= Need(j) THEN {} ELSE {DepositTx(Need(j) - weth[u])}
       [] step = "approve" -> IF MayPull(u, Spender(j.kind)) THEN {} ELSE {ApproveTx(Spender(j.kind))}
       [] step = "delegate" -> IF j.item.o.seller \in delegated THEN {} ELSE {DelegateTx(j.item.o.seller)}
       [] step = "send" -> {FinalTx(j)}

Waiting(u) == job[u].step = "waiting"
Sending(u) == job[u].step = "busy" /\ Head(job[u].todo) # "read"

\* The page goes on to the next step of its click.
Advance(j) ==
  IF Len(j.todo) = 1 THEN [j EXCEPT !.step = "done", !.todo = <<>>, !.state = 0]
  ELSE [j EXCEPT !.step = "busy", !.todo = Tail(@)]

\* A page that has failed forgets what its click has read; its buttons read it again.
Failed(j) == Job("failed", j.page, j.item, "none", 0, 0)

\* Faulty variant: the status of the receipt is not looked at.
ReceiptUnchecked(j, succeeded) == Advance(j)

\* The receipt is that of the transaction sent: replacing it in the wallet is left out.
OnReceipt(j, succeeded) == IF succeeded THEN Advance(j) ELSE Failed(j)

SkipStep(u) ==
  /\ Sending(u) /\ TxOf(u) = {}
  /\ job' = [job EXCEPT ![u] = Advance(@)]
  /\ UNCHANGED <<marketVars, mempool, approved, clicks, opened>>

\* The simulation succeeds and the transaction is sent.
Write(u) ==
  /\ Sending(u)
  /\ \E tx \in TxOf(u) :
       /\ Succeeds(u, tx)
       /\ mempool' = [mempool EXCEPT ![u] = Append(@, [tx |-> tx, awaited |-> TRUE])]
  /\ job' = [job EXCEPT ![u].step = "waiting"]
  /\ UNCHANGED <<marketVars, approved, clicks, opened>>

\* The simulation reverts, the wallet refuses, or a read before them fails.
Refuse(u) ==
  /\ Sending(u)
  /\ job' = [job EXCEPT ![u] = Failed(@)]
  /\ UNCHANGED <<marketVars, mempool, approved, clicks, opened>>

\* The first transaction of an account is mined; the page that waits for it goes on.
Mine(u) ==
  /\ mempool[u] # <<>>
  /\ LET t == Head(mempool[u])
         Seen(succeeded) ==
           IF t.awaited THEN job' = [job EXCEPT ![u] = OnReceipt(@, succeeded)] ELSE UNCHANGED job
     IN \/ /\ Execute(u, t.tx)
           /\ Seen(TRUE)
           /\ opened' = [opened EXCEPT ![u] =
                IF t.awaited /\ nextTradeId' # nextTradeId THEN nextTradeId ELSE @]
        \/ /\ ~Succeeds(u, t.tx)
           /\ Seen(FALSE)
           /\ UNCHANGED <<marketVars, approved, opened>>
  /\ mempool' = [mempool EXCEPT ![u] = Tail(@)]
  /\ UNCHANGED clicks

\* Waiting for the receipt times out; the transaction stays in the mempool.
TimeOut(u) ==
  /\ Waiting(u)
  /\ job' = [job EXCEPT ![u] = Failed(@)]
  /\ mempool' = [mempool EXCEPT ![u] =
       [i \in 1..Len(@) |-> [@[i] EXCEPT !.awaited = FALSE]]]
  /\ UNCHANGED <<marketVars, approved, clicks, opened>>

\* After a purchase the page reads the counter of trades and takes the last one.
LastTrade == nextTradeId - 1

Reading(u) == job[u].step = "busy" /\ Head(job[u].todo) = "read"

ReadTradeId(u) ==
  /\ Reading(u)
  /\ job' = [job EXCEPT ![u] = [Advance(@) EXCEPT !.shown = LastTrade]]
  /\ UNCHANGED <<marketVars, mempool, approved, clicks, opened>>

\* That read fails: the page reports a failed purchase and offers its buttons again.
ReadFails(u) ==
  /\ Reading(u)
  /\ job' = [job EXCEPT ![u] = Failed(@)]
  /\ opened' = [opened EXCEPT ![u] = 0]
  /\ UNCHANGED <<marketVars, mempool, approved, clicks>>

-----------------------------------------------------------------------------
(* Going on                                                                *)

Become(u, j) ==
  /\ job[u].step = "done"
  /\ job' = [job EXCEPT ![u] = j]
  /\ UNCHANGED <<marketVars, mempool, approved, clicks>>

\* The sell page and a trade's page read again what they show.
Refresh(u) ==
  LET j == job[u]
  IN /\ \/ j.kind = "delegate" /\ Become(u, Ready("sell", SellItem(j.item.o)))
        \/ j.page = "trade" /\ Become(u, Ready("trade", TradeItem(j.item.id)))
     /\ UNCHANGED opened

\* A page that has bought moves on to the trade's page.
OpenTradePage(u) ==
  /\ "trade" \in Pages[u] /\ job[u].kind \in Buys /\ job[u].page # "demo"
  /\ Become(u, Ready("trade", TradeItem(job[u].shown)))
  /\ opened' = [opened EXCEPT ![u] = 0]

\* The demo counts the step and keeps the trade it has read.
NextDemoStep(u) ==
  LET j == job[u]
  IN /\ j.page = "demo"
     /\ Become(u, Ready("demo", [j.item EXCEPT !.at = @ + 1,
                                               !.id = IF j.kind \in Buys THEN j.shown ELSE @]))
     /\ UNCHANGED opened

-----------------------------------------------------------------------------
PageNext(u) ==
  \/ LoadPage(u)
  \/ \E kind \in Buttons(job[u]) : Click(u, kind)
  \/ SkipStep(u) \/ Write(u) \/ Refuse(u) \/ Mine(u) \/ TimeOut(u)
  \/ ReadTradeId(u) \/ ReadFails(u) \/ Refresh(u) \/ OpenTradePage(u) \/ NextDemoStep(u)

\* Sellers who do not use the pages, and the consensus layer.
ChainNext ==
  /\ \/ FillsLeft /\ \E seller \in Sellers \ (Users \cup delegated) : SetDelegation(seller)
     \/ FillsLeft /\ \E o \in Orders :
          /\ o.seller \in delegated \ Users
          /\ ListOrder(o) \/ (o \in listed /\ CancelOrder(o.seller, o.nonce))
     \/ (NewBlock \/ \E v \in Validators : Sweep(v)) /\ UNCHANGED <<orderVars, tradeVars, eligibilityVars>>
  /\ UNCHANGED <<bidVars, purchaseVars, pageVars>>

FrontendNext == ChainNext \/ \E u \in Users : PageNext(u)

FrontendSpec == FrontendInit /\ [][FrontendNext]_frontendVars

-----------------------------------------------------------------------------
(***************************************************************************)
(* A page that says a purchase went through is right: its transaction has  *)
(* opened a trade for this buyer (for the maker of a matched bid), with    *)
(* the stake and the target of the page, although others bought and sold   *)
(* between the simulation and the block; and the trade the page shows      *)
(* exists and is not older than its own.  (Of wallets that mine what they  *)
(* were asked to sign: viem also takes the receipt of a transaction that   *)
(* replaced the one sent, so after cancelling a purchase in the wallet the *)
(* page would report one that was not made.)                               *)
(***************************************************************************)
PurchasesAreReal ==
  \A u \in Users :
    LET j == job[u]
        t == trades[opened[u]]
    IN j.step = "done" /\ j.kind \in Buys =>
         /\ opened[u] \in TradeIds /\ opened[u] <= j.shown
         /\ j.shown \in TradeIds /\ IsFilled(j.shown)
         /\ t.sourceIndex = j.item.o.sourceIndex
         /\ IF j.kind = "match" THEN t.buyer = j.item.bid.maker /\ t.targetIndex = j.item.bid.target
            ELSE t.buyer = u /\ t.targetIndex = j.item.target

(***************************************************************************)
(* Paying with ether never costs more than the page quoted and the fee     *)
(* buffer, even if the price of an LST-relative listing rises before the   *)
(* block: the attached value is the limit.  (Paying with WETH has none.)   *)
(***************************************************************************)
EtherPricesBounded ==
  \A u \in Users : opened[u] # 0 /\ job[u].kind = "eth" =>
    trades[opened[u]].payment <= job[u].quote + FeeBuffer

\* Everything refundExpired asks for.
CanRefund(id) == Expired(trades[id]) /\ PaymentHeld(trades[id])

(***************************************************************************)
(* "Accept window passed, refund can be claimed": as long as nobody has    *)
(* settled the trade the portfolio page shows, the refund it suggests      *)
(* succeeds, however late the user follows the link.                       *)
(***************************************************************************)
RefundAdviceStands ==
  \A u \in Users : LET j == job[u] IN
    j.page = "portfolio" /\ j.item.advice = "refund" =>
      trades[j.item.id].status # "RequestSubmitted" \/ CanRefund(j.item.id)

(***************************************************************************)
(* The guided demo counts a step only when the chain has taken it: the     *)
(* trade it goes on with exists, has been accepted before the third step   *)
(* is counted (and may have failed since) and is delivered at the end,     *)
(* although others buy at the same time and receipts may not come.         *)
(***************************************************************************)
DemoFollowsTrade ==
  \A u \in Users : LET i == job[u].item IN
    job[u].page = "demo" /\ i.at >= 2 =>
      /\ i.id \in TradeIds /\ IsFilled(i.id)
      /\ i.at = 3 => trades[i.id].status # "RequestSubmitted"
      /\ i.at = 4 => trades[i.id].status = "Delivered"

(***************************************************************************)
(* The comment at fillWithWeth: "Returns the new trade id."  The page a    *)
(* purchase leads to is the page of the trade it opened.                   *)
(***************************************************************************)
RedirectsToOwnTrade ==
  \A u \in Users : job[u].step = "done" /\ job[u].kind \in Buys => job[u].shown = opened[u]
=============================================================================
