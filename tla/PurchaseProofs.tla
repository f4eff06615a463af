--------------------------- MODULE PurchaseProofs ---------------------------
(***************************************************************************)
(* The market's guarantees survive its customers: whatever the hook, the   *)
(* router and the Aqua app do, the market sees a fill by some payer for    *)
(* some buyer, so that what is proved of MarketNext holds of Purchases;    *)
(* and the books balance: the WETH and the ether of the market, the hook,  *)
(* the bid app and every account are sums over the trades there have been. *)
(***************************************************************************)
EXTENDS Purchases, StakeMarketProofs

LEMMA BidTerms ==
  ASSUME NEW b \in Bids
  PROVE  /\ b.maker \in Accounts /\ b.target \in Validators /\ b.maxPrice \in Nat
         /\ b.minStake \in Nat /\ b.maxStake \in Nat
         /\ HasAuction(b) => b.pricing \in Auction
  BY BidConstants DEF StakeBid, HasAuction

\* What a match does: its order is filled at a price within the bid's limits.
LEMMA MatchIsFill ==
  ASSUME NEW b \in Bids, NEW o \in Orders, NEW state \in roots, MatchBid(b, o, state)
  PROVE  AnyFill
  <1>1. PICK payment :
          /\ PullInto(b, payment) /\ FillFor(o, b.target, state, b.maker, payment)
    BY DEF MatchBid, BuyerFor
  <1>2. /\ weth[b.maker] >= payment
        /\ weth' = [weth EXCEPT ![b.maker] = @ - payment, ![Market] = @ + payment]
    BY <1>1 DEF PullInto
  <1>3. b.maker \in Accounts /\ b.target \in Validators
    BY BidTerms
  <1> QED
    BY <1>1, <1>2, <1>3 DEF AnyFill

LEMMA BuyIsFill ==
  ASSUME BuyNext
  PROVE  AnyFill
  <1>1. PICK o \in Orders, state \in roots, payer \in Payers :
          \/ \E target \in Targets, buyer \in Buyers :
               \/ \E value \in Values : BuyWithWeth(o, target, state, buyer, payer, value)
               \/ \E value \in Values : BuyWithEth(o, target, state, buyer, payer, value)
               \/ \E amountIn \in Inputs : BuyWithToken(o, target, state, buyer, payer, amountIn)
          \/ \E b \in Bids, value \in Values : BuyForBid(b, o, state, payer, value)
    BY DEF BuyNext
  <1>2. CASE \E b \in Bids, value \in Values : BuyForBid(b, o, state, payer, value)
    BY <1>2, MatchIsFill DEF BuyForBid
  <1>3. CASE \E target \in Targets, buyer \in Buyers :
               FillWithEth(o, target, state, buyer) \/ Fill(o, target, state, buyer, payer)
    BY <1>3, FillIsAnyFill
  <1> QED
    BY <1>1, <1>2, <1>3 DEF BuyWithWeth, BuyWithEth, BuyWithToken

LEMMA PurchasesAreMarketSteps == [PurchasesNext]_marketVars => [MarketNext]_vars
  <1> SUFFICES ASSUME [PurchasesNext]_marketVars PROVE MarketNext \/ UNCHANGED vars
    OBVIOUS
  <1>1. CASE BuyNext
    BY <1>1, BuyIsFill DEF MarketNext
  <1>2. CASE OtherNext
    <2>1. CASE FillsLeft /\ \E seller \in Sellers : SetDelegation(seller)
      BY <2>1 DEF AnyOffer, MarketNext
    <2>2. CASE SettleNext \/ BeaconNext
      BY <2>2 DEF MarketNext
    <2>3. CASE \E s \in Shipments : Ship(s) \/ Dock(s)
      BY <2>3 DEF Ship, Dock
    <2> QED
      BY <1>2, <2>1, <2>2, <2>3 DEF OtherNext
  <1>3. CASE UNCHANGED marketVars
    BY <1>3 DEF marketVars, allVars
  <1> QED
    BY <1>1, <1>2, <1>3 DEF PurchasesNext

(***************************************************************************)
(* The market's types and the invariant of its settlements hold whoever    *)
(* buys through the hook, the router or the Aqua app.                      *)
(***************************************************************************)
THEOREM PurchasesKeepMarket == PurchasesSpec => [](TypeOK /\ SettlementInv)
  <1>1. PurchasesInit => TypeOK /\ SettlementInv
    BY InitType, SettlementInit DEF PurchasesInit, BidsInit
  <1> QED
    BY <1>1, StepType, SettlementStep, PurchasesAreMarketSteps, PTL DEF PurchasesSpec

(***************************************************************************)
(* Delivery versus payment holds of every way into a fill: with the hook,  *)
(* the router and the Aqua app around it the market still implements DvP.  *)
(***************************************************************************)
THEOREM PurchasesImplementDvP == PurchasesSpec => ImplementsDvP
  <1>1. PurchasesInit => Abstract!Init
    BY RefinementInit DEF PurchasesInit, BidsInit
  <1> QED
    BY <1>1, DvPStep, PurchasesKeepMarket, PurchasesAreMarketSteps, PTL
       DEF PurchasesSpec, ImplementsDvP, Abstract!Spec

(***************************************************************************)
(* The request in the predeploy's queue is for the locked stake and the    *)
(* buyer's target also where a bid's maker is the buyer.                   *)
(***************************************************************************)
THEOREM PurchasesNameStake == PurchasesSpec => []RequestNamesLockedStake
  BY RequestsNamed, PurchasesKeepMarket, PTL

(***************************************************************************)
(* It does so also when the hook, the router and the Aqua app buy.         *)
(***************************************************************************)
THEOREM PurchasesBackEscrow == PurchasesSpec => []EscrowBacksOpenTrades
  <1>1. PurchasesInit => BacksTrades
    BY BacksTradesInit DEF PurchasesInit, BidsInit
  <1> QED
    BY <1>1, BacksTradesStep, BacksOpenTrades, PurchasesKeepMarket,
       PurchasesAreMarketSteps, PTL DEF PurchasesSpec, SettlementInv

(***************************************************************************)
(* Bids and the trades they are matched with                               *)
(***************************************************************************)
WithinTerms(t, b) ==
  /\ t.targetIndex = b.target
  /\ t.amount \in b.minStake..b.maxStake
  /\ t.payment * PriceUnit <= t.amount * b.maxPrice
  /\ HasAuction(b) =>
       /\ t.filledAt <= b.pricing.from + b.pricing.duration
       /\ t.payment <= AuctionPrice(b, t.amount, t.filledAt)

MatchedTrades ==
  \A id \in TradeIds : matched[id] # NoBid => IsFilled(id) /\ WithinTerms(trades[id], matched[id])

MatchInv == matched \in [TradeIds -> Bids \cup {NoBid}] /\ MatchedTrades

\* What a fill agreed on stays as it is.
TermsKept ==
  \A id \in TradeIds : IsFilled(id) =>
    /\ IsFilled(id)'
    /\ trades'[id].targetIndex = trades[id].targetIndex
    /\ trades'[id].amount = trades[id].amount
    /\ trades'[id].payment = trades[id].payment
    /\ trades'[id].filledAt = trades[id].filledAt

LEMMA SettleKeepsAmounts ==
  ASSUME TypeOK, SettleNext
  PROVE  TermsKept
  <1>1. PICK id \in TradeIds :
          /\ IsOpen(id) /\ trades[id] \in Trade
          /\ \/ \E state \in roots : ProveAccepted(id, state)
             \/ \E outcome \in {"Delivered", "Failed"}, payee \in Accounts :
                  Close(id, outcome, payee)
    <2>1. ASSUME NEW id \in TradeIds, trades[id] \in Trade
          PROVE  trades[id].seller \in Accounts /\ trades[id].buyer \in Accounts
      BY <2>1 DEF Trade
    <2> QED
      BY <2>1, SettleSteps
  <1>2. /\ \A i \in TradeIds : i # id => trades'[i] = trades[i]
        /\ trades'[id].targetIndex = trades[id].targetIndex
        /\ trades'[id].amount = trades[id].amount
        /\ trades'[id].payment = trades[id].payment
        /\ trades'[id].filledAt = trades[id].filledAt
        /\ trades'[id].status \in {"Accepted", "Delivered", "Failed"}
    <2>1. CASE \E state \in roots : ProveAccepted(id, state)
      <3>1. PICK epoch : trades' = [trades EXCEPT ![id].withdrawableEpoch = epoch,
                                                   ![id].status = "Accepted"]
        BY <2>1 DEF ProveAccepted
      <3> QED
        BY <1>1, <3>1 DEF TypeOK, Trade
    <2>2. CASE \E outcome \in {"Delivered", "Failed"}, payee \in Accounts :
                 Close(id, outcome, payee)
      BY <1>1, <2>2 DEF Close, TypeOK, Trade
    <2> QED
      BY <1>1, <2>1, <2>2
  <1> QED
    BY <1>2 DEF TermsKept, IsFilled

LEMMA FillKeepsAmounts ==
  ASSUME TypeOK, SaleInv, AnyFill
  PROVE  TermsKept
  <1>1. PICK o \in Orders, target \in Validators, state \in roots, buyer \in Accounts :
          \E payment : FillFor(o, target, state, buyer, payment)
    BY DEF AnyFill
  <1>2. PICK payment : FillFor(o, target, state, buyer, payment)
    BY <1>1
  <1>3. /\ nextTradeId \in TradeIds /\ nextTradeId \in Nat
        /\ \A id \in TradeIds : id # nextTradeId => trades'[id] = trades[id]
    BY <1>2, FillFacts
  <1>4. ~IsFilled(nextTradeId)
    BY <1>3 DEF SaleInv, FreshIds
  <1> QED
    BY <1>3, <1>4 DEF TermsKept, IsFilled

LEMMA StepKeepsAmounts ==
  ASSUME TypeOK, SaleInv, [PurchasesNext]_marketVars
  PROVE  TermsKept
  <1>1. CASE trades' = trades
    BY <1>1 DEF TermsKept, IsFilled
  <1>2. [MarketNext]_vars
    BY PurchasesAreMarketSteps
  <1>3. CASE AnyOffer \/ AnyAttest \/ BeaconNext \/ UNCHANGED vars
    BY <1>1, <1>3 DEF AnyOffer, ListOrder, ListOrderWithPolicy, CancelOrder, UseNonce,
       SetDelegation, AnyAttest, Attest, BeaconNext, tradeVars, vars
  <1> QED
    BY <1>2, <1>3, SettleKeepsAmounts, FillKeepsAmounts DEF MarketNext

\* The app's checks put the terms of the new trade within the bid's.
LEMMA MatchedWithinTerms ==
  ASSUME TypeOK, NEW b \in Bids, NEW o \in Orders, NEW state \in roots, MatchBid(b, o, state)
  PROVE  /\ nextTradeId \in TradeIds /\ trades'[nextTradeId].status = "RequestSubmitted"
         /\ WithinTerms(trades'[nextTradeId], b)
         /\ matched' = [matched EXCEPT ![nextTradeId] = b]
  <1> DEFINE amount == state.val[o.sourceIndex].eff
             t == trades'[nextTradeId]
  <1>1. PICK payment :
          /\ amount \in b.minStake..b.maxStake
          /\ WithinLimit(b, amount, payment)
          /\ FillFor(o, b.target, state, b.maker, payment)
          /\ matched' = [matched EXCEPT ![nextTradeId] = b]
    BY DEF MatchBid, BuyerFor
  <1>2. /\ b.maker \in Accounts /\ b.target \in Validators /\ b.maxPrice \in Nat
        /\ b.minStake \in Nat /\ b.maxStake \in Nat
        /\ HasAuction(b) => b.pricing \in Auction
    BY BidTerms
  <1>3. payment \in Nat
    BY <1>1, <1>2, FillType
  <1>4. nextTradeId \in TradeIds
    BY <1>1, <1>2, FillFacts
  <1>5. /\ t.targetIndex = b.target /\ t.amount = amount /\ t.payment = payment
        /\ t.filledAt = now /\ t.status = "RequestSubmitted"
    BY <1>1, <1>4 DEF FillFor, OpenTrade, TypeOK
  <1>6. amount \in Nat
    BY <1>1, <1>2
  <1>7. payment * PriceUnit <= amount * b.maxPrice
    <2>1. payment <= (amount * b.maxPrice) \div PriceUnit
      BY <1>1 DEF WithinLimit, MaxPayment
    <2>2. amount * b.maxPrice \in Nat /\ PriceUnit \in Nat \ {0}
      BY <1>2, <1>6, MarketConstants
    <2>3. /\ (amount * b.maxPrice) \div PriceUnit \in Nat
          /\ PriceUnit * ((amount * b.maxPrice) \div PriceUnit) <= amount * b.maxPrice
      BY <2>2, DivBounds
    <2>4. payment * PriceUnit <= ((amount * b.maxPrice) \div PriceUnit) * PriceUnit
      BY <1>3, <2>1, <2>2, <2>3
    <2> QED
      BY <1>3, <2>2, <2>3, <2>4
  <1>8. HasAuction(b) =>
          /\ now <= b.pricing.from + b.pricing.duration
          /\ payment <= AuctionPrice(b, amount, now)
    BY <1>1 DEF WithinLimit, AuctionRuns
  <1> HIDE DEF amount, t
  <1>9. WithinTerms(t, b)
    BY <1>1, <1>5, <1>7, <1>8 DEF WithinTerms
  <1> QED
    BY <1>1, <1>4, <1>5, <1>9 DEF t

LEMMA MatchStep ==
  TypeOK /\ SaleInv /\ MatchInv /\ [PurchasesNext]_marketVars => MatchInv'
  <1> SUFFICES ASSUME TypeOK, SaleInv, MatchInv, [PurchasesNext]_marketVars
               PROVE  MatchInv'
    OBVIOUS
  <1>1. TermsKept
    BY StepKeepsAmounts
  <1>2. ASSUME NEW id \in TradeIds, matched[id] # NoBid
        PROVE  IsFilled(id)' /\ WithinTerms(trades'[id], matched[id])
    <2>1. IsFilled(id) /\ WithinTerms(trades[id], matched[id])
      BY <1>2 DEF MatchInv, MatchedTrades
    <2> QED
      BY <1>1, <2>1 DEF TermsKept, WithinTerms
  <1>3. CASE matched' = matched
    BY <1>2, <1>3 DEF MatchInv, MatchedTrades
  <1>4. CASE \E b \in Bids, o \in Orders, state \in roots : MatchBid(b, o, state)
    <2>1. PICK b \in Bids, o \in Orders, state \in roots : MatchBid(b, o, state)
      BY <1>4
    <2>2. /\ nextTradeId \in TradeIds /\ trades'[nextTradeId].status = "RequestSubmitted"
          /\ WithinTerms(trades'[nextTradeId], b)
          /\ matched' = [matched EXCEPT ![nextTradeId] = b]
      BY <2>1, MatchedWithinTerms
    <2>3. /\ matched'[nextTradeId] = b
          /\ \A id \in TradeIds : id # nextTradeId => matched'[id] = matched[id]
          /\ matched' \in [TradeIds -> Bids \cup {NoBid}]
      BY <2>2 DEF MatchInv
    <2>4. MatchedTrades'
      BY <1>2, <2>2, <2>3 DEF MatchedTrades, IsFilled
    <2> QED
      BY <2>3, <2>4 DEF MatchInv
  <1> QED
    BY <1>3, <1>4 DEF PurchasesNext, BuyNext, OtherNext, BuyWithWeth, BuyWithEth, BuyWithToken,
       BuyForBid, Ship, Dock, bidVars, allVars, marketVars

(***************************************************************************)
(* Whatever the oracle, the auction and the caller do, a trade matched     *)
(* with a bid keeps the bid's target, size range and price caps for good.  *)
(***************************************************************************)
THEOREM BidTermsKept == PurchasesSpec => []MatchesWithinTerms
  <1>1. PurchasesInit => MatchInv
    BY DEF PurchasesInit, BidsInit, MatchInv, MatchedTrades
  <1>2. PurchasesSpec => []MatchInv
    BY <1>1, MatchStep, PurchasesKeepMarket, PTL DEF PurchasesSpec, SettlementInv
  <1>3. MatchInv => MatchesWithinTerms
    BY DEF MatchInv, MatchedTrades, MatchesWithinTerms, WithinTerms
  <1> QED
    BY <1>2, <1>3, PTL

(***************************************************************************)
(* The ether of one call                                                   *)
(***************************************************************************)
IsLedger(l) == l = [p \in Purses |-> l[p]]

LEMMA PurseNames ==
  /\ Accounts \subseteq Purses /\ Contracts \subseteq Purses
  /\ {Market, Hook, BidApp, PoolManager, Predeploy, Weth} \subseteq Purses
  /\ Market # Hook /\ Market # BidApp /\ Hook # BidApp
  /\ \A c \in Contracts : c \notin {PoolManager, Predeploy, Weth}
  /\ \A a \in Buyers \cup Payers \cup Sellers : a \in Accounts /\ a \notin Contracts
  <1>1. Sellers \subseteq Accounts
    BY MarketConstants DEF Sellers, Order
  <1> QED
    BY <1>1, PurchaseConstants, MarketConstants, BidConstants DEF Purses, Holders, Contracts

LEMMA SendBalances ==
  ASSUME NEW l, IsLedger(l), NEW from \in Purses, NEW to \in Purses, NEW amount
  PROVE  /\ IsLedger(Send(l, from, to, amount))
         /\ \A p \in Purses \ {from, to} : Send(l, from, to, amount)[p] = l[p]
         /\ from # to => /\ Send(l, from, to, amount)[from] = l[from] - amount
                         /\ Send(l, from, to, amount)[to] = l[to] + amount
  BY DEF IsLedger, Send

\* requestConsolidation leaves a contract's balance as it was, but for the market's:
\* it is down by the fee.
LEMMA RequestedBalances ==
  ASSUME NEW l, IsLedger(l), NEW seller \in Sellers, NEW value \in Int, NEW fee \in Int,
         l[Market] \in Int
  PROVE  LET r == Requested(l, seller, value, fee)
         IN /\ IsLedger(r) /\ r[Market] = l[Market] - fee
            /\ r[Hook] = l[Hook] /\ r[BidApp] = l[BidApp]
  <1> DEFINE r1 == Send(l, Market, seller, value)
             r2 == Send(r1, seller, Predeploy, fee)
             r3 == Send(r2, seller, Market, value - fee)
  <1>1. /\ seller \in Purses /\ seller \notin Contracts
        /\ Market \in Purses /\ Predeploy \in Purses /\ Predeploy \notin Contracts
        /\ Contracts \subseteq Purses
    BY PurseNames
  <1>2. /\ IsLedger(r1) /\ r1[Market] = l[Market] - value
        /\ \A p \in Contracts \ {Market} : r1[p] = l[p]
    BY <1>1, SendBalances DEF Contracts
  <1> HIDE DEF r1
  <1>3. IsLedger(r2) /\ \A p \in Contracts : r2[p] = r1[p]
    BY <1>1, <1>2, SendBalances
  <1> HIDE DEF r2
  <1>4. /\ IsLedger(r3) /\ r3[Market] = r2[Market] + (value - fee)
        /\ \A p \in Contracts \ {Market} : r3[p] = r2[p]
    BY <1>1, <1>3, SendBalances DEF Contracts
  <1>5. Requested(l, seller, value, fee) = r3
    BY DEF Requested, r1, r2
  <1> HIDE DEF r3
  <1>6. r3[Market] = l[Market] - fee
    BY <1>2, <1>3, <1>4 DEF Contracts
  <1>7. r3[Hook] = l[Hook] /\ r3[BidApp] = l[BidApp]
    BY <1>2, <1>3, <1>4, PurseNames DEF Contracts
  <1> QED
    BY <1>4, <1>5, <1>6, <1>7

\* A fill leaves no ether in the market; the caller is down by the payment and the fee.
LEMMA FilledBalances ==
  ASSUME NEW l, IsLedger(l), NEW seller \in Sellers, NEW caller \in Accounts,
         NEW value \in Int, NEW wrapped \in Int, NEW fee \in Int,
         \A c \in Contracts : l[c] \in Int
  PROVE  LET f == Filled(l, seller, caller, value, wrapped, fee)
         IN /\ IsLedger(f) /\ f[Market] = l[Market]
            /\ \A c \in {Hook, BidApp} :
                 f[c] = IF c = caller THEN l[c] - wrapped - fee ELSE l[c]
  <1> DEFINE paid == Send(l, caller, Market, value)
             held == Send(paid, Market, Weth, wrapped)
             before == held[Market] - (value - wrapped)
             after == Requested(held, seller, value - wrapped, fee)
             f == Send(after, Market, caller, after[Market] - before)
  <1>1. /\ caller \in Purses /\ caller # Market /\ Market \in Purses
        /\ Weth \in Purses /\ Weth \notin Contracts
        /\ {Hook, BidApp} \subseteq Purses \ {Market} /\ {Market, Hook, BidApp} = Contracts
    BY PurseNames, MarketConstants DEF Contracts
  <1>2. /\ IsLedger(paid) /\ paid[Market] = l[Market] + value
        /\ \A c \in {Hook, BidApp} : paid[c] = IF c = caller THEN l[c] - value ELSE l[c]
    BY <1>1, SendBalances
  <1> HIDE DEF paid
  <1>3. /\ IsLedger(held) /\ held[Market] = paid[Market] - wrapped
        /\ \A c \in {Hook, BidApp} : held[c] = paid[c]
    BY <1>1, <1>2, SendBalances
  <1> HIDE DEF held
  <1>4. held[Market] = l[Market] + value - wrapped /\ held[Market] \in Int /\ l[Market] \in Int
    BY <1>1, <1>2, <1>3
  <1>5. /\ IsLedger(after) /\ after[Market] = held[Market] - fee
        /\ \A c \in {Hook, BidApp} : after[c] = held[c]
    BY <1>3, <1>4, RequestedBalances
  <1> HIDE DEF after
  <1>6. /\ after[Market] \in Int /\ before = l[Market]
        /\ after[Market] - before = value - wrapped - fee
    BY <1>4, <1>5
  <1>7. /\ IsLedger(f) /\ f[Market] = after[Market] - (after[Market] - before)
        /\ \A c \in {Hook, BidApp} :
             f[c] = IF c = caller THEN after[c] + (after[Market] - before) ELSE after[c]
    BY <1>1, <1>5, SendBalances
  <1>8. Filled(l, seller, caller, value, wrapped, fee) = f
    BY DEF Filled, paid, held, after
  <1> HIDE DEF f, before
  <1>9. f[Market] = l[Market]
    BY <1>4, <1>6, <1>7
  <1>10. ASSUME NEW c \in {Hook, BidApp}
         PROVE  f[c] = IF c = caller THEN l[c] - wrapped - fee ELSE l[c]
    <2>1. l[c] \in Int
      BY <1>1
    <2>2. CASE c = caller
      <3>1. after[c] = l[c] - value
        BY <1>2, <1>3, <1>5, <2>2
      <3>2. f[c] = after[c] + (value - wrapped - fee)
        BY <1>6, <1>7, <2>2
      <3> QED
        BY <2>1, <2>2, <3>1, <3>2
    <2>3. CASE c # caller
      BY <1>2, <1>3, <1>5, <1>7, <2>3
    <2> QED
      BY <2>2, <2>3
  <1> QED
    BY <1>7, <1>8, <1>9, <1>10

(***************************************************************************)
(* No ether stays behind                                                   *)
(***************************************************************************)
EtherInv ==
  /\ IsLedger(eth) /\ stray \in [Contracts -> Nat]
  /\ EtherNeverStuck

LEMMA PlainBuyKeepsEther ==
  ASSUME EtherInv, NEW o \in Orders, NEW payer \in Payers, NEW value \in Nat,
         NEW wrapped \in Nat, NEW fee \in Nat,
         eth' = Filled(eth, o.seller, payer, value, wrapped, fee), stray' = stray
  PROVE  EtherInv'
  <1>1. /\ o.seller \in Sellers /\ payer \in Accounts /\ payer \notin Contracts
        /\ Contracts = {Market, Hook, BidApp}
    BY PurseNames DEF Sellers, Contracts
  <1>2. \A c \in Contracts : eth[c] \in Int /\ eth[c] = stray[c]
    BY DEF EtherInv, EtherNeverStuck
  <1>3. /\ IsLedger(eth') /\ eth'[Market] = eth[Market]
        /\ \A c \in {Hook, BidApp} : eth'[c] = eth[c]
    BY <1>1, <1>2, FilledBalances DEF EtherInv
  <1> QED
    BY <1>1, <1>2, <1>3 DEF EtherInv, EtherNeverStuck, IsLedger

LEMMA TokenBuyKeepsEther ==
  ASSUME EtherInv, NEW o \in Orders, NEW buyer \in Buyers, NEW ethOut \in Nat,
         NEW payment \in Nat, NEW fee \in Nat,
         LET taken  == Send(eth, PoolManager, Hook, ethOut)
             filled == Filled(Send(taken, Hook, Weth, payment), o.seller, Hook,
                              ethOut - payment, 0, fee)
         IN eth' = Send(filled, Hook, buyer, filled[Hook]),
         stray' = [stray EXCEPT ![Hook] = 0]
  PROVE  EtherInv'
  <1> DEFINE taken  == Send(eth, PoolManager, Hook, ethOut)
             held   == Send(taken, Hook, Weth, payment)
             filled == Filled(held, o.seller, Hook, ethOut - payment, 0, fee)
  <1>1. /\ o.seller \in Sellers /\ Hook \in Accounts /\ buyer \in Purses /\ buyer \notin Contracts
        /\ Contracts = {Market, Hook, BidApp} /\ Contracts \subseteq Purses
        /\ Weth \in Purses /\ PoolManager \in Purses
        /\ Weth \notin Contracts /\ PoolManager \notin Contracts
        /\ Market # Hook /\ Market # BidApp /\ Hook # BidApp
    BY PurseNames, PurchaseConstants DEF Sellers, Contracts
  <1>2. \A c \in Contracts : eth[c] \in Int /\ eth[c] = stray[c]
    BY DEF EtherInv, EtherNeverStuck
  <1>3. /\ IsLedger(taken) /\ taken[Hook] = eth[Hook] + ethOut
        /\ taken[Market] = eth[Market] /\ taken[BidApp] = eth[BidApp]
    BY <1>1, SendBalances DEF EtherInv
  <1> HIDE DEF taken
  <1>4. /\ IsLedger(held) /\ held[Hook] = taken[Hook] - payment
        /\ held[Market] = taken[Market] /\ held[BidApp] = taken[BidApp]
    BY <1>1, <1>3, SendBalances
  <1> HIDE DEF held
  <1>5. \A c \in Contracts : held[c] \in Int
    BY <1>1, <1>2, <1>3, <1>4
  <1>6. /\ IsLedger(filled) /\ filled[Market] = held[Market] /\ filled[BidApp] = held[BidApp]
        /\ filled[Hook] = held[Hook] - 0 - fee
    BY <1>1, <1>4, <1>5, FilledBalances
  <1>7. eth' = Send(filled, Hook, buyer, filled[Hook])
    BY DEF taken, held
  <1> HIDE DEF filled
  <1>8. filled[Hook] \in Int
    BY <1>1, <1>5, <1>6
  <1>9. /\ IsLedger(eth') /\ eth'[Market] = filled[Market] /\ eth'[BidApp] = filled[BidApp]
        /\ eth'[Hook] = filled[Hook] - filled[Hook]
    BY <1>1, <1>6, <1>7, SendBalances
  <1>10. eth'[Hook] = 0
    BY <1>8, <1>9
  <1>11. /\ stray' \in [Contracts -> Nat] /\ stray'[Hook] = 0
         /\ stray'[Market] = stray[Market] /\ stray'[BidApp] = stray[BidApp]
    BY <1>1 DEF EtherInv
  <1>12. \A c \in Contracts : eth'[c] = stray'[c]
    BY <1>1, <1>2, <1>3, <1>4, <1>6, <1>9, <1>10, <1>11
  <1> QED
    BY <1>9, <1>11, <1>12 DEF EtherInv, EtherNeverStuck, IsLedger

LEMMA BidBuyKeepsEther ==
  ASSUME EtherInv, NEW o \in Orders, NEW caller \in Payers, NEW value \in Nat, NEW fee \in Nat,
         LET sent   == Send(eth, caller, BidApp, value)
             filled == Filled(sent, o.seller, BidApp, value, 0, fee)
         IN eth' = ReturnedByApp(filled, caller, sent[BidApp] - value),
         stray' = stray
  PROVE  EtherInv'
  <1> DEFINE sent   == Send(eth, caller, BidApp, value)
             filled == Filled(sent, o.seller, BidApp, value, 0, fee)
             back   == filled[BidApp] - (sent[BidApp] - value)
  <1>1. /\ o.seller \in Sellers /\ BidApp \in Accounts
        /\ caller \in Purses /\ caller \notin Contracts
        /\ Contracts = {Market, Hook, BidApp} /\ Contracts \subseteq Purses
        /\ Market # Hook /\ Market # BidApp /\ Hook # BidApp
    BY PurseNames, BidConstants DEF Sellers, Contracts
  <1>2. \A c \in Contracts : eth[c] \in Int /\ eth[c] = stray[c]
    BY DEF EtherInv, EtherNeverStuck
  <1>3. /\ IsLedger(sent) /\ sent[BidApp] = eth[BidApp] + value
        /\ sent[Market] = eth[Market] /\ sent[Hook] = eth[Hook]
    BY <1>1, SendBalances DEF EtherInv
  <1> HIDE DEF sent
  <1>4. \A c \in Contracts : sent[c] \in Int
    BY <1>1, <1>2, <1>3
  <1>5. /\ IsLedger(filled) /\ filled[Market] = sent[Market] /\ filled[Hook] = sent[Hook]
        /\ filled[BidApp] = sent[BidApp] - 0 - fee
    BY <1>1, <1>3, <1>4, FilledBalances
  <1>6. eth' = Send(filled, BidApp, caller, back)
    BY DEF sent, ReturnedByApp
  <1> HIDE DEF filled
  <1>7. back = value - fee /\ filled[BidApp] - back = eth[BidApp]
    BY <1>1, <1>2, <1>3, <1>4, <1>5
  <1> HIDE DEF back
  <1>8. /\ IsLedger(eth') /\ eth'[Market] = filled[Market] /\ eth'[Hook] = filled[Hook]
        /\ eth'[BidApp] = filled[BidApp] - back
    BY <1>1, <1>5, <1>6, SendBalances
  <1>9. \A c \in Contracts : eth'[c] = stray'[c]
    BY <1>1, <1>2, <1>3, <1>5, <1>7, <1>8
  <1> QED
    BY <1>8, <1>9 DEF EtherInv, EtherNeverStuck, IsLedger

LEMMA FillPaysNat ==
  ASSUME TypeOK, AnyFill
  PROVE  NewPayment \in Nat
  <1>1. PICK o \in Orders, target \in Validators, state \in roots, buyer \in Accounts :
          \E payment : FillFor(o, target, state, buyer, payment)
    BY DEF AnyFill
  <1>2. PICK payment : FillFor(o, target, state, buyer, payment)
    BY <1>1
  <1>3. nextTradeId \in TradeIds /\ payment \in Nat
    BY <1>2, FillFacts, FillType
  <1>4. trades'[nextTradeId].payment = payment
    BY <1>2, <1>3 DEF FillFor, OpenTrade, TypeOK
  <1> QED
    BY <1>3, <1>4 DEF NewPayment

LEMMA EtherStep ==
  TypeOK /\ EtherInv /\ [PurchasesNext]_marketVars => EtherInv'
  <1> SUFFICES ASSUME TypeOK, EtherInv, [PurchasesNext]_marketVars PROVE EtherInv'
    OBVIOUS
  <1> /\ \A value \in Values : value \in Nat
      /\ \A fee \in Fees : fee \in Nat
      /\ \A rate \in Rates : rate \in Nat
      /\ \A amountIn \in 1..PoolDepth : amountIn \in Nat
    BY PurchaseConstants
  <1>1. CASE UNCHANGED <<eth, stray>>
    BY <1>1 DEF EtherInv, EtherNeverStuck, IsLedger
  <1>2. CASE BuyNext
    <2> NewPayment \in Nat
      BY <1>2, BuyIsFill, FillPaysNat
    <2>1. PICK o \in Orders, state \in roots, payer \in Payers :
            \/ \E target \in Targets, buyer \in Buyers :
                 \/ \E value \in Values : BuyWithWeth(o, target, state, buyer, payer, value)
                 \/ \E value \in Values : BuyWithEth(o, target, state, buyer, payer, value)
                 \/ \E amountIn \in Inputs : BuyWithToken(o, target, state, buyer, payer, amountIn)
            \/ \E b \in Bids, value \in Values : BuyForBid(b, o, state, payer, value)
      BY <1>2 DEF BuyNext
    <2>2. CASE \E target \in Targets, buyer \in Buyers, value \in Values :
                 BuyWithWeth(o, target, state, buyer, payer, value)
      BY <2>2, PlainBuyKeepsEther DEF BuyWithWeth
    <2>3. CASE \E target \in Targets, buyer \in Buyers, value \in Values :
                 BuyWithEth(o, target, state, buyer, payer, value)
      BY <2>3, PlainBuyKeepsEther DEF BuyWithEth
    <2>4. CASE \E target \in Targets, buyer \in Buyers, amountIn \in Inputs :
                 BuyWithToken(o, target, state, buyer, payer, amountIn)
      <3>1. PICK buyer \in Buyers, amountIn \in 1..PoolDepth, rate \in Rates, fee \in Fees :
              LET ethOut == amountIn * rate
                  taken  == Send(eth, PoolManager, Hook, ethOut)
                  value  == ethOut - NewPayment
                  filled == Filled(Send(taken, Hook, Weth, NewPayment), o.seller, Hook,
                                   value, 0, fee)
              IN /\ eth' = Send(filled, Hook, buyer, filled[Hook])
                 /\ stray' = [stray EXCEPT ![Hook] = 0]
        BY <2>4 DEF BuyWithToken
      <3>2. PICK ethOut \in Nat : ethOut = amountIn * rate
        OBVIOUS
      <3> QED
        BY <3>1, <3>2, TokenBuyKeepsEther
    <2>5. CASE \E b \in Bids, value \in Values : BuyForBid(b, o, state, payer, value)
      BY <2>5, BidBuyKeepsEther DEF BuyForBid
    <2> QED
      BY <2>1, <2>2, <2>3, <2>4, <2>5
  <1> QED
    BY <1>1, <1>2 DEF PurchasesNext, OtherNext, purchaseVars, marketVars

(***************************************************************************)
(* No purchase, through whichever contracts and whatever is attached,      *)
(* swapped or returned, leaves ether in the market, the hook or the app.   *)
(***************************************************************************)
THEOREM NoEtherStuck == PurchasesSpec => []EtherNeverStuck
  <1>1. PurchasesInit => EtherInv
    BY PurchaseConstants, PurseNames DEF PurchasesInit, EtherInv, EtherNeverStuck, IsLedger
  <1>2. PurchasesSpec => []EtherInv
    BY <1>1, EtherStep, PurchasesKeepMarket, PTL DEF PurchasesSpec
  <1> QED
    BY <1>2, PTL DEF EtherInv

(***************************************************************************)
(* Ether: what one call moves between the accounts, whoever it passes      *)
(* through.                                                                *)
(***************************************************************************)
\* What the canonical pool holds is outside the books.
Known == Purses \ {PoolManager}

IsBook(l) == IsLedger(l) /\ \A p \in Known : l[p] \in Int

LEMMA KnownPurses ==
  /\ Accounts \subseteq Known /\ Contracts \subseteq Known
  /\ {Market, Hook, BidApp, Predeploy, Weth} \subseteq Known
  /\ Hook \in Accounts /\ BidApp \in Accounts
  /\ Predeploy # Weth
  /\ \A a \in Accounts : a # Market /\ a # Predeploy /\ a # Weth /\ a # PoolManager
  /\ Market # Predeploy /\ Market # Weth /\ Market # PoolManager
  BY PurchaseConstants, BidConstants, MarketConstants
     DEF Known, Purses, Contracts, Holders

\* s is what is left of l after `amount` has gone from one purse to another.
Sent(l, s, from, to, amount) ==
  /\ IsBook(s) /\ s[to] = l[to] + amount
  /\ from \in Known => s[from] = l[from] - amount
  /\ \A p \in Known \ {from, to} : s[p] = l[p]

LEMMA SendNet ==
  ASSUME NEW l, IsBook(l), NEW from \in Purses, NEW to \in Known, from # to, NEW amount \in Int
  PROVE  Sent(l, Send(l, from, to, amount), from, to, amount)
  <1> DEFINE s == Send(l, from, to, amount)
  <1>1. /\ IsLedger(s) /\ \A p \in Purses \ {from, to} : s[p] = l[p]
        /\ s[from] = l[from] - amount /\ s[to] = l[to] + amount
    BY SendBalances DEF IsBook, Known
  <1>2. \A p \in Known : l[p] \in Int
    BY DEF IsBook
  <1> HIDE DEF s
  <1>3. ASSUME NEW p \in Known PROVE s[p] \in Int
    BY <1>1, <1>2 DEF Known
  <1>4. Sent(l, s, from, to, amount)
    BY <1>1, <1>3 DEF IsBook, Known, Sent
  <1> QED
    BY <1>4 DEF s

FeePaid(l, r, fee) ==
  /\ IsBook(r) /\ r[Market] = l[Market] - fee
  /\ \A p \in Known \ {Market, Predeploy} : r[p] = l[p]

\* requestConsolidation costs the market the fee, and the seller nothing.
LEMMA RequestedNet ==
  ASSUME NEW l, IsBook(l), NEW seller \in Accounts, NEW value \in Int, NEW fee \in Int
  PROVE  FeePaid(l, Requested(l, seller, value, fee), fee)
  <1> DEFINE r1 == Send(l, Market, seller, value)
             r2 == Send(r1, seller, Predeploy, fee)
             r3 == Send(r2, seller, Market, value - fee)
  <1> /\ Market \in Known /\ Predeploy \in Known /\ seller \in Known
      /\ seller # Market /\ seller # Predeploy /\ Market # Predeploy /\ Known \subseteq Purses
    BY KnownPurses DEF Known
  <1>1. Sent(l, r1, Market, seller, value)
    <2>1. Market \in Purses
      OBVIOUS
    <2> QED
      BY <2>1, SendNet
  <1> HIDE DEF r1
  <1>2. Sent(r1, r2, seller, Predeploy, fee)
    <2>1. IsBook(r1) /\ seller \in Purses
      BY <1>1 DEF Sent
    <2> QED
      BY <2>1, SendNet
  <1> HIDE DEF r2
  <1>3. Sent(r2, r3, seller, Market, value - fee)
    <2>1. value - fee \in Int /\ IsBook(r2) /\ seller \in Purses
      BY <1>2 DEF Sent
    <2> QED
      BY <2>1, SendNet
  <1> HIDE DEF r3
  <1>4. l[Market] \in Int /\ l[seller] \in Int
    BY DEF IsBook
  <1>5. r3[Market] = l[Market] - fee
    BY <1>1, <1>2, <1>3, <1>4 DEF Sent
  <1>6. r3[seller] = l[seller]
    BY <1>1, <1>2, <1>3, <1>4 DEF Sent
  <1>7. \A p \in Known \ {Market, Predeploy} : r3[p] = l[p]
    BY <1>1, <1>2, <1>3, <1>6 DEF Sent
  <1>8. r3 = Requested(l, seller, value, fee)
    BY DEF r1, r2, r3, Requested
  <1> QED
    BY <1>3, <1>5, <1>7, <1>8 DEF Sent, FeePaid

Charged(l, f, caller, wrapped, fee) ==
  /\ IsBook(f) /\ f[Weth] = l[Weth] + wrapped
  /\ \A a \in Accounts : f[a] = IF a = caller THEN l[a] - wrapped - fee ELSE l[a]

\* A fill costs its caller what is wrapped and the fee, whatever is attached.
LEMMA FilledNet ==
  ASSUME NEW l, IsBook(l), NEW seller \in Accounts, NEW caller \in Accounts,
         NEW value \in Int, NEW wrapped \in Int, NEW fee \in Int
  PROVE  Charged(l, Filled(l, seller, caller, value, wrapped, fee), caller, wrapped, fee)
  <1> DEFINE paid == Send(l, caller, Market, value)
             held == Send(paid, Market, Weth, wrapped)
             before == held[Market] - (value - wrapped)
             after == Requested(held, seller, value - wrapped, fee)
             back == after[Market] - before
             f == Send(after, Market, caller, back)
  <1> /\ Market \in Known /\ Weth \in Known /\ caller \in Known /\ Accounts \subseteq Known
      /\ caller # Market /\ caller # Weth /\ Market # Weth /\ Known \subseteq Purses
      /\ Weth # Predeploy /\ \A a \in Accounts : a # Market /\ a # Weth /\ a # Predeploy
    BY KnownPurses DEF Known
  <1>1. Sent(l, paid, caller, Market, value)
    BY SendNet
  <1> HIDE DEF paid
  <1>2. Sent(paid, held, Market, Weth, wrapped)
    <2>1. IsBook(paid)
      BY <1>1 DEF Sent
    <2> QED
      BY <2>1, SendNet
  <1> HIDE DEF held
  <1>3. FeePaid(held, after, fee)
    <2>1. value - wrapped \in Int /\ IsBook(held)
      BY <1>2 DEF Sent
    <2> QED
      BY <2>1, RequestedNet
  <1> HIDE DEF after
  <1>4. held[Market] \in Int /\ l[caller] \in Int /\ l[Weth] \in Int
    BY <1>2 DEF IsBook, Sent
  <1>5. back \in Int /\ back = value - wrapped - fee
    BY <1>3, <1>4 DEF FeePaid
  <1> HIDE DEF back
  <1>6. Sent(after, f, Market, caller, back)
    <2>1. IsBook(after) /\ Market \in Purses
      BY <1>3 DEF FeePaid
    <2> QED
      BY <1>5, <2>1, SendNet
  <1> HIDE DEF f
  <1>7. f[caller] = l[caller] - wrapped - fee
    BY <1>1, <1>2, <1>3, <1>4, <1>5, <1>6 DEF Sent, FeePaid
  <1>8. f[Weth] = l[Weth] + wrapped
    BY <1>1, <1>2, <1>3, <1>6 DEF Sent, FeePaid
  <1>9. \A a \in Accounts \ {caller} : f[a] = l[a]
    BY <1>1, <1>2, <1>3, <1>6 DEF Sent, FeePaid
  <1>10. f = Filled(l, seller, caller, value, wrapped, fee)
    BY DEF paid, held, after, back, f, Filled
  <1> QED
    BY <1>6, <1>7, <1>8, <1>9, <1>10 DEF Sent, Charged

(***************************************************************************)
(* What purchases cost                                                     *)
(***************************************************************************)
LEMMA SumPut ==
  ASSUME NEW S, IsFiniteSet(S), NEW f \in [S -> Int], NEW e \in [S -> Int], NEW x \in S,
         NEW d \in Int, e[x] = f[x] + d, \A y \in S \ {x} : e[y] = f[y]
  PROVE  SumOf(e, S) = SumOf(f, S) + d
  <1> DEFINE R == S \ {x}
  <1>1. /\ SumOf(f, S) = f[x] + SumOf(f, R) /\ SumOf(f, S) \in Int
        /\ SumOf(e, S) = e[x] + SumOf(e, R)
    BY SumFacts
  <1>2. IsFiniteSet(R) /\ \A y \in R : f[y] \in Int /\ f[y] = e[y]
    BY FS_Subset
  <1>3. SumOf(e, R) = SumOf(f, R) /\ SumOf(f, R) \in Int
    BY <1>2, SumAgrees, SumFacts
  <1>4. f[x] \in Int
    OBVIOUS
  <1> HIDE DEF R
  <1> QED
    BY <1>1, <1>3, <1>4

LEMMA SumMove ==
  ASSUME NEW S, IsFiniteSet(S), NEW f \in [S -> Int], NEW e \in [S -> Int],
         NEW x \in S, NEW y \in S, x # y, NEW d \in Int,
         e[x] = f[x] - d, e[y] = f[y] + d, \A z \in S \ {x, y} : e[z] = f[z]
  PROVE  SumOf(e, S) = SumOf(f, S)
  <1>1. PICK k \in Int : k = 0 - d
    OBVIOUS
  <1>2. PICK m \in [S -> Int] : m[x] = e[x] /\ \A z \in S \ {x} : m[z] = f[z]
    <2> DEFINE m == [z \in S |-> IF z = x THEN e[x] ELSE f[z]]
    <2> m \in [S -> Int] /\ m[x] = e[x] /\ \A z \in S \ {x} : m[z] = f[z]
      OBVIOUS
    <2> HIDE DEF m
    <2> QED
      OBVIOUS
  <1>3. m[x] = f[x] + k
    BY <1>1, <1>2
  <1>4. SumOf(m, S) = SumOf(f, S) + k
    BY <1>2, <1>3, SumPut
  <1>5. e[y] = m[y] + d /\ \A z \in S \ {y} : e[z] = m[z]
    BY <1>2
  <1>6. SumOf(e, S) = SumOf(m, S) + d
    BY <1>5, SumPut
  <1>7. SumOf(f, S) \in Int
    BY SumFacts
  <1> QED
    BY <1>1, <1>4, <1>6, <1>7

WethSum == SumOf(weth, Holders)

LEMMA HoldersFinite == IsFiniteSet(Holders)
  BY PurchaseConstants, FS_AddElement DEF Holders

LEMMA WethMoves ==
  ASSUME TypeOK, NEW d \in Int
  PROVE  /\ WethSum \in Int
         /\ weth' = [weth EXCEPT ![Market] = @ + d] => WethSum' = WethSum + d
         /\ \A a \in Accounts :
              \/ weth' = [weth EXCEPT ![a] = @ - d, ![Market] = @ + d]
              \/ weth' = [weth EXCEPT ![Market] = @ - d, ![a] = @ + d]
              => WethSum' = WethSum
  <1>1. weth \in [Holders -> Int] /\ Market \in Holders /\ Accounts \subseteq Holders
    BY DEF TypeOK, Holders
  <1>2. \A a \in Accounts : a # Market
    BY MarketConstants
  <1>3. SumOf(weth, Holders) \in Int
    BY <1>1, HoldersFinite, SumFacts
  <1>4. ASSUME weth' = [weth EXCEPT ![Market] = @ + d]
        PROVE  SumOf(weth', Holders) = SumOf(weth, Holders) + d
    <2>1. /\ weth' \in [Holders -> Int] /\ weth'[Market] = weth[Market] + d
          /\ \A h \in Holders \ {Market} : weth'[h] = weth[h]
      BY <1>1, <1>4
    <2> QED
      BY <1>1, <2>1, HoldersFinite, SumPut
  <1>5. ASSUME NEW a \in Accounts, weth' = [weth EXCEPT ![a] = @ - d, ![Market] = @ + d]
        PROVE  SumOf(weth', Holders) = SumOf(weth, Holders)
    <2>1. /\ a \in Holders /\ a # Market /\ weth' \in [Holders -> Int]
          /\ weth'[a] = weth[a] - d /\ weth'[Market] = weth[Market] + d
          /\ \A h \in Holders \ {a, Market} : weth'[h] = weth[h]
      BY <1>1, <1>2, <1>5
    <2> QED
      BY <1>1, <2>1, HoldersFinite, SumMove
  <1>6. ASSUME NEW a \in Accounts, weth' = [weth EXCEPT ![Market] = @ - d, ![a] = @ + d]
        PROVE  SumOf(weth', Holders) = SumOf(weth, Holders)
    <2>1. /\ a \in Holders /\ a # Market /\ weth' \in [Holders -> Int]
          /\ weth'[a] = weth[a] + d /\ weth'[Market] = weth[Market] - d
          /\ \A h \in Holders \ {a, Market} : weth'[h] = weth[h]
      BY <1>1, <1>2, <1>6
    <2> QED
      BY <1>1, <2>1, HoldersFinite, SumMove
  <1> QED
    BY <1>3, <1>4, <1>5, <1>6 DEF WethSum

Customers == Accounts \ {Hook, BidApp}

\* The books of the purchases: the ether, and what they cost.
CostBooks == IsBook(eth) /\ cost \in [Accounts -> Int]

Worth(a) == eth[a] + weth[a] + cost[a]

\* A purchase leaves what an account is worth, and what its WETH is backed by.
KeepsBooks ==
  /\ CostBooks'
  /\ \A a \in Customers : Worth(a)' = Worth(a)
  /\ eth'[Weth] - WethSum' = eth[Weth] - WethSum

LEMMA FillPays ==
  ASSUME TypeOK, NEW o \in Orders, NEW target \in Validators, NEW state \in roots,
         NEW buyer \in Accounts, NEW payment, FillFor(o, target, state, buyer, payment)
  PROVE  payment \in Nat /\ NewPayment = payment
  <1>1. nextTradeId \in TradeIds
    BY FillFacts
  <1>2. payment \in Nat
    BY FillType
  <1> QED
    BY <1>1, <1>2 DEF FillFor, OpenTrade, TypeOK, NewPayment

\* fill and fillWithEth: the caller pays in WETH or in ether.
LEMMA PlainBuyKeepsBooks ==
  ASSUME TypeOK, CostBooks, NEW o \in Orders, NEW payer \in Accounts, NEW value \in Nat,
         NEW wrapped \in Nat, NEW fee \in Nat, NewPayment \in Nat, payer \in Customers,
         eth' = Filled(eth, o.seller, payer, value, wrapped, fee),
         Charge(payer, NewPayment + fee),
         \/ wrapped = NewPayment /\ weth' = [weth EXCEPT ![Market] = @ + NewPayment]
         \/ wrapped = 0 /\ weth' = [weth EXCEPT ![payer] = @ - NewPayment, ![Market] = @ + NewPayment]
  PROVE  KeepsBooks
  <1> DEFINE p == NewPayment
  <1>1. o.seller \in Accounts
    BY MarketConstants DEF Order
  <1>2. Charged(eth, eth', payer, wrapped, fee)
    BY <1>1, FilledNet DEF CostBooks
  <1>3. /\ cost' = [cost EXCEPT ![payer] = @ + (p + fee)] /\ cost \in [Accounts -> Int]
        /\ p \in Int
    BY DEF Charge, CostBooks
  <1>4. /\ \A a \in Accounts : weth[a] \in Int /\ cost[a] \in Int /\ eth[a] \in Int
        /\ eth[Weth] \in Int /\ WethSum \in Int
    <2>1. \A a \in Accounts : weth[a] \in Int /\ cost[a] \in Int
      BY <1>3 DEF TypeOK, Holders
    <2>2. eth[Weth] \in Int /\ \A a \in Accounts : eth[a] \in Int
      BY KnownPurses DEF CostBooks, IsBook
    <2> QED
      BY <1>3, <2>1, <2>2, WethMoves
  <1> HIDE DEF p
  <1>5. \/ /\ wrapped = p /\ WethSum' = WethSum + p
           /\ \A a \in Accounts : weth'[a] = weth[a]
        \/ /\ wrapped = 0 /\ WethSum' = WethSum
           /\ \A a \in Accounts : weth'[a] = IF a = payer THEN weth[a] - p ELSE weth[a]
    <2>1. CASE wrapped = p /\ weth' = [weth EXCEPT ![Market] = @ + p]
      BY <1>3, <2>1, WethMoves, MarketConstants DEF TypeOK, Holders
    <2>2. CASE wrapped = 0 /\ weth' = [weth EXCEPT ![payer] = @ - p, ![Market] = @ + p]
      BY <1>3, <2>2, WethMoves, MarketConstants DEF TypeOK, Holders
    <2> QED
      BY <2>1, <2>2 DEF p
  <1>6. eth'[Weth] - WethSum' = eth[Weth] - WethSum
    BY <1>2, <1>3, <1>4, <1>5 DEF Charged
  <1>7. ASSUME NEW a \in Customers
        PROVE  eth'[a] + weth'[a] + cost'[a] = eth[a] + weth[a] + cost[a]
    <2>1. /\ a \in Accounts /\ eth[a] \in Int /\ weth[a] \in Int /\ cost[a] \in Int
          /\ eth'[a] = IF a = payer THEN eth[a] - wrapped - fee ELSE eth[a]
          /\ cost'[a] = IF a = payer THEN cost[a] + (p + fee) ELSE cost[a]
      BY <1>2, <1>3, <1>4 DEF Charged, Customers
    <2> QED
      BY <1>3, <1>5, <2>1
  <1>8. CostBooks'
    BY <1>2, <1>3 DEF CostBooks, Charged, IsBook, IsLedger
  <1> QED
    BY <1>6, <1>7, <1>8 DEF KeepsBooks, Worth

LEMMA WethWrapped ==
  ASSUME TypeOK, NEW d \in Nat, weth' = [weth EXCEPT ![Market] = @ + d]
  PROVE  /\ WethSum' = WethSum + d /\ WethSum \in Int
         /\ \A a \in Accounts : weth'[a] = weth[a] /\ weth[a] \in Int
  <1>1. WethSum' = WethSum + d /\ WethSum \in Int
    <2>1. d \in Int
      OBVIOUS
    <2> QED
      BY <2>1, WethMoves
  <1> QED
    BY <1>1, MarketConstants DEF TypeOK, Holders

LEMMA WethPaid ==
  ASSUME TypeOK, NEW d \in Nat, NEW payer \in Accounts,
         weth' = [weth EXCEPT ![payer] = @ - d, ![Market] = @ + d]
  PROVE  /\ WethSum' = WethSum /\ WethSum \in Int
         /\ \A a \in Accounts : /\ weth'[a] = IF a = payer THEN weth[a] - d ELSE weth[a]
                                /\ weth[a] \in Int
  <1>1. WethSum' = WethSum /\ WethSum \in Int
    <2>1. d \in Int
      OBVIOUS
    <2> QED
      BY <2>1, WethMoves
  <1> QED
    BY <1>1, MarketConstants DEF TypeOK, Holders

\* A swap: the hook wraps the price out of what the pool gave and passes the rest on.
LEMMA TokenBuyKeepsBooks ==
  ASSUME TypeOK, CostBooks, EtherInv, NEW o \in Orders, NEW buyer \in Accounts, buyer \in Customers,
         NEW ethOut \in Nat, NEW fee \in Nat, NewPayment \in Nat,
         LET taken  == Send(eth, PoolManager, Hook, ethOut)
             filled == Filled(Send(taken, Hook, Weth, NewPayment), o.seller, Hook,
                              ethOut - NewPayment, 0, fee)
         IN eth' = Send(filled, Hook, buyer, filled[Hook]),
         Charge(buyer, NewPayment + fee - ethOut - stray[Hook]),
         weth' = [weth EXCEPT ![Market] = @ + NewPayment]
  PROVE  KeepsBooks
  <1> DEFINE p      == NewPayment
             taken  == Send(eth, PoolManager, Hook, ethOut)
             held   == Send(taken, Hook, Weth, p)
             filled == Filled(held, o.seller, Hook, ethOut - p, 0, fee)
             rest   == filled[Hook]
  <1> /\ Hook \in Known /\ Hook \in Accounts /\ Weth \in Known /\ buyer \in Known
      /\ PoolManager \in Purses /\ Hook # PoolManager /\ Hook # Weth /\ buyer # Hook
      /\ buyer # Weth /\ Accounts \subseteq Known /\ Hook \in Purses
      /\ \A a \in Accounts : a # Weth
    <2>1. buyer # Hook /\ PoolManager \in Purses
      BY DEF Customers, Purses
    <2>2. Hook \in Known /\ Hook \in Accounts /\ Weth \in Known /\ Accounts \subseteq Known
      BY KnownPurses
    <2>3. \A a \in Accounts : a # Weth /\ a # PoolManager
      BY KnownPurses
    <2> QED
      BY <2>1, <2>2, <2>3 DEF Known
  <1>0. o.seller \in Accounts /\ p \in Int
    BY MarketConstants DEF Order
  <1>1. eth' = Send(filled, Hook, buyer, rest)
    OBVIOUS
  <1>2. /\ cost' = [cost EXCEPT ![buyer] = @ + (p + fee - ethOut - stray[Hook])]
        /\ cost \in [Accounts -> Int] /\ IsBook(eth)
    BY DEF Charge, CostBooks
  <1>3. eth[Hook] = stray[Hook] /\ stray[Hook] \in Int
    BY <1>2, KnownPurses DEF EtherInv, EtherNeverStuck, Contracts, IsBook
  <1>4. /\ weth' = [weth EXCEPT ![Market] = @ + p] /\ WethSum' = WethSum + p /\ WethSum \in Int
        /\ \A a \in Accounts : weth'[a] = weth[a] /\ weth[a] \in Int
    BY WethWrapped
  <1> HIDE DEF p
  <1>5. Sent(eth, taken, PoolManager, Hook, ethOut)
    BY <1>2, SendNet
  <1> HIDE DEF taken
  <1>6. Sent(taken, held, Hook, Weth, p)
    <2>1. IsBook(taken)
      BY <1>5 DEF Sent
    <2> QED
      BY <1>0, <2>1, SendNet
  <1> HIDE DEF held
  <1>7. Charged(held, filled, Hook, 0, fee)
    <2>1. IsBook(held) /\ ethOut - p \in Int
      BY <1>0, <1>6 DEF Sent
    <2>2. 0 \in Int /\ fee \in Int
      OBVIOUS
    <2> QED
      BY <1>0, <2>1, <2>2, FilledNet
  <1> HIDE DEF filled
  <1>8. Sent(filled, eth', Hook, buyer, rest)
    <2>1. IsBook(filled) /\ rest \in Int
      BY <1>7 DEF Charged, IsBook
    <2> QED
      BY <1>1, <2>1, SendNet
  <1>9. \A a \in Accounts : eth[a] \in Int /\ cost[a] \in Int
    BY <1>2 DEF IsBook
  <1>10. eth[Weth] \in Int
    BY <1>2 DEF IsBook
  <1>11. rest = eth[Hook] + ethOut - p - fee
    BY <1>0, <1>5, <1>6, <1>7, <1>9 DEF Sent, Charged
  <1> HIDE DEF rest
  <1>12. eth'[Weth] = eth[Weth] + p
    <2>1. taken[Weth] = eth[Weth] /\ held[Weth] = taken[Weth] + p
      BY <1>5, <1>6 DEF Sent, Known
    <2>2. filled[Weth] = held[Weth] + 0 /\ eth'[Weth] = filled[Weth]
      BY <1>7, <1>8 DEF Sent, Charged
    <2> QED
      BY <1>0, <1>10, <2>1, <2>2
  <1>13. ASSUME NEW a \in Customers
         PROVE  /\ a \in Accounts
                /\ eth'[a] = IF a = buyer THEN eth[a] + rest ELSE eth[a]
    <2>1. a \in Known \ {Hook, Weth} /\ a \in Accounts
      BY DEF Customers
    <2>2. taken[a] = eth[a] /\ held[a] = taken[a] /\ filled[a] = held[a]
      BY <1>5, <1>6, <1>7, <2>1 DEF Sent, Charged, Known
    <2> QED
      BY <1>8, <2>1, <2>2 DEF Sent
  <1>14. ASSUME NEW a \in Customers
         PROVE  eth'[a] + weth'[a] + cost'[a] = eth[a] + weth[a] + cost[a]
    <2>1. /\ a \in Accounts
          /\ eth'[a] = IF a = buyer THEN eth[a] + rest ELSE eth[a]
          /\ cost'[a] = IF a = buyer THEN cost[a] + (p + fee - ethOut - stray[Hook]) ELSE cost[a]
      BY <1>2, <1>13
    <2> QED
      BY <1>0, <1>3, <1>4, <1>9, <1>11, <2>1
  <1>15. CostBooks'
    <2>1. stray[Hook] \in Int /\ p + fee - ethOut - stray[Hook] \in Int
      BY <1>0, <1>3
    <2>2. cost' \in [Accounts -> Int]
      BY <1>2, <2>1
    <2> QED
      BY <1>8, <2>2 DEF CostBooks, Sent, IsBook, IsLedger
  <1>16. eth'[Weth] - WethSum' = eth[Weth] - WethSum
    BY <1>0, <1>4, <1>10, <1>12
  <1> QED
    BY <1>14, <1>15, <1>16 DEF KeepsBooks, Worth

\* A match: the app pulls the price from the maker, the caller pays the fee.
LEMMA BidBuyKeepsBooks ==
  ASSUME TypeOK, CostBooks, NEW o \in Orders, NEW maker \in Accounts, NEW caller \in Accounts,
         caller \in Customers, NEW value \in Nat, NEW fee \in Nat, NewPayment \in Nat,
         LET sent   == Send(eth, caller, BidApp, value)
             filled == Filled(sent, o.seller, BidApp, value, 0, fee)
         IN eth' = ReturnedByApp(filled, caller, sent[BidApp] - value),
         cost' = [[cost EXCEPT ![maker] = @ + NewPayment] EXCEPT ![caller] = @ + fee],
         weth' = [weth EXCEPT ![maker] = @ - NewPayment, ![Market] = @ + NewPayment]
  PROVE  KeepsBooks
  <1> DEFINE p      == NewPayment
             sent   == Send(eth, caller, BidApp, value)
             filled == Filled(sent, o.seller, BidApp, value, 0, fee)
             back   == filled[BidApp] - (sent[BidApp] - value)
  <1> /\ BidApp \in Known /\ BidApp \in Accounts /\ Weth \in Known /\ caller \in Known
      /\ caller # BidApp /\ Accounts \subseteq Known /\ Known \subseteq Purses
      /\ \A a \in Accounts : a # Weth
    BY KnownPurses DEF Customers, Known
  <1>0. o.seller \in Accounts /\ p \in Int
    BY MarketConstants DEF Order
  <1>1. eth' = Send(filled, BidApp, caller, back)
    BY DEF ReturnedByApp
  <1>2. /\ cost' = [[cost EXCEPT ![maker] = @ + p] EXCEPT ![caller] = @ + fee]
        /\ cost \in [Accounts -> Int] /\ IsBook(eth)
    BY DEF CostBooks
  <1>3. /\ WethSum' = WethSum /\ WethSum \in Int
        /\ \A a \in Accounts : /\ weth'[a] = IF a = maker THEN weth[a] - p ELSE weth[a]
                               /\ weth[a] \in Int
    BY WethPaid
  <1> HIDE DEF p
  <1>4. Sent(eth, sent, caller, BidApp, value)
    BY <1>2, SendNet
  <1> HIDE DEF sent
  <1>5. Charged(sent, filled, BidApp, 0, fee)
    <2>1. IsBook(sent)
      BY <1>4 DEF Sent
    <2> QED
      BY <1>0, <2>1, FilledNet
  <1> HIDE DEF filled
  <1>6. /\ \A a \in Accounts : eth[a] \in Int /\ cost[a] \in Int
        /\ eth[Weth] \in Int
    BY <1>2 DEF IsBook
  <1>7. back = value - fee
    BY <1>4, <1>5, <1>6 DEF Sent, Charged
  <1> HIDE DEF back
  <1>8. Sent(filled, eth', BidApp, caller, back)
    <2>1. IsBook(filled) /\ back \in Int
      BY <1>5, <1>7 DEF Charged
    <2> QED
      BY <1>1, <2>1, SendNet
  <1>9. eth'[Weth] = eth[Weth]
    BY <1>4, <1>5, <1>6, <1>8 DEF Sent, Charged
  <1>10. ASSUME NEW a \in Customers
         PROVE  a \in Accounts /\ eth'[a] = IF a = caller THEN eth[a] - fee ELSE eth[a]
    <2>1. a \in Known \ {BidApp} /\ a \in Accounts
      BY DEF Customers
    <2>2. sent[a] = (IF a = caller THEN eth[a] - value ELSE eth[a]) /\ filled[a] = sent[a]
      BY <1>4, <1>5, <2>1 DEF Sent, Charged
    <2>3. eth'[a] = IF a = caller THEN filled[a] + back ELSE filled[a]
      BY <1>8, <2>1 DEF Sent
    <2> QED
      BY <1>6, <1>7, <2>1, <2>2, <2>3
  <1>11. ASSUME NEW a \in Customers
         PROVE  eth'[a] + weth'[a] + cost'[a] = eth[a] + weth[a] + cost[a]
    <2>1. a \in Accounts /\ eth'[a] = IF a = caller THEN eth[a] - fee ELSE eth[a]
      BY <1>10
    <2>2. cost'[a] = cost[a] + (IF a = maker THEN p ELSE 0) + (IF a = caller THEN fee ELSE 0)
      <3> DEFINE paid == [cost EXCEPT ![maker] = @ + p]
      <3>1. paid \in [Accounts -> Int] /\ cost[a] \in Int
        BY <1>0, <1>2, <2>1
      <3>2. paid[a] = cost[a] + IF a = maker THEN p ELSE 0
        BY <1>0, <1>2, <2>1, <3>1
      <3>3. cost' = [paid EXCEPT ![caller] = @ + fee]
        BY <1>2
      <3> HIDE DEF paid
      <3>4. cost'[a] = paid[a] + IF a = caller THEN fee ELSE 0
        BY <2>1, <3>1, <3>3
      <3> QED
        BY <1>0, <2>1, <3>1, <3>2, <3>4
    <2>3. weth'[a] = (IF a = maker THEN weth[a] - p ELSE weth[a]) /\ weth[a] \in Int
      BY <1>3, <2>1
    <2>4. eth[a] \in Int /\ cost[a] \in Int
      BY <1>6, <2>1
    <2> QED
      BY <1>0, <2>1, <2>2, <2>3, <2>4
  <1>12. CostBooks'
    <2>1. cost' \in [Accounts -> Int]
      BY <1>0, <1>2
    <2> QED
      BY <1>8, <2>1 DEF CostBooks, Sent, IsBook, IsLedger
  <1>13. eth'[Weth] - WethSum' = eth[Weth] - WethSum
    BY <1>3, <1>9
  <1> QED
    BY <1>11, <1>12, <1>13 DEF KeepsBooks, Worth

LEMMA BuyKeepsBooks ==
  ASSUME TypeOK, SaleInv, CostBooks, EtherInv, BuyNext
  PROVE  KeepsBooks
  <1> /\ \A value \in Values : value \in Nat
      /\ \A fee \in Fees : fee \in Nat
      /\ \A rate \in Rates : rate \in Nat
      /\ \A amountIn \in 1..PoolDepth : amountIn \in Nat
      /\ \A a \in Buyers \cup Payers : a \in Accounts /\ a \in Customers
    BY PurchaseConstants, PurseNames DEF Customers, Contracts
  <1>0. AnyFill /\ NewPayment \in Nat
    BY BuyIsFill, FillPaysNat
  <1>1. PICK o \in Orders, state \in roots, payer \in Payers :
          \/ \E target \in Targets, buyer \in Buyers :
               \/ \E value \in Values : BuyWithWeth(o, target, state, buyer, payer, value)
               \/ \E value \in Values : BuyWithEth(o, target, state, buyer, payer, value)
               \/ \E amountIn \in Inputs : BuyWithToken(o, target, state, buyer, payer, amountIn)
          \/ \E b \in Bids, value \in Values : BuyForBid(b, o, state, payer, value)
    BY DEF BuyNext
  <1>2. \A target \in Targets, buyer \in Buyers : target \in Validators /\ buyer \in Accounts
    BY MarketConstants
  <1>3. ASSUME NEW target \in Targets, NEW buyer \in Buyers,
               FillWithEth(o, target, state, buyer)
        PROVE  weth' = [weth EXCEPT ![Market] = @ + NewPayment]
    <2>1. PICK payment : /\ FillFor(o, target, state, buyer, payment)
                         /\ weth' = [weth EXCEPT ![Market] = @ + payment]
      BY <1>3 DEF FillWithEth
    <2>2. NewPayment = payment
      BY <1>2, <2>1, FillPays
    <2> QED
      BY <2>1, <2>2
  <1>4. CASE \E target \in Targets, buyer \in Buyers, value \in Values :
               BuyWithWeth(o, target, state, buyer, payer, value)
    <2>1. PICK target \in Targets, buyer \in Buyers, value \in Values :
            BuyWithWeth(o, target, state, buyer, payer, value)
      BY <1>4
    <2>2. PICK payment :
            /\ FillFor(o, target, state, buyer, payment)
            /\ weth' = [weth EXCEPT ![payer] = @ - payment, ![Market] = @ + payment]
      BY <2>1 DEF BuyWithWeth, Fill
    <2>3. NewPayment = payment
      BY <1>2, <2>2, FillPays
    <2>4. PICK fee \in Fees : /\ eth' = Filled(eth, o.seller, payer, value, 0, fee)
                              /\ Charge(payer, NewPayment + fee)
      BY <2>1 DEF BuyWithWeth
    <2>5. weth' = [weth EXCEPT ![payer] = @ - NewPayment, ![Market] = @ + NewPayment]
      BY <2>2, <2>3
    <2> QED
      BY <1>0, <2>4, <2>5, PlainBuyKeepsBooks
  <1>5. CASE \E target \in Targets, buyer \in Buyers, value \in Values :
               BuyWithEth(o, target, state, buyer, payer, value)
    <2>1. PICK target \in Targets, buyer \in Buyers, value \in Values :
            BuyWithEth(o, target, state, buyer, payer, value)
      BY <1>5
    <2>2. PICK fee \in Fees : /\ eth' = Filled(eth, o.seller, payer, value, NewPayment, fee)
                              /\ Charge(payer, NewPayment + fee)
      BY <2>1 DEF BuyWithEth
    <2>3. weth' = [weth EXCEPT ![Market] = @ + NewPayment]
      BY <1>3, <2>1 DEF BuyWithEth
    <2> QED
      BY <1>0, <2>2, <2>3, PlainBuyKeepsBooks
  <1>6. CASE \E target \in Targets, buyer \in Buyers, amountIn \in Inputs :
               BuyWithToken(o, target, state, buyer, payer, amountIn)
    <2>1. PICK target \in Targets, buyer \in Buyers, amountIn \in Inputs :
            BuyWithToken(o, target, state, buyer, payer, amountIn)
      BY <1>6
    <2>2. PICK rate \in Rates, fee \in Fees :
            LET ethOut == amountIn * rate
                taken  == Send(eth, PoolManager, Hook, ethOut)
                value  == ethOut - NewPayment
                filled == Filled(Send(taken, Hook, Weth, NewPayment), o.seller, Hook, value, 0, fee)
            IN /\ eth' = Send(filled, Hook, buyer, filled[Hook])
               /\ Charge(buyer, NewPayment + fee - ethOut - stray[Hook])
      BY <2>1 DEF BuyWithToken
    <2>3. amountIn \in Nat
      BY <2>1 DEF BuyWithToken
    <2>4. PICK ethOut \in Nat : ethOut = amountIn * rate
      BY <2>3
    <2>5. weth' = [weth EXCEPT ![Market] = @ + NewPayment]
      BY <1>3, <2>1 DEF BuyWithToken
    <2> QED
      BY <1>0, <2>2, <2>4, <2>5, TokenBuyKeepsBooks
  <1>7. CASE \E b \in Bids, value \in Values : BuyForBid(b, o, state, payer, value)
    <2>1. PICK b \in Bids, value \in Values : BuyForBid(b, o, state, payer, value)
      BY <1>7
    <2>2. b.maker \in Accounts /\ b.target \in Validators
      BY BidTerms
    <2>3. PICK payment : PullInto(b, payment) /\ FillFor(o, b.target, state, b.maker, payment)
      BY <2>1 DEF BuyForBid, MatchBid, BuyerFor
    <2>4. NewPayment = payment
      BY <2>2, <2>3, FillPays
    <2>5. weth' = [weth EXCEPT ![b.maker] = @ - NewPayment, ![Market] = @ + NewPayment]
      BY <2>3, <2>4 DEF PullInto
    <2>6. PICK fee \in Fees :
            LET sent   == Send(eth, payer, BidApp, value)
                filled == Filled(sent, o.seller, BidApp, value, 0, fee)
            IN /\ eth' = ReturnedByApp(filled, payer, sent[BidApp] - value)
               /\ cost' = [[cost EXCEPT ![b.maker] = @ + NewPayment] EXCEPT ![payer] = @ + fee]
      BY <2>1 DEF BuyForBid
    <2> QED
      BY <1>0, <2>2, <2>5, <2>6, BidBuyKeepsBooks
  <1> QED
    BY <1>1, <1>4, <1>5, <1>6, <1>7

LEMMA SettleKeepsWeth ==
  ASSUME TypeOK, SettleNext
  PROVE  WethSum' = WethSum
  <1>1. PICK id \in TradeIds :
          /\ IsOpen(id) /\ trades[id] \in Trade
          /\ \/ \E state \in roots : ProveAccepted(id, state)
             \/ \E state \in roots :
                  ProveDelivered(id, state) /\ Close(id, "Delivered", trades[id].seller)
             \/ Close(id, "Failed", trades[id].buyer)
    BY SettleSteps
  <1>2. /\ trades[id].payment \in Int /\ trades[id].seller \in Accounts
        /\ trades[id].buyer \in Accounts
    BY <1>1 DEF Trade
  <1>3. CASE \E state \in roots : ProveAccepted(id, state)
    BY <1>3 DEF ProveAccepted, WethSum
  <1>4. ASSUME NEW outcome, NEW payee \in Accounts, Close(id, outcome, payee)
        PROVE  WethSum' = WethSum
    <2>1. weth' = [weth EXCEPT ![Market] = @ - trades[id].payment,
                               ![payee] = @ + trades[id].payment]
      BY <1>4 DEF Close
    <2> QED
      BY <1>2, <2>1, WethMoves
  <1> QED
    BY <1>1, <1>2, <1>3, <1>4

(***************************************************************************)
(* The books of the purchases with those of the trades.                    *)
(***************************************************************************)
WorthBooked == \A a \in Customers : Worth(a) = EtherFunds[a] + Funds[a] + Earned(a) + Refunded(a)

CostInv == CostBooks /\ WorthBooked /\ eth[Weth] = WethSum

LEMMA CostStep ==
  TypeOK /\ SaleInv /\ EtherInv /\ CostInv /\ [PurchasesNext]_marketVars => CostInv'
  <1> SUFFICES ASSUME TypeOK, SaleInv, EtherInv, CostInv, [PurchasesNext]_marketVars
               PROVE  CostInv'
    OBVIOUS
  <1>1. /\ WethSum \in Int /\ eth[Weth] \in Int
        /\ \A a \in Customers :
             /\ a \in Accounts /\ eth[a] \in Int /\ weth[a] \in Int /\ cost[a] \in Int
             /\ EtherFunds[a] \in Int /\ Funds[a] \in Int
             /\ Earned(a) \in Int /\ Refunded(a) \in Int
             /\ Worth(a) = EtherFunds[a] + Funds[a] + Earned(a) + Refunded(a)
    <2>1. WethSum \in Int
      BY WethMoves
    <2>2. eth[Weth] \in Int /\ \A a \in Accounts : eth[a] \in Int /\ cost[a] \in Int
      BY KnownPurses DEF CostInv, CostBooks, IsBook
    <2>3. \A a \in Accounts : weth[a] \in Int /\ EtherFunds[a] \in Int /\ Funds[a] \in Int
      BY MarketConstants, PurchaseConstants DEF TypeOK, Holders
    <2>4. \A a \in Accounts : Earned(a) \in Int /\ Refunded(a) \in Int
      BY BooksAreSums
    <2> QED
      BY <2>1, <2>2, <2>3, <2>4 DEF Customers, CostInv, WorthBooked
  <1>2. CASE BuyNext
    <2>1. /\ CostBooks' /\ eth'[Weth] - WethSum' = eth[Weth] - WethSum
          /\ \A a \in Customers : Worth(a)' = Worth(a)
      BY <1>2, BuyKeepsBooks DEF CostInv, KeepsBooks
    <2>2. \A a \in Customers : Earned(a)' = Earned(a) /\ Refunded(a)' = Refunded(a)
      BY <1>2, BuyIsFill, FillBooks
    <2>3. WorthBooked'
      BY <1>1, <2>1, <2>2 DEF WorthBooked
    <2>4. WethSum' \in Int /\ eth'[Weth] \in Int
      <3>1. weth' \in [Holders -> Int]
        BY <1>2, BuyIsFill, AnyFillType DEF TypeOK
      <3>2. \A h \in Holders : weth'[h] \in Int
        BY <3>1
      <3>3. SumOf(weth', Holders) \in Int
        BY <3>2, HoldersFinite, SumFacts
      <3> QED
        BY <2>1, <3>3, KnownPurses DEF WethSum, CostBooks, IsBook
    <2>5. eth[Weth] = WethSum
      BY DEF CostInv
    <2>6. eth'[Weth] = WethSum'
      BY <1>1, <2>1, <2>4, <2>5
    <2> QED
      BY <2>1, <2>3, <2>6 DEF CostInv
  <1>3. CASE SettleNext /\ UNCHANGED purchaseVars
    <2>1. eth' = eth /\ cost' = cost /\ WethSum' = WethSum
      BY <1>3, SettleKeepsWeth DEF purchaseVars
    <2>2. ASSUME NEW a \in Customers
          PROVE  Worth(a)' = EtherFunds[a] + Funds[a] + Earned(a)' + Refunded(a)'
      <3>1. /\ weth'[a] - Earned(a)' - Refunded(a)' = weth[a] - Earned(a) - Refunded(a)
            /\ weth'[a] \in Int /\ Earned(a)' \in Int /\ Refunded(a)' \in Int
        BY <1>1, <1>3, SettleBooks
      <3>2. eth[a] + weth[a] + cost[a] = EtherFunds[a] + Funds[a] + Earned(a) + Refunded(a)
        BY <1>1 DEF Worth
      <3>3. eth[a] + weth'[a] + cost[a] = EtherFunds[a] + Funds[a] + Earned(a)' + Refunded(a)'
        BY <1>1, <3>1, <3>2
      <3> QED
        BY <2>1, <3>3 DEF Worth
    <2> QED
      BY <2>1, <2>2 DEF CostInv, CostBooks, WorthBooked, IsBook, IsLedger
  <1>4. CASE UNCHANGED purchaseVars /\ trades' = trades /\ weth' = weth
    <2>1. \A a : Earned(a)' = Earned(a) /\ Refunded(a)' = Refunded(a)
      BY <1>4, BooksKept
    <2>2. eth' = eth /\ cost' = cost /\ WethSum' = WethSum
      BY <1>4 DEF purchaseVars, WethSum
    <2> QED
      BY <1>4, <2>1, <2>2 DEF CostInv, CostBooks, WorthBooked, Worth, IsBook, IsLedger
  <1>5. CASE OtherNext
    <2>1. UNCHANGED purchaseVars
      BY <1>5 DEF OtherNext
    <2>2. SettleNext \/ (trades' = trades /\ weth' = weth)
      BY <1>5 DEF OtherNext, SetDelegation, Ship, Dock, BeaconNext, tradeVars, vars
    <2> QED
      BY <1>3, <1>4, <2>1, <2>2
  <1>6. CASE UNCHANGED marketVars
    BY <1>4, <1>6 DEF marketVars, allVars, vars, tradeVars
  <1> QED
    BY <1>2, <1>5, <1>6 DEF PurchasesNext

LEMMA CostInit == PurchasesInit => CostInv
  <1> SUFFICES ASSUME PurchasesInit PROVE CostInv
    OBVIOUS
  <1> /\ Market \notin Accounts /\ Weth \notin Contracts /\ Weth \notin Accounts
      /\ Weth \in Known /\ Weth # PoolManager /\ Accounts \subseteq Known
      /\ Known = Accounts \cup Contracts \cup {Weth, Predeploy}
    <2>1. Market \notin Accounts
      BY MarketConstants
    <2>2. /\ Weth \notin Contracts /\ Weth \notin Accounts /\ Weth # PoolManager
          /\ Predeploy # PoolManager /\ \A a \in Holders : a # PoolManager
      BY PurchaseConstants, BidConstants DEF Contracts, Holders
    <2>3. Contracts \subseteq Holders /\ Market \in Contracts
      BY PurchaseConstants, BidConstants DEF Contracts, Holders
    <2> QED
      BY <2>1, <2>2, <2>3 DEF Known, Purses, Holders
  <1>1. /\ Init /\ weth = [a \in Holders |-> IF a = Market THEN 0 ELSE Funds[a]]
        /\ cost = [a \in Accounts |-> 0]
    BY DEF PurchasesInit, BidsInit, Init
  <1>2. /\ eth = [p \in Purses |-> eth[p]]
        /\ \A p \in Contracts : p \in Purses => eth[p] = Strays[p]
        /\ \A p \in Accounts \ Contracts : p \in Purses => eth[p] = EtherFunds[p]
        /\ eth[Weth] = SumOf(Funds, Accounts)
        /\ Predeploy \in Known \ (Accounts \cup Contracts \cup {Weth}) => eth[Predeploy] = 0
    <2>1. \A p \in Purses : eth[p] =
            IF p \in Contracts THEN Strays[p]
            ELSE IF p \in Accounts THEN EtherFunds[p]
            ELSE IF p = Weth THEN MapThenSumSet(LAMBDA a : Funds[a], Accounts)
            ELSE IF p = PoolManager THEN PoolDepth * MapThenSumSet(LAMBDA r : r, Rates) ELSE 0
      BY DEF PurchasesInit
    <2>2. eth[Weth] = MapThenSumSet(LAMBDA a : Funds[a], Accounts)
      BY <2>1 DEF Purses
    <2>3. eth[Weth] = SumOf(Funds, Accounts)
      BY <2>2 DEF SumOf
    <2> QED
      BY <2>1, <2>3 DEF PurchasesInit, Known
  <1>3. /\ Funds \in [Accounts -> Int] /\ EtherFunds \in [Accounts -> Int]
        /\ Strays \in [Contracts -> Int] /\ IsFiniteSet(Accounts)
    BY MarketConstants, PurchaseConstants
  <1>4. SumOf(Funds, Accounts) \in Int
    BY <1>3, SumFacts
  <1>5. WethSum = SumOf(Funds, Accounts)
    <2>1. weth \in [Holders -> Int] /\ weth[Market] = 0 /\ Market \in Holders
          /\ Holders \ {Market} = Accounts
      BY <1>1, <1>3 DEF Holders
    <2>2. SumOf(weth, Holders) = weth[Market] + SumOf(weth, Accounts)
      BY <2>1, HoldersFinite, SumFacts
    <2>3. \A a \in Accounts : weth[a] \in Int /\ weth[a] = Funds[a]
      BY <1>1, <1>3 DEF Holders
    <2>4. SumOf(weth, Accounts) = SumOf(Funds, Accounts)
      BY <1>3, <2>3, SumAgrees
    <2> QED
      BY <1>4, <2>1, <2>2, <2>4 DEF WethSum
  <1>6. IsBook(eth)
    <2> SUFFICES ASSUME NEW p \in Known PROVE eth[p] \in Int
      BY <1>2 DEF IsBook, IsLedger
    <2>1. CASE p \in Contracts
      BY <1>2, <1>3, <2>1 DEF Known
    <2>2. CASE p \in Accounts \ Contracts
      BY <1>2, <1>3, <2>2 DEF Known
    <2>3. CASE p = Weth
      BY <1>2, <1>4, <2>3
    <2> QED
      BY <1>2, <2>1, <2>2, <2>3
  <1>7. ASSUME NEW a \in Customers
        PROVE  Worth(a) = EtherFunds[a] + Funds[a] + Earned(a) + Refunded(a)
    <2>1. a \in Accounts /\ a \notin Contracts
      BY DEF Customers, Contracts
    <2>2. Earned(a) = 0 /\ Refunded(a) = 0
      BY <1>1, NothingBooked
    <2>3. eth[a] = EtherFunds[a] /\ weth[a] = Funds[a] /\ cost[a] = 0
      BY <1>1, <1>2, <2>1 DEF Holders, Known
    <2>4. EtherFunds[a] \in Int /\ Funds[a] \in Int
      BY <1>3, <2>1
    <2> QED
      BY <2>2, <2>3, <2>4 DEF Worth
  <1>8. cost \in [Accounts -> Int]
    BY <1>1
  <1> QED
    BY <1>2, <1>5, <1>6, <1>7, <1>8 DEF CostInv, CostBooks, WorthBooked

LEMMA CostsMatch ==
  CostInv => WethBacked /\ PurchasesCostPriceAndFee
  <1> SUFFICES ASSUME CostInv PROVE WethBacked /\ PurchasesCostPriceAndFee
    OBVIOUS
  <1>1. WethBacked
    BY DEF CostInv, WethBacked, WethSum, SumOf
  <1>2. PurchasesCostPriceAndFee
    BY DEF CostInv, WorthBooked, Worth, Customers, PurchasesCostPriceAndFee, Earned, Refunded,
       SoldBy, RefundedTo, PaymentsOf, PaymentSum
  <1> QED
    BY <1>1, <1>2

(***************************************************************************)
(* The books of the purchases agree with those of the trades: ether and    *)
(* WETH of a customer with its costs and outcomes, and the ether of the    *)
(* WETH contract with the balances it stands for.                          *)
(***************************************************************************)
THEOREM CostsBooked == PurchasesSpec => []CostInv
  <1>1. PurchasesInit => EtherInv
    BY PurchaseConstants, PurseNames DEF PurchasesInit, EtherInv, EtherNeverStuck, IsLedger
  <1>2. PurchasesSpec => []EtherInv
    BY <1>1, EtherStep, PurchasesKeepMarket, PTL DEF PurchasesSpec
  <1> QED
    BY <1>2, CostInit, CostStep, PurchasesKeepMarket, PTL DEF PurchasesSpec, SettlementInv

(***************************************************************************)
(* The WETH contract holds the ether of all WETH, whichever of the market  *)
(* and the hook wrapped a payment.                                         *)
(***************************************************************************)
THEOREM WethIsBacked == PurchasesSpec => []WethBacked
  BY CostsBooked, CostsMatch, PTL

(***************************************************************************)
(* Whatever a customer attaches, swaps or is handed back, its ether and    *)
(* WETH are down by exactly the payments and fees of its purchases and up  *)
(* by the payouts of its trades.                                           *)
(***************************************************************************)
THEOREM PurchasesCostTheirPrice == PurchasesSpec => []PurchasesCostPriceAndFee
  BY CostsBooked, CostsMatch, PTL

(***************************************************************************)
(* Bids: who a new trade belongs to                                        *)
(***************************************************************************)
\* The trade a purchase opens.
Opened ==
  /\ nextTradeId \in TradeIds /\ ~IsFilled(nextTradeId)
  /\ \A id \in TradeIds : id # nextTradeId => trades'[id] = trades[id]
  /\ trades'[nextTradeId].status = "RequestSubmitted"
  /\ NewPayment \in Nat
  /\ trades'[nextTradeId].seller \in Sellers

BoughtDirectly ==
  /\ UNCHANGED bidVars /\ trades'[nextTradeId].buyer \in Buyers
  /\ \/ weth' = [weth EXCEPT ![Market] = @ + NewPayment]
     \/ \E payer \in Payers :
          weth' = [weth EXCEPT ![payer] = @ - NewPayment, ![Market] = @ + NewPayment]

BoughtForBid(b) ==
  /\ PullInto(b, NewPayment) /\ matched' = [matched EXCEPT ![nextTradeId] = b]
  /\ trades'[nextTradeId].buyer = b.maker

LEMMA FillOpens ==
  ASSUME TypeOK, SaleInv, NEW o \in Orders, NEW target \in Validators, NEW state \in roots,
         NEW buyer \in Accounts, NEW payment, FillFor(o, target, state, buyer, payment)
  PROVE  Opened /\ NewPayment = payment /\ trades'[nextTradeId].buyer = buyer
  <1>1. /\ nextTradeId \in TradeIds /\ nextTradeId \in Nat
        /\ \A id \in TradeIds : id # nextTradeId => trades'[id] = trades[id]
        /\ trades'[nextTradeId].status = "RequestSubmitted"
    BY FillFacts
  <1>2. ~IsFilled(nextTradeId)
    BY <1>1 DEF SaleInv, FreshIds
  <1>3. payment \in Nat /\ NewPayment = payment
    BY FillPays
  <1>4. trades'[nextTradeId].seller = o.seller /\ trades'[nextTradeId].buyer = buyer
    BY <1>1 DEF FillFor, OpenTrade, TypeOK
  <1> QED
    BY <1>1, <1>2, <1>3, <1>4 DEF Opened, Sellers

LEMMA BuySteps ==
  ASSUME TypeOK, SaleInv, BuyNext
  PROVE  Opened /\ (BoughtDirectly \/ \E b \in Bids : BoughtForBid(b))
  <1>1. PICK o \in Orders, state \in roots, payer \in Payers :
          \/ \E target \in Targets, buyer \in Buyers :
               /\ UNCHANGED bidVars
               /\ FillWithEth(o, target, state, buyer) \/ Fill(o, target, state, buyer, payer)
          \/ \E b \in Bids : MatchBid(b, o, state)
    BY DEF BuyNext, BuyWithWeth, BuyWithEth, BuyWithToken, BuyForBid
  <1>2. CASE \E target \in Targets, buyer \in Buyers :
               /\ UNCHANGED bidVars
               /\ FillWithEth(o, target, state, buyer) \/ Fill(o, target, state, buyer, payer)
    <2>1. PICK target \in Targets, buyer \in Buyers :
            /\ UNCHANGED bidVars
            /\ FillWithEth(o, target, state, buyer) \/ Fill(o, target, state, buyer, payer)
      BY <1>2
    <2>2. target \in Validators /\ buyer \in Accounts
      BY MarketConstants
    <2>3. PICK payment :
            /\ FillFor(o, target, state, buyer, payment)
            /\ \/ weth' = [weth EXCEPT ![Market] = @ + payment]
               \/ weth' = [weth EXCEPT ![payer] = @ - payment, ![Market] = @ + payment]
      BY <2>1 DEF FillWithEth, Fill
    <2>4. Opened /\ NewPayment = payment /\ trades'[nextTradeId].buyer = buyer
      BY <2>2, <2>3, FillOpens
    <2> QED
      BY <2>1, <2>3, <2>4 DEF BoughtDirectly
  <1>3. CASE \E b \in Bids : MatchBid(b, o, state)
    <2>1. PICK b \in Bids : MatchBid(b, o, state)
      BY <1>3
    <2>2. PICK payment :
            /\ PullInto(b, payment) /\ FillFor(o, b.target, state, b.maker, payment)
            /\ matched' = [matched EXCEPT ![nextTradeId] = b]
      BY <2>1 DEF MatchBid, BuyerFor
    <2>3. b.maker \in Accounts /\ b.target \in Validators
      BY BidTerms
    <2>4. Opened /\ NewPayment = payment /\ trades'[nextTradeId].buyer = b.maker
      BY <2>2, <2>3, FillOpens
    <2> QED
      BY <2>2, <2>4 DEF BoughtForBid
  <1> QED
    BY <1>1, <1>2, <1>3

\* What happens to trades and bids in any step.
LEMMA PurchaseSteps ==
  ASSUME TypeOK, SaleInv, [PurchasesNext]_marketVars
  PROVE  \/ Opened /\ (BoughtDirectly \/ \E b \in Bids : BoughtForBid(b))
         \/ SettleNext /\ UNCHANGED bidVars
         \/ /\ trades' = trades /\ weth' = weth /\ matched' = matched
            /\ aqua' = aqua \/ \E s \in Shipments : Ship(s) \/ Dock(s)
  <1>1. CASE BuyNext
    BY <1>1, BuySteps
  <1>2. CASE OtherNext
    BY <1>2 DEF OtherNext, SetDelegation, Ship, Dock, BeaconNext, tradeVars, vars, bidVars
  <1>3. CASE UNCHANGED marketVars
    BY <1>3 DEF marketVars, allVars, vars, tradeVars, bidVars
  <1> QED
    BY <1>1, <1>2, <1>3 DEF PurchasesNext

(***************************************************************************)
(* Budgets                                                                 *)
(***************************************************************************)
Spent(b) == PaymentSum(trades, MatchedWith(b))

AquaType == aqua \in [Shipments -> [state : {"none", "live", "docked"}, balance : Int]]

BudgetsKept ==
  /\ \A s \in Shipments : aqua[s].state = "live" =>
       aqua[s].balance = s.budget - (IF s.shipper = s.bid.maker THEN Spent(s.bid) ELSE 0)
  /\ \A b \in Bids : MatchedWith(b) # {} =>
       \E s \in Shipments : s.bid = b /\ s.shipper = b.maker /\ aqua[s].state # "none"

BudgetInv == AquaType /\ BudgetsKept

LEMMA MatchedPaid ==
  ASSUME TypeOK, MatchInv, NEW b \in Bids
  PROVE  Paid(trades, MatchedWith(b)) /\ Spent(b) \in Int
  <1>1. Paid(trades, MatchedWith(b))
    BY BidConstants, PaidTrades DEF MatchInv, MatchedTrades, MatchedWith
  <1> QED
    BY <1>1, PaymentSums DEF Spent

\* A match counts against its own bid.
LEMMA OpenedSpends ==
  ASSUME TypeOK, MatchInv, Opened, NEW b \in Bids, BoughtForBid(b), NEW c \in Bids
  PROVE  /\ Spent(c)' = Spent(c) + (IF c = b THEN NewPayment ELSE 0)
         /\ MatchedWith(c)' # {} => MatchedWith(c) # {} \/ c = b
  <1> DEFINE new == nextTradeId
  <1>1. matched \in [TradeIds -> Bids \cup {NoBid}] /\ matched[new] = NoBid /\ new \in TradeIds
    BY DEF MatchInv, MatchedTrades, Opened
  <1>2. NoBid \notin Bids
    BY BidConstants
  <1>3. /\ new \notin MatchedWith(c)
        /\ MatchedWith(c)' = IF c = b THEN MatchedWith(c) \cup {new} ELSE MatchedWith(c)
    BY <1>1, <1>2 DEF BoughtForBid, MatchedWith
  <1>4. Paid(trades, MatchedWith(c)) /\ Spent(c) \in Int
    BY MatchedPaid
  <1>5. /\ \A id \in MatchedWith(c) : trades'[id].payment = trades[id].payment
        /\ trades'[new].payment = NewPayment /\ NewPayment \in Nat
    BY <1>3 DEF Opened, NewPayment, MatchedWith
  <1>6. Paid(trades', MatchedWith(c)) /\ Paid(trades', MatchedWith(c) \cup {new})
    BY <1>1, <1>4, <1>5 DEF Paid
  <1>7. (MatchedWith(c) \cup {new}) \ {new} = MatchedWith(c)
    BY <1>3
  <1>8. /\ PaymentSum(trades', MatchedWith(c)) = PaymentSum(trades, MatchedWith(c))
        /\ PaymentSum(trades', MatchedWith(c) \cup {new})
             = PaymentSum(trades, MatchedWith(c)) + trades'[new].payment
    BY <1>4, <1>5, <1>6, <1>7, PaymentsMove
  <1> QED
    BY <1>3, <1>4, <1>5, <1>8 DEF Spent

\* Where no bid is matched, what the bids spent stays.
LEMMA SpentKept ==
  ASSUME TypeOK, MatchInv, TermsKept, matched' = matched, NEW c \in Bids
  PROVE  Spent(c)' = Spent(c) /\ MatchedWith(c)' = MatchedWith(c)
  <1>1. Paid(trades, MatchedWith(c)) /\ MatchedWith(c)' = MatchedWith(c)
    BY MatchedPaid DEF MatchedWith
  <1>2. \A id \in MatchedWith(c) : trades'[id].payment = trades[id].payment
    BY BidConstants DEF TermsKept, MatchInv, MatchedTrades, MatchedWith
  <1> QED
    BY <1>1, <1>2, PaymentSums DEF Spent

SameSpending ==
  \A c \in Bids : Spent(c)' = Spent(c) /\ MatchedWith(c)' = MatchedWith(c)

LEMMA ShipmentFacts ==
  ASSUME NEW s \in Shipments
  PROVE  /\ s.bid \in Bids /\ s.budget \in Int
         /\ \A t \in Shipments : s.shipper = t.shipper /\ s.bid = t.bid => s = t
  BY BidConstants

\* Whoever ships, docks or does neither, the budgets agree with the matches.
LEMMA AquaKeepsBudgets ==
  ASSUME TypeOK, MatchInv, BudgetInv, SameSpending,
         aqua' = aqua \/ \E s \in Shipments : Ship(s) \/ Dock(s)
  PROVE  BudgetInv'
  <1>1. /\ AquaType /\ \A c \in Bids : Spent(c) \in Int
        /\ \A s \in Shipments : s.bid \in Bids
    BY MatchedPaid, ShipmentFacts DEF BudgetInv
  <1>2. CASE aqua' = aqua
    BY <1>1, <1>2 DEF BudgetInv, BudgetsKept, SameSpending, AquaType
  <1>3. ASSUME NEW s \in Shipments, Ship(s) PROVE BudgetInv'
    <2>1. /\ aqua[s].state = "none"
          /\ aqua' = [aqua EXCEPT ![s] = [state |-> "live", balance |-> s.budget]]
      BY <1>3 DEF Ship
    <2>2. s.shipper = s.bid.maker => Spent(s.bid) = 0
      <3>1. s.shipper = s.bid.maker => MatchedWith(s.bid) = {}
        BY <1>1, <2>1, ShipmentFacts DEF BudgetInv, BudgetsKept
      <3>2. Paid(trades, {})
        BY DEF Paid
      <3> QED
        BY <3>1, <3>2, PaymentSums DEF Spent
    <2>3. s.budget \in Int
      BY ShipmentFacts
    <2>4. s.budget = s.budget - (IF s.shipper = s.bid.maker THEN Spent(s.bid) ELSE 0)
      BY <2>2, <2>3
    <2>5. /\ AquaType' /\ aqua'[s].state = "live" /\ aqua'[s].balance = s.budget
          /\ \A t \in Shipments : t # s => aqua'[t] = aqua[t]
      BY <1>1, <2>1, <2>3 DEF AquaType
    <2> QED
      BY <1>1, <2>4, <2>5 DEF BudgetInv, BudgetsKept, SameSpending
  <1>4. ASSUME NEW s \in Shipments, Dock(s) PROVE BudgetInv'
    <2>1. aqua' = [aqua EXCEPT ![s] = [state |-> "docked", balance |-> 0]]
      BY <1>4 DEF Dock
    <2>2. /\ AquaType' /\ aqua'[s].state = "docked"
          /\ \A t \in Shipments : t # s => aqua'[t] = aqua[t]
      BY <1>1, <2>1 DEF AquaType
    <2> QED
      BY <1>1, <2>2 DEF BudgetInv, BudgetsKept, SameSpending
  <1> QED
    BY <1>2, <1>3, <1>4

\* A match takes its payment from the one shipment its maker made of the bid.
LEMMA MatchKeepsBudgets ==
  ASSUME TypeOK, MatchInv, BudgetInv, Opened, NEW b \in Bids, BoughtForBid(b)
  PROVE  BudgetInv'
  <1>1. AquaType /\ NewPayment \in Int
    BY DEF BudgetInv, Opened
  <1>2. PICK s \in ShippedBy(b) :
          /\ aqua[s].state = "live"
          /\ aqua' = [aqua EXCEPT ![s].balance = @ - NewPayment]
    BY DEF BoughtForBid, PullInto
  <1>3. s \in Shipments /\ s.bid = b /\ s.shipper = b.maker
    BY <1>2 DEF ShippedBy
  <1>4. /\ AquaType' /\ aqua'[s].state = "live"
        /\ aqua'[s].balance = aqua[s].balance - NewPayment
        /\ \A t \in Shipments : t # s => aqua'[t] = aqua[t]
    BY <1>1, <1>2, <1>3 DEF AquaType
  <1>5. \A c \in Bids :
          /\ Spent(c) \in Int /\ Spent(c)' = Spent(c) + (IF c = b THEN NewPayment ELSE 0)
          /\ MatchedWith(c)' # {} => MatchedWith(c) # {} \/ c = b
    BY MatchedPaid, OpenedSpends
  <1>6. ASSUME NEW t \in Shipments, aqua'[t].state = "live"
        PROVE  aqua'[t].balance
                 = t.budget - (IF t.shipper = t.bid.maker THEN Spent(t.bid)' ELSE 0)
    <2>1. /\ t.bid \in Bids /\ t.budget \in Int
          /\ t # s => ~(t.shipper = t.bid.maker /\ t.bid = b)
      BY <1>3, ShipmentFacts
    <2>2. aqua[t].state = "live"
      BY <1>2, <1>4, <1>6
    <2>3. aqua[t].balance = t.budget - (IF t.shipper = t.bid.maker THEN Spent(t.bid) ELSE 0)
      BY <2>2 DEF BudgetInv, BudgetsKept
    <2>4. CASE t = s
      BY <1>1, <1>3, <1>4, <1>5, <2>1, <2>3, <2>4
    <2>5. CASE t # s
      BY <1>4, <1>5, <2>1, <2>3, <2>5
    <2> QED
      BY <2>4, <2>5
  <1>7. ASSUME NEW c \in Bids, MatchedWith(c)' # {}
        PROVE  \E t \in Shipments : t.bid = c /\ t.shipper = c.maker /\ aqua'[t].state # "none"
    <2>1. CASE c = b
      BY <1>3, <1>4, <2>1
    <2>2. CASE MatchedWith(c) # {}
      <3>1. PICK t \in Shipments : t.bid = c /\ t.shipper = c.maker /\ aqua[t].state # "none"
        BY <2>2 DEF BudgetInv, BudgetsKept
      <3> QED
        BY <1>4, <3>1
    <2> QED
      BY <1>5, <1>7, <2>1, <2>2
  <1> QED
    BY <1>4, <1>6, <1>7 DEF BudgetInv, BudgetsKept

LEMMA BudgetStep ==
  TypeOK /\ SaleInv /\ MatchInv /\ BudgetInv /\ [PurchasesNext]_marketVars => BudgetInv'
  <1> SUFFICES ASSUME TypeOK, SaleInv, MatchInv, BudgetInv, [PurchasesNext]_marketVars
               PROVE  BudgetInv'
    OBVIOUS
  <1>1. matched' = matched => SameSpending
    BY StepKeepsAmounts, SpentKept DEF SameSpending
  <1>2. \/ matched' = matched /\ (aqua' = aqua \/ \E s \in Shipments : Ship(s) \/ Dock(s))
        \/ Opened /\ \E b \in Bids : BoughtForBid(b)
    BY PurchaseSteps DEF BoughtDirectly, bidVars
  <1> QED
    BY <1>1, <1>2, AquaKeepsBudgets, MatchKeepsBudgets

LEMMA BudgetInit == PurchasesInit => BudgetInv
  <1> SUFFICES ASSUME PurchasesInit PROVE BudgetInv
    OBVIOUS
  <1>1. /\ aqua = [s \in Shipments |-> [state |-> "none", balance |-> 0]]
        /\ matched = [id \in TradeIds |-> NoBid]
    BY DEF PurchasesInit, BidsInit
  <1>2. \A b \in Bids : MatchedWith(b) = {}
    BY <1>1, BidConstants DEF MatchedWith
  <1> QED
    BY <1>1, <1>2 DEF BudgetInv, AquaType, BudgetsKept

LEMMA MatchesKept == PurchasesSpec => []MatchInv
  <1>1. PurchasesInit => MatchInv
    BY DEF PurchasesInit, BidsInit, MatchInv, MatchedTrades
  <1> QED
    BY <1>1, MatchStep, PurchasesKeepMarket, PTL DEF PurchasesSpec, SettlementInv

LEMMA BudgetsAgree == BudgetInv => BudgetsAccounted
  BY DEF BudgetInv, BudgetsKept, BudgetsAccounted, Spent, PaymentsOf, PaymentSum

(***************************************************************************)
(* What Aqua has left for a live bid is its budget less all payments of    *)
(* its matches, and who ships a bid in somebody else's name pays nothing:  *)
(* whatever is bought and settled in between, for any number of shippers.  *)
(***************************************************************************)
THEOREM BudgetsExact == PurchasesSpec => []BudgetsAccounted
  BY BudgetInit, BudgetStep, BudgetsAgree, MatchesKept, PurchasesKeepMarket, PTL
     DEF PurchasesSpec, SettlementInv

(***************************************************************************)
(* The makers of bids                                                      *)
(***************************************************************************)
Makers == {b.maker : b \in Bids} \ (Payers \cup Sellers)

Held(a)         == TradesOfMaker(a) \cap WithStatus(OpenStatus \cup {"Delivered"})
OtherRefunds(a) == {id \in WithStatus({"Failed"}) \ TradesOfMaker(a) : trades[id].buyer = a}

MakerWhole(a) ==
  weth[a] + PaymentSum(trades, Held(a)) = Funds[a] + PaymentSum(trades, OtherRefunds(a))

\* The money of a matched trade goes back to its bid's maker, never to the app.
PartyOf(id) ==
  /\ trades[id].seller \in Sellers /\ trades[id].buyer # BidApp
  /\ matched[id] # NoBid => trades[id].buyer = matched[id].maker

Parties == \A id \in TradeIds : IsFilled(id) => PartyOf(id)

MakerInv ==
  /\ Parties /\ weth[BidApp] = Funds[BidApp]
  /\ \A a \in Makers : MakerWhole(a)

LEMMA MakerFacts ==
  /\ \A a \in Makers : a \in Accounts /\ a \notin Payers /\ a \notin Sellers /\ a # Market
  /\ BidApp \in Accounts /\ BidApp \notin Payers /\ BidApp \notin Sellers /\ BidApp \notin Buyers
  /\ BidApp # Market /\ \A b \in Bids : b.maker \in Accounts /\ b.maker # BidApp
  BY BidTerms, BidConstants, PurchaseConstants, MarketConstants DEF Makers

\* `id` is settled for good, and `payee` gets its payment.
Settles(id, outcome, payee) ==
  /\ trades'[id].status = outcome
  /\ \A a \in Accounts :
       weth'[a] = IF a = payee THEN weth[a] + trades[id].payment ELSE weth[a]

LEMMA SettledTrade ==
  ASSUME TypeOK, SettleNext
  PROVE  \E id \in TradeIds :
           /\ IsOpen(id) /\ OnlyTrade(id)
           /\ \/ IsOpen(id)' /\ weth' = weth
              \/ Settles(id, "Delivered", trades[id].seller)
              \/ Settles(id, "Failed", trades[id].buyer)
  <1>1. PICK id \in TradeIds :
          /\ IsOpen(id) /\ trades[id] \in Trade
          /\ \/ \E state \in roots : ProveAccepted(id, state)
             \/ \E state \in roots :
                  ProveDelivered(id, state) /\ Close(id, "Delivered", trades[id].seller)
             \/ Close(id, "Failed", trades[id].buyer)
    BY SettleSteps
  <1>2. CASE \E state \in roots : ProveAccepted(id, state)
    <2>1. PICK epoch : /\ trades' = [trades EXCEPT ![id].withdrawableEpoch = epoch,
                                                   ![id].status = "Accepted"]
                       /\ weth' = weth
      BY <1>2 DEF ProveAccepted
    <2> QED
      BY <1>1, <2>1 DEF TypeOK, Trade, OnlyTrade, IsOpen, OpenStatus
  <1>3. ASSUME NEW outcome, NEW payee, Close(id, outcome, payee)
        PROVE  OnlyTrade(id) /\ Settles(id, outcome, payee)
    <2>1. /\ trades' = [trades EXCEPT ![id].status = outcome]
          /\ weth' = [weth EXCEPT ![Market] = @ - trades[id].payment,
                                  ![payee] = @ + trades[id].payment]
      BY <1>3 DEF Close
    <2>2. OnlyTrade(id) /\ trades'[id].status = outcome
      BY <1>1, <2>1 DEF TypeOK, Trade, OnlyTrade
    <2>3. \A a \in Accounts :
            weth'[a] = IF a = payee THEN weth[a] + trades[id].payment ELSE weth[a]
      BY <2>1, MarketConstants DEF TypeOK, Holders
    <2> QED
      BY <2>2, <2>3 DEF Settles
  <1> QED
    BY <1>1, <1>2, <1>3

LEMMA HeldPaid ==
  ASSUME TypeOK, NEW a
  PROVE  /\ Paid(trades, Held(a)) /\ Paid(trades, OtherRefunds(a))
         /\ PaymentSum(trades, Held(a)) \in Int /\ PaymentSum(trades, OtherRefunds(a)) \in Int
  <1>1. Paid(trades, Held(a)) /\ Paid(trades, OtherRefunds(a))
    BY PaidTrades DEF Held, OtherRefunds, TradesOfMaker, WithStatus, OpenStatus, IsFilled
  <1> QED
    BY <1>1, PaymentSums

\* Where neither what a maker holds nor its wallet changes, it stays whole.
LEMMA SameHeld ==
  ASSUME TypeOK, TermsKept, NEW a, MakerWhole(a), weth'[a] = weth[a],
         Held(a)' = Held(a), OtherRefunds(a)' = OtherRefunds(a)
  PROVE  MakerWhole(a)'
  <1>1. \A id \in Held(a) \cup OtherRefunds(a) : trades'[id].payment = trades[id].payment
    BY DEF TermsKept, Held, OtherRefunds, TradesOfMaker, WithStatus, OpenStatus, IsFilled
  <1>2. /\ PaymentSum(trades', Held(a)) = PaymentSum(trades, Held(a))
        /\ PaymentSum(trades', OtherRefunds(a)) = PaymentSum(trades, OtherRefunds(a))
    BY <1>1, HeldPaid, PaymentSums
  <1> QED
    BY <1>2 DEF MakerWhole

LEMMA OpenedParties ==
  ASSUME MatchInv, Parties, Opened,
         \/ matched' = matched /\ trades'[nextTradeId].buyer # BidApp
         \/ \E b \in Bids : BoughtForBid(b)
  PROVE  Parties'
  <1>0. PICK new \in TradeIds : new = nextTradeId
    BY DEF Opened
  <1>1. /\ matched \in [TradeIds -> Bids \cup {NoBid}] /\ matched[new] = NoBid
    BY <1>0 DEF MatchInv, MatchedTrades, Opened
  <1>2. ASSUME NEW id \in TradeIds, id # new, IsFilled(id)' PROVE PartyOf(id)'
    <2>1. trades'[id] = trades[id] /\ matched'[id] = matched[id]
      BY <1>0, <1>1, <1>2 DEF Opened, BoughtForBid
    <2> QED
      BY <1>2, <2>1 DEF Parties, PartyOf, IsFilled
  <1>3. PartyOf(new)'
    <2>1. trades'[new].seller \in Sellers
      BY <1>0 DEF Opened
    <2>2. CASE matched' = matched /\ trades'[new].buyer # BidApp
      BY <1>1, <2>1, <2>2 DEF PartyOf
    <2>3. CASE \E b \in Bids : BoughtForBid(b)
      <3>1. PICK b \in Bids : BoughtForBid(b)
        BY <2>3
      <3>2. matched'[new] = b /\ trades'[new].buyer = b.maker
        BY <1>0, <1>1, <3>1 DEF BoughtForBid
      <3> QED
        BY <2>1, <3>2, MakerFacts DEF PartyOf
    <2> QED
      BY <1>0, <2>2, <2>3
  <1> QED
    BY <1>2, <1>3 DEF Parties

LEMMA DirectBuyKeepsMakers ==
  ASSUME TypeOK, TermsKept, MatchInv, MakerInv, Opened, BoughtDirectly
  PROVE  MakerInv'
  <1>0. PICK new \in TradeIds : new = nextTradeId
    BY DEF Opened
  <1>1. /\ matched' = matched /\ matched[new] = NoBid
        /\ \A id \in TradeIds : id # new => trades'[id] = trades[id]
        /\ trades'[new].status = "RequestSubmitted" /\ trades[new].status = "None"
    BY <1>0 DEF MatchInv, MatchedTrades, Opened, BoughtDirectly, bidVars, IsFilled
  <1>2. Parties'
    BY <1>1, OpenedParties, MakerFacts DEF BoughtDirectly, MakerInv
  <1>3. \A a \in Accounts \ Payers : weth'[a] = weth[a]
    BY MarketConstants DEF BoughtDirectly, TypeOK, Holders
  <1>4. ASSUME NEW a \in Makers PROVE MakerWhole(a)'
    <2>1. Held(a)' = Held(a) /\ OtherRefunds(a)' = OtherRefunds(a)
      BY <1>1 DEF Held, OtherRefunds, TradesOfMaker, WithStatus, OpenStatus
    <2> QED
      BY <1>3, <2>1, SameHeld, MakerFacts DEF MakerInv
  <1> QED
    BY <1>2, <1>3, <1>4, MakerFacts DEF MakerInv

LEMMA MatchKeepsMakers ==
  ASSUME TypeOK, TermsKept, MatchInv, MakerInv, Opened, NEW b \in Bids, BoughtForBid(b)
  PROVE  MakerInv'
  <1>0. PICK new \in TradeIds : new = nextTradeId
    BY DEF Opened
  <1>1. /\ matched \in [TradeIds -> Bids \cup {NoBid}]
        /\ matched' = [matched EXCEPT ![new] = b] /\ matched[new] = NoBid
        /\ \A id \in TradeIds : id # new => trades'[id] = trades[id]
        /\ trades'[new].status = "RequestSubmitted" /\ trades[new].status = "None"
        /\ trades'[new].payment = NewPayment /\ NewPayment \in Nat
        /\ b # NoBid
    BY <1>0, BidConstants DEF MatchInv, MatchedTrades, Opened, BoughtForBid, IsFilled, NewPayment
  <1>2. Parties'
    BY OpenedParties DEF MakerInv
  <1>3. \A a \in Accounts : weth'[a] = IF a = b.maker THEN weth[a] - NewPayment ELSE weth[a]
    <2>1. weth' = [weth EXCEPT ![b.maker] = @ - NewPayment, ![Market] = @ + NewPayment]
      BY DEF BoughtForBid, PullInto
    <2> QED
      BY <2>1, MakerFacts, MarketConstants DEF TypeOK, Holders
  <1>4. ASSUME NEW a \in Makers, a # b.maker PROVE MakerWhole(a)'
    <2>1. Held(a)' = Held(a) /\ OtherRefunds(a)' = OtherRefunds(a)
      BY <1>1, <1>4 DEF Held, OtherRefunds, TradesOfMaker, WithStatus, OpenStatus
    <2> QED
      BY <1>3, <1>4, <2>1, SameHeld, MakerFacts DEF MakerInv
  <1>5. ASSUME NEW a \in Makers, a = b.maker PROVE MakerWhole(a)'
    <2>1. /\ new \notin Held(a) /\ new \notin OtherRefunds(a)
          /\ Held(a)' = Held(a) \cup {new} /\ OtherRefunds(a)' = OtherRefunds(a)
      BY <1>1, <1>5 DEF Held, OtherRefunds, TradesOfMaker, WithStatus, OpenStatus
    <2>2. /\ Paid(trades, Held(a)) /\ Paid(trades, OtherRefunds(a))
          /\ PaymentSum(trades, Held(a)) \in Int /\ PaymentSum(trades, OtherRefunds(a)) \in Int
      BY HeldPaid
    <2>3. \A id \in Held(a) \cup OtherRefunds(a) : trades'[id].payment = trades[id].payment
      BY <1>1, <2>1, <2>2 DEF Paid
    <2>4. Paid(trades', Held(a) \cup {new}) /\ (Held(a) \cup {new}) \ {new} = Held(a)
      BY <1>1, <2>1, <2>2, <2>3 DEF Paid
    <2>5. PaymentSum(trades', Held(a) \cup {new}) = PaymentSum(trades, Held(a)) + NewPayment
      BY <1>1, <2>2, <2>3, <2>4, PaymentsMove
    <2>6. PaymentSum(trades', OtherRefunds(a)) = PaymentSum(trades, OtherRefunds(a))
      BY <2>2, <2>3, PaymentSums
    <2>7. weth'[a] = weth[a] - NewPayment /\ weth[a] \in Int /\ Funds[a] \in Int
      BY <1>3, <1>5, MakerFacts, MarketConstants DEF TypeOK, Holders
    <2>8. weth[a] + PaymentSum(trades, Held(a)) = Funds[a] + PaymentSum(trades, OtherRefunds(a))
      BY DEF MakerInv, MakerWhole
    <2>9. weth'[a] + PaymentSum(trades', Held(a) \cup {new})
            = Funds[a] + PaymentSum(trades', OtherRefunds(a))
      BY <1>1, <2>2, <2>5, <2>6, <2>7, <2>8
    <2> QED
      BY <2>1, <2>9 DEF MakerWhole
  <1>6. weth'[BidApp] = weth[BidApp]
    BY <1>3, MakerFacts
  <1> QED
    BY <1>2, <1>4, <1>5, <1>6 DEF MakerInv

\* A trade's outcome: what the seller gets a maker does not miss, a refund is its own.
LEMMA SettleKeepsMakers ==
  ASSUME TypeOK, TermsKept, MatchInv, MakerInv, SettleNext, matched' = matched
  PROVE  MakerInv'
  <1>1. PICK id \in TradeIds :
          /\ IsOpen(id) /\ OnlyTrade(id)
          /\ \/ IsOpen(id)' /\ weth' = weth
             \/ Settles(id, "Delivered", trades[id].seller)
             \/ Settles(id, "Failed", trades[id].buyer)
    BY SettledTrade
  <1>2. /\ \A i \in TradeIds : i # id => trades'[i] = trades[i]
        /\ trades[id].status \in OpenStatus /\ IsFilled(id)
        /\ trades'[id].payment = trades[id].payment
        /\ trades'[id].seller = trades[id].seller /\ trades'[id].buyer = trades[id].buyer
        /\ PartyOf(id)
    BY <1>1 DEF OnlyTrade, IsOpen, IsFilled, OpenStatus, MakerInv, Parties
  <1>3. Parties'
    <2> SUFFICES ASSUME NEW i \in TradeIds, IsFilled(i)' PROVE PartyOf(i)'
      BY DEF Parties
    <2>1. IsFilled(i)
      BY <1>2 DEF IsFilled
    <2> QED
      BY <1>2, <2>1 DEF Parties, PartyOf, MakerInv
  <1>4. weth'[BidApp] = weth[BidApp]
    BY <1>1, <1>2, MakerFacts DEF PartyOf, Settles
  <1>5. ASSUME NEW a \in Makers PROVE MakerWhole(a)'
    <2>0. MakerWhole(a) /\ a \in Accounts /\ a \notin Sellers
      BY MakerFacts DEF MakerInv
    <2>1. CASE IsOpen(id)' /\ weth' = weth
      <3>1. Held(a)' = Held(a) /\ OtherRefunds(a)' = OtherRefunds(a)
        BY <1>2, <2>1 DEF Held, OtherRefunds, TradesOfMaker, WithStatus, OpenStatus, IsOpen
      <3> QED
        BY <2>0, <2>1, <3>1, SameHeld
    <2>2. CASE Settles(id, "Delivered", trades[id].seller)
      <3>1. Held(a)' = Held(a) /\ OtherRefunds(a)' = OtherRefunds(a)
        BY <1>2, <2>2 DEF Held, OtherRefunds, TradesOfMaker, WithStatus, OpenStatus, Settles
      <3>2. weth'[a] = weth[a]
        BY <1>2, <2>0, <2>2 DEF Settles, PartyOf
      <3> QED
        BY <2>0, <3>1, <3>2, SameHeld
    <2>3. CASE Settles(id, "Failed", trades[id].buyer)
      <3>1. /\ Paid(trades, Held(a)) /\ Paid(trades, OtherRefunds(a))
            /\ PaymentSum(trades, Held(a)) \in Int /\ PaymentSum(trades, OtherRefunds(a)) \in Int
            /\ weth[a] \in Int /\ Funds[a] \in Int /\ trades[id].payment \in Int
        <4>1. weth[a] \in Int /\ Funds[a] \in Int
          BY <2>0, MarketConstants DEF TypeOK, Holders
        <4>2. trades[id] \in Trade
          BY <1>2, FilledIsTrade DEF IsFilled
        <4> QED
          BY <4>1, <4>2, HeldPaid DEF Trade
      <3>2. \A i \in TradeIds : trades'[i].payment = trades[i].payment
        BY <1>2
      <3>3. /\ weth[a] + PaymentSum(trades, Held(a))
                 = Funds[a] + PaymentSum(trades, OtherRefunds(a))
            /\ weth'[a] = IF a = trades[id].buyer THEN weth[a] + trades[id].payment ELSE weth[a]
        BY <2>0, <2>3 DEF MakerWhole, Settles
      <3>4. trades'[id].status = "Failed"
        BY <2>3 DEF Settles
      <3>5. CASE id \in TradesOfMaker(a)
        <4>1. a = trades[id].buyer
          BY <1>2, <3>5 DEF PartyOf, TradesOfMaker
        <4>2. /\ id \in Held(a) /\ Held(a)' = Held(a) \ {id}
              /\ OtherRefunds(a)' = OtherRefunds(a)
          BY <1>2, <3>4, <3>5 DEF Held, OtherRefunds, TradesOfMaker, WithStatus, OpenStatus
        <4>3. Paid(trades', Held(a) \ {id}) /\ Paid(trades', OtherRefunds(a))
          BY <3>1, <3>2 DEF Paid
        <4>4. /\ PaymentSum(trades', Held(a) \ {id})
                   = PaymentSum(trades, Held(a)) - trades[id].payment
              /\ PaymentSum(trades', OtherRefunds(a)) = PaymentSum(trades, OtherRefunds(a))
          BY <3>1, <3>2, <4>2, <4>3, PaymentsMove DEF Paid
        <4>5. weth'[a] + PaymentSum(trades', Held(a) \ {id})
                = Funds[a] + PaymentSum(trades', OtherRefunds(a))
          BY <3>1, <3>3, <4>1, <4>4
        <4> QED
          BY <4>2, <4>5 DEF MakerWhole
      <3>6. CASE id \notin TradesOfMaker(a) /\ trades[id].buyer = a
        <4>1. /\ id \notin OtherRefunds(a) /\ OtherRefunds(a)' = OtherRefunds(a) \cup {id}
              /\ Held(a)' = Held(a)
          BY <1>2, <3>4, <3>6 DEF Held, OtherRefunds, TradesOfMaker, WithStatus, OpenStatus
        <4>2. /\ Paid(trades', Held(a)) /\ Paid(trades', OtherRefunds(a) \cup {id})
              /\ (OtherRefunds(a) \cup {id}) \ {id} = OtherRefunds(a)
              /\ trades'[id].payment = trades[id].payment
          <5>1. trades[id].payment \in Nat
            BY <1>2, FilledIsTrade DEF IsFilled, Trade
          <5> QED
            BY <3>1, <3>2, <4>1, <5>1 DEF Paid
        <4>3. /\ PaymentSum(trades', OtherRefunds(a) \cup {id})
                   = PaymentSum(trades, OtherRefunds(a)) + trades'[id].payment
              /\ PaymentSum(trades', Held(a)) = PaymentSum(trades, Held(a))
          BY <3>1, <3>2, <4>1, <4>2, PaymentsMove DEF Paid
        <4>4. weth'[a] + PaymentSum(trades', Held(a))
                = Funds[a] + PaymentSum(trades', OtherRefunds(a) \cup {id})
          BY <3>1, <3>3, <3>6, <4>2, <4>3
        <4> QED
          BY <4>1, <4>4 DEF MakerWhole
      <3>7. CASE id \notin TradesOfMaker(a) /\ trades[id].buyer # a
        <4>1. Held(a)' = Held(a) /\ OtherRefunds(a)' = OtherRefunds(a)
          BY <1>2, <3>4, <3>7 DEF Held, OtherRefunds, TradesOfMaker, WithStatus, OpenStatus
        <4>2. weth'[a] = weth[a]
          BY <3>3, <3>7
        <4> QED
          BY <2>0, <4>1, <4>2, SameHeld
      <3> QED
        BY <3>5, <3>6, <3>7
    <2> QED
      BY <1>1, <2>1, <2>2, <2>3
  <1> QED
    BY <1>3, <1>4, <1>5 DEF MakerInv

LEMMA MakerStep ==
  TypeOK /\ SaleInv /\ MatchInv /\ MakerInv /\ [PurchasesNext]_marketVars => MakerInv'
  <1> SUFFICES ASSUME TypeOK, SaleInv, MatchInv, MakerInv, [PurchasesNext]_marketVars
               PROVE  MakerInv'
    OBVIOUS
  <1>1. TermsKept
    BY StepKeepsAmounts
  <1>2. CASE trades' = trades /\ weth' = weth /\ matched' = matched
    <2>1. \A a \in Makers : Held(a)' = Held(a) /\ OtherRefunds(a)' = OtherRefunds(a)
      BY <1>2 DEF Held, OtherRefunds, TradesOfMaker, WithStatus
    <2>2. \A a \in Makers : MakerWhole(a)'
      BY <1>1, <1>2, <2>1, SameHeld DEF MakerInv
    <2>3. Parties'
      BY <1>2 DEF MakerInv, Parties, PartyOf, IsFilled
    <2> QED
      BY <1>2, <2>2, <2>3 DEF MakerInv
  <1>3. \/ Opened /\ (BoughtDirectly \/ \E b \in Bids : BoughtForBid(b))
        \/ SettleNext /\ matched' = matched
        \/ trades' = trades /\ weth' = weth /\ matched' = matched
    BY PurchaseSteps DEF bidVars
  <1> QED
    BY <1>1, <1>2, <1>3, DirectBuyKeepsMakers, MatchKeepsMakers, SettleKeepsMakers

LEMMA MakerInit == PurchasesInit => MakerInv
  <1> SUFFICES ASSUME PurchasesInit PROVE MakerInv
    OBVIOUS
  <1>1. /\ trades = [id \in TradeIds |-> NoTrade]
        /\ weth = [a \in Holders |-> IF a = Market THEN 0 ELSE Funds[a]]
    BY DEF PurchasesInit, BidsInit, Init
  <1>2. \A a \in Accounts : weth[a] = Funds[a] /\ Funds[a] \in Int
    BY <1>1, MarketConstants DEF Holders
  <1>3. \A a : Held(a) = {} /\ OtherRefunds(a) = {}
    BY <1>1 DEF Held, OtherRefunds, WithStatus, OpenStatus, NoTrade
  <1>4. PaymentSum(trades, {}) = 0
    <2>1. Paid(trades, {})
      BY DEF Paid
    <2> QED
      BY <2>1, PaymentSums
  <1>5. \A a \in Makers : MakerWhole(a)
    BY <1>2, <1>3, <1>4, MakerFacts DEF MakerWhole
  <1>6. Parties
    BY <1>1 DEF Parties, IsFilled, NoTrade
  <1> QED
    BY <1>2, <1>5, <1>6, MakerFacts DEF MakerInv

LEMMA MakersAreWhole == MakerInv => MakersMadeWhole
  BY DEF MakerInv, MakerWhole, Makers, Held, OtherRefunds, MakersMadeWhole, PaymentsOf, PaymentSum

(***************************************************************************)
(* Standing bids are self-custodial for any bids and budgets: a maker is   *)
(* out of pocket exactly for what it holds or received, a refund comes     *)
(* back to the wallet it was pulled from, and the app keeps nothing.       *)
(***************************************************************************)
THEOREM MakersWhole == PurchasesSpec => []MakersMadeWhole
  BY MakerInit, MakerStep, MakersAreWhole, MatchesKept, PurchasesKeepMarket, PTL
     DEF PurchasesSpec, SettlementInv
=============================================================================
