----------------------------- MODULE StakeBids -----------------------------
(***************************************************************************)
(* contracts/src/aqua/AquaStakeBidApp.sol: standing bids for stake.  The   *)
(* money of a bid stays in its maker's wallet; Aqua (external) keeps a     *)
(* virtual balance for whoever shipped the strategy, and matchBid pulls a  *)
(* listing's price from the wallet into the market.  A SwapVM program      *)
(* (external) may price the bid; here it is the Dutch auction that         *)
(* buildDutchBid builds.                                                   *)
(***************************************************************************)
EXTENDS StakeMarket

CONSTANTS
  Bids,      \* StakeBid structs
  Shipments, \* strategies that may be shipped, records [shipper, bid, budget]
  BidApp,    \* the app's account
  NoBid      \* "not matched with a bid"

\* `pricing` is empty, or an auction that raises `start` by `raise` each slot.
Auction == [start : Nat, raise : Nat, from : Nat, duration : Nat]
StakeBid ==
  [maker : Accounts, target : Validators, maxPrice : Nat, minStake : Nat, maxStake : Nat,
   pricing : Auction \cup {NoBid}]

ASSUME BidConstants ==
  /\ Bids \subseteq StakeBid
  /\ \A s \in Shipments : s.shipper \in Accounts /\ s.bid \in Bids /\ s.budget \in Nat
  \* Aqua knows a strategy by its shipper and its hash
  /\ \A s, t \in Shipments : s.shipper = t.shipper /\ s.bid = t.bid => s = t
  /\ BidApp \in Accounts /\ NoBid \notin Bids
  /\ \A b \in Bids : b.maker # BidApp

VARIABLES
  aqua,    \* [Shipments -> state and virtual balance]
  matched  \* history: the bid a trade was matched with

bidVars == <<aqua, matched>>
allVars == <<vars, bidVars>>

BidsInit ==
  /\ Init
  /\ aqua = [s \in Shipments |-> [state |-> "none", balance |-> 0]]
  /\ matched = [id \in TradeIds |-> NoBid]

-----------------------------------------------------------------------------
(* Aqua                                                                    *)

\* A strategy is shipped once, and docked for good.
Ship(s) ==
  /\ aqua[s].state = "none"
  /\ aqua' = [aqua EXCEPT ![s] = [state |-> "live", balance |-> s.budget]]
  /\ UNCHANGED <<vars, matched>>

Dock(s) ==
  /\ aqua[s].state = "live"
  /\ aqua' = [aqua EXCEPT ![s] = [state |-> "docked", balance |-> 0]]
  /\ UNCHANGED <<vars, matched>>

\* Faulty variant: a strategy counts for the maker it names, whoever shipped it.
ShippedByAnyone(b) == {s \in Shipments : s.bid = b}

\* The key of the balances has the shipper in it.
ShippedBy(b) == {s \in Shipments : s.bid = b /\ s.shipper = b.maker}

\* pull moves the maker's WETH through the app into the market.
PullInto(b, payment) ==
  \E s \in ShippedBy(b) :
    /\ aqua[s].balance >= payment /\ aqua[s].state = "live"
    /\ aqua' = [aqua EXCEPT ![s].balance = @ - payment]
    /\ weth[b.maker] >= payment
    /\ weth' = [weth EXCEPT ![b.maker] = @ - payment, ![Market] = @ + payment]

-----------------------------------------------------------------------------
(* Matching                                                                *)

MaxPayment(b, amount) == (amount * b.maxPrice) \div PriceUnit

HasAuction(b) == b.pricing # NoBid
\* The program fails before the auction starts and once it is over.
AuctionRuns(b, t) == t \in b.pricing.from..(b.pricing.from + b.pricing.duration)
AuctionPrice(b, amount, t) ==
  (amount * (b.pricing.start + b.pricing.raise * (t - b.pricing.from))) \div PriceUnit

\* Faulty variant: the auction's price is not capped.
WithinPrice(b, amount, payment) ==
  IF HasAuction(b) THEN AuctionRuns(b, now) /\ payment <= AuctionPrice(b, amount, now)
  ELSE payment <= MaxPayment(b, amount)

\* A bid names its own maker in its pricing (PricingMakerMismatch otherwise), as createBid does.
WithinLimit(b, amount, payment) ==
  /\ payment <= MaxPayment(b, amount)
  /\ HasAuction(b) => AuctionRuns(b, now) /\ payment <= AuctionPrice(b, amount, now)

\* Faulty variant: the trade is bought in the name of whoever pays the market.
PayerAsBuyer(b) == BidApp

BuyerFor(b) == b.maker

\* Anyone may match a bid with a listing.
MatchBid(b, o, state) ==
  LET amount == state.val[o.sourceIndex].eff
  IN \E payment \in Quotes(o, amount) :
       /\ amount \in b.minStake..b.maxStake
       /\ WithinLimit(b, amount, payment)
       /\ PullInto(b, payment)
       /\ FillFor(o, b.target, state, BuyerFor(b), payment)
       /\ matched' = [matched EXCEPT ![nextTradeId] = b]

-----------------------------------------------------------------------------
MatchedWith(b) == {id \in TradeIds : matched[id] = b}
TradesOfMaker(a) == {id \in TradeIds : matched[id] # NoBid /\ matched[id].maker = a}

(***************************************************************************)
(* A bid never spends more than was shipped for it, and only by the maker  *)
(* it names: what Aqua has left for a live bid is the budget less the      *)
(* payments of its matches, also of those that were refunded; a strategy   *)
(* shipped in somebody else's name pays for nothing.                       *)
(***************************************************************************)
BudgetsAccounted ==
  /\ \A s \in Shipments : aqua[s].state = "live" =>
       aqua[s].balance = s.budget
         - (IF s.shipper = s.bid.maker THEN PaymentsOf(MatchedWith(s.bid)) ELSE 0)
  /\ \A b \in Bids : MatchedWith(b) # {} =>
       \E s \in Shipments : s.bid = b /\ s.shipper = b.maker /\ aqua[s].state # "none"

(***************************************************************************)
(* A maker gets the stake it bid for within its terms: its own validator   *)
(* as the target, a size in its range, and a payment below its cap and     *)
(* below what its auction offered when the trade was filled, even where    *)
(* the listing's price follows an oracle.                                  *)
(***************************************************************************)
MatchesWithinTerms ==
  \A id \in TradeIds : matched[id] # NoBid =>
    LET t == trades[id]
        b == matched[id]
    IN /\ t.targetIndex = b.target
       /\ t.amount \in b.minStake..b.maxStake
       /\ t.payment * PriceUnit <= t.amount * b.maxPrice
       /\ HasAuction(b) =>
            /\ t.filledAt <= b.pricing.from + b.pricing.duration
            /\ t.payment <= AuctionPrice(b, t.amount, t.filledAt)

(***************************************************************************)
(* Bids are self-custodial: a maker who neither sells nor pays by itself   *)
(* is out of pocket exactly for its open and its delivered trades.         *)
(* Refunds come back to the wallet they were pulled from, although the app *)
(* paid the market, and the app keeps none.                                *)
(***************************************************************************)
MakersMadeWhole ==
  /\ \A a \in {b.maker : b \in Bids} \ (Payers \cup Sellers) :
       weth[a] + PaymentsOf(TradesOfMaker(a) \cap WithStatus(OpenStatus \cup {"Delivered"}))
         = Funds[a] + PaymentsOf({id \in WithStatus({"Failed"}) \ TradesOfMaker(a) : trades[id].buyer = a})
  /\ weth[BidApp] = Funds[BidApp]
=============================================================================
