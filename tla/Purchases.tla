----------------------------- MODULE Purchases -----------------------------
(***************************************************************************)
(* Every way into a fill, with the ether it carries: fill and fillWithEth  *)
(* of NativeStakeMarket.sol, a swap of a token in the pool of              *)
(* StakePortHook.sol (through StakePortSwapRouter.sol), and matchBid of    *)
(* AquaStakeBidApp.sol.  The ether of one call pays the price, the         *)
(* predeploy's fee (Stake7702Delegate.sol) and the change, all told apart  *)
(* by balances only.  The canonical pool and the WETH contract are         *)
(* external.                                                               *)
(***************************************************************************)
EXTENDS StakeBids

CONSTANTS
  Hook,         \* the hook's account
  PoolManager, Predeploy, Weth,
  EtherFunds,   \* [Accounts -> Nat]
  TokenFunds,   \* [Accounts -> Nat]
  Rejecting,    \* accounts that refuse ether
  Values,       \* msg.value of a purchase
  Fees,         \* fees the predeploy may ask
  Inputs,       \* token amounts a swapper may put in
  Rates,        \* ether the canonical pool may give for a token
  PoolDepth,    \* tokens the canonical pool can take before it is exhausted
  Strays        \* [Contracts -> Nat], ether sent to a contract outside any purchase

Contracts == {Market, Hook, BidApp}

Purses == Holders \cup {PoolManager, Predeploy, Weth}

ASSUME PurchaseConstants ==
  /\ Hook \in Accounts /\ {Hook, BidApp} \cap (Buyers \cup Payers \cup Sellers) = {}
  /\ Hook # BidApp /\ Holders \cap {PoolManager, Predeploy, Weth} = {}
  /\ PoolManager # Predeploy /\ PoolManager # Weth /\ Predeploy # Weth
  /\ IsFiniteSet(Accounts)
  /\ EtherFunds \in [Accounts -> Nat] /\ TokenFunds \in [Accounts -> Nat]
  /\ Rejecting \subseteq Accounts \ {Hook, BidApp}
  /\ Values \cup Fees \cup Inputs \cup Rates \subseteq Nat
  /\ PoolDepth \in Nat /\ Strays \in [Contracts -> Nat]

VARIABLES
  eth,   \* ether balances
  token, \* balances of the pool's token
  stray, \* history: how much of Strays a contract still holds
  cost   \* history: what its purchases are to cost an account

purchaseVars == <<eth, token, stray, cost>>
marketVars == <<allVars, purchaseVars>>

PurchasesInit ==
  /\ BidsInit
  /\ eth = [p \in Purses |->
       IF p \in Contracts THEN Strays[p]
       ELSE IF p \in Accounts THEN EtherFunds[p]
       ELSE IF p = Weth THEN MapThenSumSet(LAMBDA a : Funds[a], Accounts)
       ELSE IF p = PoolManager THEN PoolDepth * MapThenSumSet(LAMBDA r : r, Rates) ELSE 0]
  /\ token = [a \in Accounts |-> TokenFunds[a]]
  /\ stray = Strays
  /\ cost = [a \in Accounts |-> 0]

-----------------------------------------------------------------------------
(* The ether of one call                                                   *)

Send(l, from, to, amount) == [l EXCEPT ![from] = @ - amount, ![to] = @ + amount]

\* Faulty variant: what is above the fee stays with the seller's account.
RequestedWithoutChange(l, seller, value, fee) ==
  Send(Send(l, Market, seller, value), seller, Predeploy, fee)

\* requestConsolidation runs in the seller's account and returns what it does not need.
Requested(l, seller, value, fee) ==
  Send(Send(Send(l, Market, seller, value), seller, Predeploy, fee), seller, Market, value - fee)

\* Faulty variant: everything attached is wrapped.
FilledWrappingAll(l, seller, caller, value, wrapped, fee) ==
  LET paid  == Send(l, caller, Market, value)
      given == Send(paid, Market, Weth, IF wrapped = 0 THEN 0 ELSE value - fee)
  IN Requested(given, seller, fee, fee)

\* _fill called with `value`, of which `wrapped` becomes the market's WETH.
Filled(l, seller, caller, value, wrapped, fee) ==
  LET paid   == Send(l, caller, Market, value)
      held   == Send(paid, Market, Weth, wrapped)
      before == held[Market] - (value - wrapped)
      after  == Requested(held, seller, value - wrapped, fee)
  IN Send(after, Market, caller, after[Market] - before)

\* An account that refuses ether reverts the call that sends it any.
Takes(a, amount) == amount > 0 => a \notin Rejecting

\* Faulty variant: the payment is taken from the market's own ether.
CoversFeeOnly(value, wrapped, fee) == value >= fee

\* The attached ether covers the payment and the fee.
Covers(value, wrapped, fee) == value >= wrapped + fee

Charge(a, amount) == cost' = [cost EXCEPT ![a] = @ + amount]

-----------------------------------------------------------------------------
(* Purchases                                                               *)

\* The payment of the trade the action opens.
NewPayment == trades'[nextTradeId].payment

BuyWithWeth(o, target, state, buyer, payer, value) ==
  /\ eth[payer] >= value
  /\ Fill(o, target, state, buyer, payer)
  /\ \E fee \in Fees :
       /\ Covers(value, 0, fee) /\ Takes(payer, value - fee)
       /\ eth' = Filled(eth, o.seller, payer, value, 0, fee)
       /\ Charge(payer, NewPayment + fee)
  /\ UNCHANGED <<bidVars, token, stray>>

BuyWithEth(o, target, state, buyer, payer, value) ==
  /\ eth[payer] >= value
  /\ FillWithEth(o, target, state, buyer)
  /\ \E fee \in Fees :
       /\ Covers(value, NewPayment, fee)
       /\ Takes(payer, value - NewPayment - fee)
       /\ eth' = Filled(eth, o.seller, payer, value, NewPayment, fee)
       /\ Charge(payer, NewPayment + fee)
  /\ UNCHANGED <<bidVars, token, stray>>

\* beforeSwap: the canonical pool gives `rate` for each token, or cannot take them
\* all (PartialFill); the hook wraps the payment, fills, and gives the buyer all it has.
BuyWithToken(o, target, state, buyer, swapper, amountIn) ==
  /\ buyer \notin Rejecting
  /\ amountIn \in 1..PoolDepth /\ token[swapper] >= amountIn
  /\ FillWithEth(o, target, state, buyer)
  /\ \E rate \in Rates, fee \in Fees :
       LET ethOut == amountIn * rate
           taken  == Send(eth, PoolManager, Hook, ethOut)
           value  == ethOut - NewPayment
           filled == Filled(Send(taken, Hook, Weth, NewPayment), o.seller, Hook, value, 0, fee)
       IN /\ ethOut > NewPayment
          /\ Covers(value, 0, fee)
          /\ eth' = Send(filled, Hook, buyer, filled[Hook])
          /\ token' = [token EXCEPT ![swapper] = @ - amountIn]
          /\ Charge(buyer, NewPayment + fee - ethOut - stray[Hook])
  /\ stray' = [stray EXCEPT ![Hook] = 0]
  /\ UNCHANGED bidVars

\* Faulty variant: the app keeps what the market sends back.
KeptByApp(l, caller, ethBefore) == l

ReturnedByApp(l, caller, ethBefore) == Send(l, BidApp, caller, l[BidApp] - ethBefore)

BuyForBid(b, o, state, caller, value) ==
  /\ eth[caller] >= value
  /\ MatchBid(b, o, state)
  /\ \E fee \in Fees :
       LET sent   == Send(eth, caller, BidApp, value)
           filled == Filled(sent, o.seller, BidApp, value, 0, fee)
       IN /\ Covers(value, 0, fee) /\ Takes(caller, value - fee)
          /\ eth' = ReturnedByApp(filled, caller, sent[BidApp] - value)
          /\ cost' = [[cost EXCEPT ![b.maker] = @ + NewPayment] EXCEPT ![caller] = @ + fee]
  /\ UNCHANGED <<token, stray>>

-----------------------------------------------------------------------------
BuyNext ==
  \E o \in Orders, state \in roots, payer \in Payers :
    \/ \E target \in Targets, buyer \in Buyers :
         \/ \E value \in Values : BuyWithWeth(o, target, state, buyer, payer, value)
         \/ \E value \in Values : BuyWithEth(o, target, state, buyer, payer, value)
         \/ \E amountIn \in Inputs : BuyWithToken(o, target, state, buyer, payer, amountIn)
    \/ \E b \in Bids, value \in Values : BuyForBid(b, o, state, payer, value)

\* Steps that carry no ether.  The offers here are signed: nobody lists or cancels.
OtherNext ==
  /\ \/ FillsLeft /\ UNCHANGED bidVars /\ \E seller \in Sellers : SetDelegation(seller)
     \/ (SettleNext \/ BeaconNext) /\ UNCHANGED bidVars
     \/ \E s \in Shipments : FillsLeft /\ (Ship(s) \/ Dock(s))
  /\ UNCHANGED purchaseVars

PurchasesNext ==
  \/ BuyNext
  \/ OtherNext

PurchasesSpec == PurchasesInit /\ [][PurchasesNext]_marketVars

-----------------------------------------------------------------------------
(***************************************************************************)
(* No purchase leaves ether behind: the market, the hook and the bid app   *)
(* hold only what was sent to them outside purchases, although a purchase  *)
(* passes through up to three of them, a caller may refuse its change, and *)
(* each tells its change apart from strays by its own balance only.        *)
(***************************************************************************)
EtherNeverStuck == \A c \in Contracts : eth[c] = stray[c]

(***************************************************************************)
(* The WETH of the payments is backed, by whichever of the market and the  *)
(* hook wrapped it.                                                        *)
(***************************************************************************)
WethBacked == eth[Weth] = MapThenSumSet(LAMBDA a : weth[a], Holders)

(***************************************************************************)
(* A purchase costs what it says: ether and WETH together, every account   *)
(* is down by the payments and fees of its purchases, whatever it attached *)
(* or swapped, and up by the payouts of the trades it sold or was refunded.*)
(***************************************************************************)
PurchasesCostPriceAndFee ==
  \A a \in Accounts \ {Hook, BidApp} :
    eth[a] + weth[a] + cost[a] = EtherFunds[a] + Funds[a]
      + PaymentsOf({id \in WithStatus({"Delivered"}) : trades[id].seller = a})
      + PaymentsOf({id \in WithStatus({"Failed"}) : trades[id].buyer = a})
=============================================================================
