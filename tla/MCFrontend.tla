----------------------------- MODULE MCFrontend -----------------------------
(***************************************************************************)
(* Bob and dave shop at once; alice sells s1 relative to an LST, and s2 is  *)
(* sold at a fixed price, by bob through the pages or by carol without.    *)
(***************************************************************************)
EXTENDS Frontend, MCStakeMarket

CONSTANTS hook

FrontAccounts == MCAccounts \cup {hook}
FrontOwner ==
  [v \in Validators |-> IF v = s1 THEN alice ELSE IF v = u1 THEN dave ELSE bob]
RivalOwner == [FrontOwner EXCEPT ![s2] = carol]
FrontFunds == [a \in Accounts |-> 0]
FrontEther == [a \in Accounts |-> IF a \in {bob, dave} THEN 40 ELSE 0]
FrontToken == [a \in Accounts |-> IF a = dave THEN 10 ELSE 0]
NoStrays == [c \in Contracts |-> 0]

Visits == [u \in {bob, dave} |->
  IF u = dave THEN {"match", "demo"}
  ELSE {"buy", "sell", "ship", "dock", "trade", "portfolio"}]
BothBuy == [u \in {bob, dave} |-> {"buy"}]

Ask == [AliceOffer(1) EXCEPT !.priceMode = "LstRelative", !.price = 1, !.expiry = 3]
Asks == {Ask, Offer(bob, s2, s2, 1, 5)}
RivalAsks == {Ask, Offer(carol, s2, s2, 1, 5)}

BobsBid ==
  [maker |-> bob, target |-> t1, maxPrice |-> 9, minStake |-> 64, maxStake |-> 64, pricing |-> NoBid]
OneBid == {BobsBid}
OneShipment == {[shipper |-> bob, bid |-> BobsBid, budget |-> 9]}
=============================================================================
