---------------------------- MODULE MCPurchases ----------------------------
(***************************************************************************)
(* Bob bids for stake twice out of one wallet that covers only one match,  *)
(* and dave ships a strategy in bob's name; dave and a contract that takes *)
(* no ether buy directly.  A stake of 64 units at price p per              *)
(* PriceUnit = 64 units costs p.                                           *)
(***************************************************************************)
EXTENDS Purchases, MCStakeMarket

CONSTANTS
  hook,
  safe  \* a contract without a receive function

PurchaseAccounts == MCAccounts \cup {hook, safe}

Bid(target, maxPrice, pricing) ==
  [maker |-> bob, target |-> target, maxPrice |-> maxPrice, minStake |-> 64, maxStake |-> 64,
   pricing |-> pricing]

StandingBid == Bid(t1, 9, NoBid)
\* offers 2 at slot 2, 6 at slot 3, 10 at slot 4 (above its cap), and is then over
DutchBid == Bid(t1, 8, [start |-> 2, raise |-> 4, from |-> 2, duration |-> 2])

MCBids == {StandingBid, DutchBid}
MCShipments ==
  {[shipper |-> bob, bid |-> StandingBid, budget |-> 9],
   [shipper |-> bob, bid |-> DutchBid, budget |-> 20],
   [shipper |-> dave, bid |-> StandingBid, budget |-> 20]}

BidFunds == [a \in Accounts |-> IF a = bob THEN 12 ELSE IF a = dave THEN 5 ELSE 0]
MCEther == [a \in Accounts |-> IF a = dave THEN 14 ELSE IF a = safe THEN 11 ELSE 0]
MCStrays == [c \in Contracts |-> 1]
MCToken == [a \in Accounts |-> IF a = safe THEN 5 ELSE 0]

\* 9 or 18 with reference prices 10 and 20
LstAsk == [AliceOffer(2) EXCEPT !.priceMode = "LstRelative", !.price = 1]
\* carol's stake, and an offer with the index and the pubkey of different validators
Asks == {LstAsk, Offer(carol, s2, s2, 1, 5), Offer(alice, s1, t1, 2, 5)}
============================================================================
