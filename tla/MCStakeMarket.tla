--------------------------- MODULE MCStakeMarket ---------------------------
(***************************************************************************)
(* Small instances of StakeMarket for TLC.  Balances are counted in half   *)
(* ETH, so that dust below 1 ETH and surplus above the effective balance   *)
(* both exist: MaxDust = Increment = 2.                                    *)
(***************************************************************************)
EXTENDS StakeMarket

CONSTANTS
  s1, s2,       \* sources
  t1,           \* the buyer's compounding validator
  u1,           \* a compounding validator of alice's own
  alice, carol, \* sellers
  bob, dave,    \* buyers
  app           \* a contract that pays for a buyer

MCAccounts == {alice, carol, bob, dave, app}
MCOwner ==
  [v \in Validators |-> IF v = t1 THEN bob ELSE IF v = s2 THEN carol ELSE alice]
MCCredsPrefix == [v \in Validators |-> IF v = s1 THEN 1 ELSE 2]
MCActivation == [v \in Validators |-> 0]
\* s1 holds 32 ETH and 1.5 ETH above it, which only the sweep takes away
MCBalance == [v \in Validators |-> IF v = s1 THEN 67 ELSE 64]
MCFunds == [a \in Accounts |-> IF a = app THEN 20 ELSE 0]

Offer(seller, index, pubkey, nonce, price) ==
  [seller |-> seller, sourcePubkey |-> pubkey, sourceIndex |-> index, priceMode |-> "Fixed",
   price |-> price, minPayment |-> 0, expiry |-> 5, nonce |-> nonce]

AliceOffer(nonce) == Offer(alice, s1, s1, nonce, 6 + nonce)
LstOffer ==
  [AliceOffer(1) EXCEPT !.priceMode = "LstRelative", !.price = 1, !.minPayment = 10]

OneOffer      == {AliceOffer(1)}
ThreeOffers   == {AliceOffer(1), AliceOffer(2), Offer(carol, s2, s2, 1, 5)}
\* index and pubkey of different validators, and pricing relative to an LST
OddOffers     == {Offer(alice, s1, u1, 2, 7), LstOffer}

FrontRun == {<<s1, u1>>}

MCRequired == [r \in Registries |-> r]
============================================================================
