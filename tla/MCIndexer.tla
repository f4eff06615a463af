----------------------------- MODULE MCIndexer -----------------------------
(***************************************************************************)
(* Small instances of Indexer for TLC: two sellers use the same nonce.     *)
(***************************************************************************)
EXTENDS Indexer

CONSTANTS alice, carol

OrderOf(seller, price) == [seller |-> seller, nonce |-> 1, price |-> price]
TwoOrders == {OrderOf(alice, 1), OrderOf(carol, 1)}
============================================================================
