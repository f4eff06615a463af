----------------------------- MODULE MCRelayer -----------------------------
(***************************************************************************)
(* The instances of MCStakeMarket with the relayer beside the market.      *)
(***************************************************************************)
EXTENDS Relayer, MCStakeMarket
============================================================================
