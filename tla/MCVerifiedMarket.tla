-------------------------- MODULE MCVerifiedMarket --------------------------
(***************************************************************************)
(* Pia and pat share dave's account; pat's document is from a sanctioned   *)
(* country.                                                                *)
(***************************************************************************)
EXTENDS VerifiedMarket, MCStakeMarket

CONSTANTS pia, pat, jpn, irn

MCWallets == [p \in Persons |-> IF p = pia THEN {bob, dave} ELSE {dave}]
MCIssuedBy == [p \in Documents |-> IF p = pia THEN jpn ELSE irn]
MCAttestations ==
  [registry : Registries, account : {bob, dave}, nullifier : Persons,
   credential : Registries, expiresAt : (StartSlot + Ttl)..(MaxSlot + Ttl), signal : {bob, dave}]
=============================================================================
