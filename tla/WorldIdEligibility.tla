------------------------- MODULE WorldIdEligibility -------------------------
(***************************************************************************)
(* contracts/src/world/WorldIdEligibility.sol: the registry of buyers the  *)
(* World ID attester vouches for.  Anyone may submit an attestation the    *)
(* attester signed, at any time and in any order; a nullifier (one per     *)
(* document) is bound to the first account it is submitted for.  The       *)
(* contract is deployed once per credential: a registry of the document    *)
(* policy and one of the Identity Check policy, each with its own state.   *)
(* An attestation is signed for one registry (its EIP-712 domain).         *)
(***************************************************************************)
EXTENDS Integers

CONSTANTS
  Accounts,
  Nullifiers,
  Registries,    \* the deployed instances
  RequiredCredential, \* [Registries -> credential]
  NoAccount      \* the zero address

VARIABLES
  now,
  eligibleUntil,
  accountOfNullifier

EligibilityInit ==
  /\ eligibleUntil = [r \in Registries |-> [a \in Accounts |-> 0]]
  /\ accountOfNullifier = [r \in Registries |-> [n \in Nullifiers |-> NoAccount]]

\* Faulty variant: a nullifier is not bound to the account it was used for.
NullifierUnchecked(a) == TRUE

\* Faulty variant: a nullifier serves a single attestation.
NullifierSpent(a) == accountOfNullifier[a.registry][a.nullifier] = NoAccount

NullifierFree(a) == accountOfNullifier[a.registry][a.nullifier] \in {NoAccount, a.account}

Attest(a) ==
  /\ a.credential = RequiredCredential[a.registry]
  /\ a.expiresAt > now
  /\ NullifierFree(a)
  /\ accountOfNullifier' = [accountOfNullifier EXCEPT ![a.registry][a.nullifier] = a.account]
  /\ eligibleUntil' = [eligibleUntil EXCEPT ![a.registry][a.account] = a.expiresAt]

IsEligible(registry, buyer) == eligibleUntil[registry][buyer] > now

EligibilityTypeOK ==
  /\ eligibleUntil \in [Registries -> [Accounts -> Nat]]
  /\ accountOfNullifier \in [Registries -> [Nullifiers -> Accounts \cup {NoAccount}]]
=============================================================================
