--------------------------- MODULE VerifiedMarket ---------------------------
(***************************************************************************)
(* The Verified Market: how a buyer gets an attestation for a listing with *)
(* an eligibility policy (components/WorldGate.tsx, lib/world.ts, the      *)
(* route api/world/verify), over the market that enforces it.  A person    *)
(* proves in World App what a listing asks for, with the page's account as *)
(* the signal of the proof; the server checks the proof, has the World     *)
(* Developer Portal verify it, and signs; the page records the attestation *)
(* and anyone may record it again.  Wallets switch accounts while a proof  *)
(* is under way.  World App and the portal are external.                   *)
(***************************************************************************)
EXTENDS StakeMarket

CONSTANTS
  Persons,     \* World ID holders; also their nullifiers, one for each action
  Wallets,     \* [Persons -> SUBSET Accounts]: the accounts a person may use
  Documents,   \* the persons with a passport or My Number Card credential
  Countries, IssuedBy, \* [Documents -> Countries]
  Sanctioned,  \* SANCTIONED_COUNTRIES
  Ttl,         \* ELIGIBILITY_TTL_SECONDS
  MaxIssued    \* bound on the attestations signed

ASSUME VerifiedMarketConstants ==
  /\ Nullifiers = Persons /\ Wallets \in [Persons -> SUBSET Accounts]
  /\ Documents \subseteq Persons /\ IssuedBy \in [Documents -> Countries]
  /\ Sanctioned \subseteq Countries
  /\ Registries = {"document", "identity"}
  /\ Ttl \in Nat \ {0} /\ MaxIssued \in Nat

VARIABLES
  gate,     \* [Persons -> the person's page of a verified listing]
  issued,   \* attestations the server has signed
  recorded  \* history: the attestations the contract has accepted

gateVars == <<gate, issued, recorded>>
verifiedVars == <<vars, gateVars>>

\* `eligible` is what the page has read; `request` is what the widget asks World App,
\* `post` what the page sends to the server, `answer` the attestation it got.
Away == [step |-> "away"]

VerifiedInit ==
  /\ Init
  /\ gate = [p \in Persons |-> Away]
  /\ issued = {} /\ recorded = {}

-----------------------------------------------------------------------------
(* The gate                                                                *)

Idle(a, registry, eligible) ==
  [step |-> "idle", account |-> a, registry |-> registry, eligible |-> eligible]

\* refresh() of a page that shows account `a`
Shown(a, registry) == Idle(a, registry, Policy!IsEligible(registry, a))

\* Opening a verified listing; the sheet of its World ID widget is closed.
Visit(p, o, a) ==
  /\ gate[p].step \in {"away", "idle"}
  /\ o \in listed /\ policyOf[o] # "none" /\ a \in Wallets[p]
  /\ gate' = [gate EXCEPT ![p] = Shown(a, policyOf[o])]
  /\ UNCHANGED <<vars, issued, recorded>>

\* The wallet changes its account; a widget that is open keeps its request.
SwitchAccount(p, a) ==
  /\ gate[p].step = "open" /\ a \in Wallets[p]
  /\ gate' = [gate EXCEPT ![p].account = a]
  /\ UNCHANGED <<vars, issued, recorded>>

\* The button of the gate is there as long as the account is not eligible.
Start(p, country) ==
  LET g == gate[p]
  IN /\ g.step = "idle" /\ ~g.eligible
     /\ country \in IF g.registry = "identity" THEN Countries ELSE {"none"}
     /\ gate' = [gate EXCEPT ![p] =
          [step |-> "open", account |-> g.account, registry |-> g.registry,
           request |-> [signal |-> g.account, country |-> country]]]
     /\ UNCHANGED <<vars, issued, recorded>>

\* World App proves possession of a document for the request, and that its issuing
\* country is the one the request states; the page posts it with its own account.
\* (It posts the country selected by then: the widget lies over the choice of it.)
Prove(p) ==
  LET g == gate[p]
  IN /\ g.step = "open" /\ p \in Documents
     /\ g.registry = "identity" => g.request.country = IssuedBy[p]
     /\ gate' = [gate EXCEPT ![p] =
          [step |-> "posted", account |-> g.account, registry |-> g.registry,
           post |-> [account |-> g.account, signal |-> g.request.signal,
                     country |-> g.request.country]]]
     /\ UNCHANGED <<vars, issued, recorded>>

\* The widget is closed, World App refuses, the server rejects the proof, or the
\* attestation is not recorded: the page shows an error and its button again.
GiveUp(p) ==
  LET g == gate[p]
  IN /\ g.step \in {"open", "posted", "signed"}
     /\ gate' = [gate EXCEPT ![p] = Idle(g.account, g.registry, FALSE)]
     /\ UNCHANGED <<vars, issued, recorded>>

-----------------------------------------------------------------------------
(* The server                                                              *)

\* Faulty variants: the proof is taken for any account; only the page keeps
\* sanctioned jurisdictions out.
AnySignal(post) == TRUE
AnyCountry(post) == TRUE

SignalIsAccount(post) == post.signal = post.account
JurisdictionAccepted(post) == post.country \notin Sanctioned

\* The attestation is signed for the registry of the proof's kind, on the chain's time.
\* `signal` is history: the account that was approved in World App.
Attestation(p, registry, post) ==
  [registry |-> registry, account |-> post.account, nullifier |-> p,
   credential |-> RequiredCredential[registry], expiresAt |-> now + Ttl,
   signal |-> post.signal]

\* The portal may accept what the route has let through.
Verify(p) ==
  LET g == gate[p]
      a == Attestation(p, g.registry, g.post)
  IN /\ g.step = "posted" /\ Cardinality(issued \cup {a}) <= MaxIssued
     /\ JurisdictionAccepted(g.post)
     /\ SignalIsAccount(g.post)
     /\ issued' = issued \cup {a}
     /\ gate' = [gate EXCEPT ![p] =
          [step |-> "signed", account |-> g.account, registry |-> g.registry, answer |-> a]]
     /\ UNCHANGED <<vars, recorded>>

-----------------------------------------------------------------------------
(* Recording an attestation                                                *)

Record(a) ==
  /\ Attest(a)
  /\ recorded' = recorded \cup {a}
  /\ UNCHANGED issued

RecordAnswer(p) ==
  LET g == gate[p]
  IN /\ g.step = "signed"
     /\ Record(g.answer)
     /\ gate' = [gate EXCEPT ![p] =
          Idle(g.account, g.registry, eligibleUntil'[g.registry][g.account] > now)]

\* Also a page's transaction that is mined after the page has given up.
RecordLater(a) == Record(a) /\ UNCHANGED gate

PersonNext(p) ==
  \/ \E o \in Orders, a \in Wallets[p] : Visit(p, o, a)
  \/ \E a \in Wallets[p] : SwitchAccount(p, a)
  \/ \E country \in Countries \cup {"none"} : Start(p, country)
  \/ Prove(p) \/ Verify(p) \/ RecordAnswer(p) \/ GiveUp(p)

\* Sellers list with a policy; what they may do besides is in StakeMarket.
PolicyNext ==
  \E o \in Orders :
    \/ \E policy \in Registries : policy # policyOf[o] /\ ListOrderWithPolicy(o, policy)
    \/ o.seller \notin delegated /\ SetDelegation(o.seller)

\* Nothing reads what is verified after the last fill of the bounded model.
VerifiedNext ==
  \/ FillsLeft /\ \E p \in Persons : PersonNext(p)
  \/ FillsLeft /\ \E a \in issued : RecordLater(a)
  \/ ((FillsLeft /\ PolicyNext) \/ FillNext \/ BeaconNext) /\ UNCHANGED gateVars

VerifiedSpec == VerifiedInit /\ [][VerifiedNext]_verifiedVars

-----------------------------------------------------------------------------
(***************************************************************************)
(* Whoever buys in the Verified Market has asked for it: an account is     *)
(* eligible only if a person with a document has approved, in World App, a *)
(* proof for this very account and this kind of listing, although the      *)
(* wallet may switch accounts between the request and the answer.          *)
(***************************************************************************)
EligibleByConsent ==
  \A r \in Registries, a \in Accounts : Policy!IsEligible(r, a) =>
    \E x \in recorded : x.registry = r /\ x.account = a /\ x.signal = a

(***************************************************************************)
(* "The backend rejects sanctioned jurisdictions" (lib/world.ts): behind   *)
(* an account eligible for an Identity Check listing there is a document   *)
(* of an accepted jurisdiction, whatever country its holder states.        *)
(***************************************************************************)
SanctionedKeptOut ==
  \A a \in Accounts : Policy!IsEligible("identity", a) =>
    \E x \in recorded :
      x.registry = "identity" /\ x.account = a /\ IssuedBy[x.nullifier] \notin Sanctioned

(***************************************************************************)
(* "One account per document" (WorldGate.tsx): the contract never accepts  *)
(* a document for two accounts, although the holder may prove it again for *)
(* another account and record what was signed in any order.                *)
(***************************************************************************)
DocumentServesOneAccount ==
  \A a, b \in recorded :
    a.registry = b.registry /\ a.nullifier = b.nullifier => a.account = b.account

(***************************************************************************)
(* An older attestation recorded after a newer one shortens an eligibility *)
(* (attest overwrites the expiry), but never for good: whatever others     *)
(* have recorded in between, an attestation that was recorded stays        *)
(* recordable until it expires, so the account can set the later expiry    *)
(* again.                                                                  *)
(***************************************************************************)
OverwrittenExpiryRestorable ==
  \A a \in recorded : a.expiresAt > now =>
    Policy!NullifierFree(a)
=============================================================================
