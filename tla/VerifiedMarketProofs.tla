------------------------ MODULE VerifiedMarketProofs ------------------------
(***************************************************************************)
(* Theorems about the Verified Market: who becomes eligible, by whose      *)
(* consent and with which document, in every order of pages, signatures    *)
(* and recorded attestations.                                              *)
(***************************************************************************)
EXTENDS VerifiedMarket, StakeMarketProofs

(***************************************************************************)
(* Types                                                                   *)
(***************************************************************************)
Answer ==
  [registry : Registries, account : Accounts, nullifier : Persons,
   credential : {RequiredCredential[r] : r \in Registries}, expiresAt : Nat, signal : Accounts]

Stated == Countries \cup {"none"}

IdlePage   == [step : {"idle"}, account : Accounts, registry : Registries, eligible : BOOLEAN]
OpenPage   == [step : {"open"}, account : Accounts, registry : Registries,
               request : [signal : Accounts, country : Stated]]
PostedPage == [step : {"posted"}, account : Accounts, registry : Registries,
               post : [account : Accounts, signal : Accounts, country : Stated]]
SignedPage == [step : {"signed"}, account : Accounts, registry : Registries, answer : Answer]

Page == {Away} \cup IdlePage \cup OpenPage \cup PostedPage \cup SignedPage

VerifiedTypeOK ==
  /\ TypeOK
  /\ gate \in [Persons -> Page]
  /\ issued \subseteq Answer

(***************************************************************************)
(* The invariant                                                           *)
(***************************************************************************)

\* What the server signs was approved for the account, and, for an Identity
\* Check, comes from an accepted jurisdiction.
IssuedSound ==
  \A x \in issued :
    /\ x.signal = x.account
    /\ x.registry = "identity" => IssuedBy[x.nullifier] \notin Sanctioned

\* World App vouches for the country of an Identity Check proof.
PostsSound ==
  \A p \in Persons :
    gate[p].step = "posted" /\ gate[p].registry = "identity" =>
      gate[p].post.country = IssuedBy[p]

AnswersIssued == \A p \in Persons : gate[p].step = "signed" => gate[p].answer \in issued

\* Every eligibility was recorded, and what was recorded stays bound.
EligibleRecorded ==
  \A r \in Registries, a \in Accounts : eligibleUntil[r][a] > 0 =>
    \E x \in recorded : x.registry = r /\ x.account = a

RecordedBound ==
  \A x \in recorded : accountOfNullifier[x.registry][x.nullifier] = x.account

VerifiedInv ==
  /\ VerifiedTypeOK
  /\ recorded \subseteq issued
  /\ IssuedSound /\ PostsSound /\ AnswersIssued
  /\ EligibleRecorded /\ RecordedBound

LEMMA VerifiedInitHolds == VerifiedInit => VerifiedInv
  <1> SUFFICES ASSUME VerifiedInit PROVE VerifiedInv
    OBVIOUS
  <1>1. TypeOK
    BY InitType DEF VerifiedInit
  <1>2. gate \in [Persons -> Page] /\ \A p \in Persons : gate[p].step = "away"
    BY DEF VerifiedInit, Page, Away
  <1>3. EligibleRecorded
    BY DEF VerifiedInit, Init, Policy!EligibilityInit, EligibleRecorded
  <1> QED
    BY <1>1, <1>2, <1>3 DEF VerifiedInit, VerifiedInv, VerifiedTypeOK, IssuedSound, PostsSound,
       AnswersIssued, RecordedBound

(***************************************************************************)
(* The steps                                                               *)
(***************************************************************************)

\* Steps of a page that neither sign nor record anything.
PageMoves(p) ==
  /\ UNCHANGED <<vars, issued, recorded>>
  /\ \E page \in Page :
       /\ gate' = [gate EXCEPT ![p] = page]
       /\ page.step # "signed"
       /\ page.step = "posted" /\ page.registry = "identity" => page.post.country = IssuedBy[p]

LEMMA PagesByStep ==
  ASSUME NEW page \in Page
  PROVE  /\ page.step # "away" => page.account \in Accounts /\ page.registry \in Registries
         /\ page.step = "idle" => page \in IdlePage
         /\ page.step = "open" => page \in OpenPage
         /\ page.step = "posted" => page \in PostedPage
         /\ page.step = "signed" => page \in SignedPage
  BY DEF Page, Away, IdlePage, OpenPage, PostedPage, SignedPage

LEMMA IdleIsPage ==
  ASSUME NEW a \in Accounts, NEW r \in Registries, NEW e \in BOOLEAN
  PROVE  Idle(a, r, e) \in Page /\ Idle(a, r, e).step = "idle"
  BY DEF Idle, Page, IdlePage

LEMMA VisitMoves ==
  ASSUME VerifiedInv, NEW p \in Persons, NEW o \in Orders, NEW a \in Wallets[p], Visit(p, o, a)
  PROVE  PageMoves(p)
  <1>1. a \in Accounts
    BY VerifiedMarketConstants
  <1>2. policyOf[o] \in Registries
    BY DEF Visit, VerifiedInv, VerifiedTypeOK, TypeOK, Registries
  <1>3. Shown(a, policyOf[o]) \in Page /\ Shown(a, policyOf[o]).step = "idle"
    <2>1. Policy!IsEligible(policyOf[o], a) \in BOOLEAN
      BY DEF Policy!IsEligible
    <2> QED
      BY <1>1, <1>2, <2>1, IdleIsPage DEF Shown
  <1> QED
    BY <1>3 DEF Visit, PageMoves

LEMMA SwitchMoves ==
  ASSUME VerifiedInv, NEW p \in Persons, NEW a \in Wallets[p], SwitchAccount(p, a)
  PROVE  PageMoves(p)
  <1>1. a \in Accounts
    BY VerifiedMarketConstants
  <1>2. gate[p] \in OpenPage
    BY PagesByStep DEF SwitchAccount, VerifiedInv, VerifiedTypeOK
  <1> DEFINE page == [gate[p] EXCEPT !.account = a]
  <1>3. page \in Page /\ page.step = "open"
    BY <1>1, <1>2 DEF OpenPage, Page
  <1>4. gate' = [gate EXCEPT ![p] = page]
    BY DEF SwitchAccount, VerifiedInv, VerifiedTypeOK
  <1> QED
    BY <1>3, <1>4 DEF SwitchAccount, PageMoves

LEMMA StartMoves ==
  ASSUME VerifiedInv, NEW p \in Persons, NEW country \in Countries \cup {"none"},
         Start(p, country)
  PROVE  PageMoves(p)
  <1>1. gate[p].account \in Accounts /\ gate[p].registry \in Registries
    BY PagesByStep DEF Start, VerifiedInv, VerifiedTypeOK
  <1> DEFINE page == [step |-> "open", account |-> gate[p].account,
                      registry |-> gate[p].registry,
                      request |-> [signal |-> gate[p].account, country |-> country]]
  <1>2. page \in Page /\ page.step = "open"
    BY <1>1 DEF OpenPage, Page, Stated
  <1>3. gate' = [gate EXCEPT ![p] = page]
    BY DEF Start
  <1> QED
    BY <1>2, <1>3 DEF Start, PageMoves

LEMMA ProveMoves ==
  ASSUME VerifiedInv, NEW p \in Persons, Prove(p)
  PROVE  PageMoves(p)
  <1>1. gate[p] \in OpenPage
    BY PagesByStep DEF Prove, VerifiedInv, VerifiedTypeOK
  <1> DEFINE g == gate[p]
             page == [step |-> "posted", account |-> g.account, registry |-> g.registry,
                      post |-> [account |-> g.account, signal |-> g.request.signal,
                                country |-> g.request.country]]
  <1>2. page \in PostedPage
    BY <1>1 DEF OpenPage, PostedPage
  <1>3. page \in Page /\ page.step = "posted"
    BY <1>2 DEF Page
  <1>4. gate' = [gate EXCEPT ![p] = page]
    BY DEF Prove
  <1>5. page.registry = "identity" => page.post.country = IssuedBy[p]
    BY DEF Prove
  <1> QED
    BY <1>3, <1>4, <1>5 DEF Prove, PageMoves

LEMMA GiveUpMoves ==
  ASSUME VerifiedInv, NEW p \in Persons, GiveUp(p)
  PROVE  PageMoves(p)
  <1>1. gate[p].account \in Accounts /\ gate[p].registry \in Registries
    BY PagesByStep DEF GiveUp, VerifiedInv, VerifiedTypeOK
  <1> QED
    BY <1>1, IdleIsPage DEF GiveUp, PageMoves

LEMMA PageKeepsInv ==
  ASSUME VerifiedInv, NEW p \in Persons, PageMoves(p)
  PROVE  VerifiedInv'
  <1>1. PICK page \in Page :
          /\ gate' = [gate EXCEPT ![p] = page]
          /\ page.step # "signed"
          /\ page.step = "posted" /\ page.registry = "identity" =>
               page.post.country = IssuedBy[p]
    BY DEF PageMoves
  <1>2. gate \in [Persons -> Page] /\ issued' = issued /\ recorded' = recorded
    BY DEF VerifiedInv, VerifiedTypeOK, PageMoves
  <1>3. /\ gate' \in [Persons -> Page] /\ gate'[p] = page
        /\ \A q \in Persons : q # p => gate'[q] = gate[q]
    BY <1>1, <1>2
  <1>4. TypeOK'
    BY StepType DEF VerifiedInv, VerifiedTypeOK, PageMoves
  <1>5. /\ eligibleUntil' = eligibleUntil /\ accountOfNullifier' = accountOfNullifier
    BY DEF PageMoves, vars, eligibilityVars
  <1>6. PostsSound' /\ AnswersIssued'
    BY <1>1, <1>2, <1>3 DEF VerifiedInv, PostsSound, AnswersIssued
  <1> QED
    BY <1>2, <1>3, <1>4, <1>5, <1>6
       DEF VerifiedInv, VerifiedTypeOK, IssuedSound, EligibleRecorded, RecordedBound

\* The server signs for the account that was approved, and keeps sanctioned
\* jurisdictions out.
LEMMA VerifyKeepsInv ==
  ASSUME VerifiedInv, NEW p \in Persons, Verify(p)
  PROVE  VerifiedInv'
  <1> DEFINE g == gate[p]
             a == Attestation(p, g.registry, g.post)
             page == [step |-> "signed", account |-> g.account, registry |-> g.registry,
                      answer |-> a]
  <1>1. g \in PostedPage
    BY PagesByStep DEF Verify, VerifiedInv, VerifiedTypeOK
  <1>2. /\ g.account \in Accounts /\ g.registry \in Registries
        /\ g.post.account \in Accounts /\ g.post.signal \in Accounts
    BY <1>1 DEF PostedPage
  <1>3. now + Ttl \in Nat
    BY NowEpochNat, VerifiedMarketConstants DEF VerifiedInv, VerifiedTypeOK, TypeOK
  <1>4. a \in Answer
    BY <1>2, <1>3 DEF Attestation, Answer
  <1>5. page \in Page
    BY <1>2, <1>4 DEF Page, SignedPage
  <1>6. /\ issued' = issued \cup {a} /\ gate' = [gate EXCEPT ![p] = page]
        /\ recorded' = recorded /\ UNCHANGED vars
        /\ g.post.country \notin Sanctioned /\ g.post.signal = g.post.account
        /\ g.step = "posted"
    BY DEF Verify, JurisdictionAccepted, SignalIsAccount
  <1>7. /\ a.signal = a.account /\ a.registry = g.registry /\ a.nullifier = p
    BY <1>6 DEF Attestation
  <1>8. a.registry = "identity" => IssuedBy[a.nullifier] \notin Sanctioned
    BY <1>6, <1>7 DEF VerifiedInv, PostsSound
  <1> HIDE DEF a
  <1>9. gate \in [Persons -> Page]
    BY DEF VerifiedInv, VerifiedTypeOK
  <1>10. /\ gate' \in [Persons -> Page]
         /\ gate'[p].step = "signed" /\ gate'[p].answer = a
         /\ \A q \in Persons : q # p => gate'[q] = gate[q]
    BY <1>5, <1>6, <1>9
  <1>11. TypeOK'
    BY <1>6, StepType DEF VerifiedInv, VerifiedTypeOK
  <1>12. eligibleUntil' = eligibleUntil /\ accountOfNullifier' = accountOfNullifier
    BY <1>6 DEF vars, eligibilityVars
  <1>13. PostsSound' /\ AnswersIssued'
    BY <1>6, <1>10 DEF VerifiedInv, PostsSound, AnswersIssued
  <1>14. IssuedSound'
    BY <1>6, <1>7, <1>8 DEF VerifiedInv, IssuedSound
  <1> QED
    BY <1>4, <1>6, <1>10, <1>11, <1>12, <1>13, <1>14
       DEF VerifiedInv, VerifiedTypeOK, EligibleRecorded, RecordedBound

(***************************************************************************)
(* Recording                                                               *)
(***************************************************************************)
LEMMA AttestEffect ==
  ASSUME VerifiedInv, NEW a \in Answer, Attest(a)
  PROVE  /\ TypeOK'
         /\ \A r \in Registries, n \in Nullifiers :
              accountOfNullifier'[r][n] =
                IF r = a.registry /\ n = a.nullifier THEN a.account ELSE accountOfNullifier[r][n]
         /\ \A r \in Registries, b \in Accounts :
              eligibleUntil'[r][b] =
                IF r = a.registry /\ b = a.account THEN a.expiresAt ELSE eligibleUntil[r][b]
         /\ accountOfNullifier[a.registry][a.nullifier] \in {NoAccount, a.account}
         /\ a.expiresAt > now
  <1>1. /\ a.registry \in Registries /\ a.account \in Accounts /\ a.nullifier \in Nullifiers
        /\ a.expiresAt \in Nat
    BY VerifiedMarketConstants DEF Answer
  <1>2. /\ eligibleUntil \in [Registries -> [Accounts -> Nat]]
        /\ accountOfNullifier \in [Registries -> [Nullifiers -> Accounts \cup {NoAccount}]]
    BY DEF VerifiedInv, VerifiedTypeOK, TypeOK, Policy!EligibilityTypeOK
  <1>3. /\ accountOfNullifier' =
             [accountOfNullifier EXCEPT ![a.registry][a.nullifier] = a.account]
        /\ eligibleUntil' = [eligibleUntil EXCEPT ![a.registry][a.account] = a.expiresAt]
        /\ accountOfNullifier[a.registry][a.nullifier] \in {NoAccount, a.account}
        /\ a.expiresAt > now
    BY DEF Attest, Policy!Attest, Policy!NullifierFree
  <1>4. \A r \in Registries, n \in Nullifiers :
          accountOfNullifier'[r][n] =
            IF r = a.registry /\ n = a.nullifier THEN a.account ELSE accountOfNullifier[r][n]
    BY <1>1, <1>2, <1>3
  <1>5. \A r \in Registries, b \in Accounts :
          eligibleUntil'[r][b] =
            IF r = a.registry /\ b = a.account THEN a.expiresAt ELSE eligibleUntil[r][b]
    BY <1>1, <1>2, <1>3
  <1>6. Policy!EligibilityTypeOK'
    BY <1>1, <1>2, <1>3 DEF Policy!EligibilityTypeOK
  <1>7. TypeOK'
    BY <1>6 DEF Attest, VerifiedInv, VerifiedTypeOK, TypeOK, BeaconTypeOK, beaconVars,
       orderVars, tradeVars
  <1> QED
    BY <1>3, <1>4, <1>5, <1>7

\* An attestation that is accepted takes no document from another account.
LEMMA RecordKeepsInv ==
  ASSUME VerifiedInv, NEW a \in issued, Record(a),
         gate' \in [Persons -> Page],
         \A p \in Persons : gate'[p] = gate[p] \/ gate'[p].step = "idle"
  PROVE  VerifiedInv'
  <1>1. /\ a \in Answer /\ Attest(a) /\ recorded' = recorded \cup {a} /\ issued' = issued
    BY DEF VerifiedInv, VerifiedTypeOK, Record
  <1>2. /\ a.registry \in Registries /\ a.account \in Accounts /\ a.nullifier \in Nullifiers
        /\ \A x \in recorded : x \in Answer
    BY <1>1, VerifiedMarketConstants DEF VerifiedInv, VerifiedTypeOK, Answer
  <1>3. /\ TypeOK'
        /\ \A r \in Registries, n \in Nullifiers :
             accountOfNullifier'[r][n] =
               IF r = a.registry /\ n = a.nullifier THEN a.account ELSE accountOfNullifier[r][n]
        /\ \A r \in Registries, b \in Accounts :
             eligibleUntil'[r][b] =
               IF r = a.registry /\ b = a.account THEN a.expiresAt ELSE eligibleUntil[r][b]
        /\ accountOfNullifier[a.registry][a.nullifier] \in {NoAccount, a.account}
    BY <1>1, AttestEffect
  <1>4. EligibleRecorded'
    BY <1>1, <1>3 DEF VerifiedInv, EligibleRecorded
  <1>5. RecordedBound'
    <2> SUFFICES ASSUME NEW x \in recorded'
                 PROVE  accountOfNullifier'[x.registry][x.nullifier] = x.account
      BY DEF RecordedBound
    <2>1. CASE x = a
      BY <1>2, <1>3, <2>1
    <2>2. CASE x # a
      <3>1. x \in recorded
        BY <1>1, <2>2
      <3>2. /\ x.registry \in Registries /\ x.nullifier \in Nullifiers
            /\ x.account \in Accounts
        BY <1>2, <3>1, VerifiedMarketConstants DEF Answer
      <3>3. accountOfNullifier[x.registry][x.nullifier] = x.account
        BY <3>1 DEF VerifiedInv, RecordedBound
      <3> QED
        BY <1>3, <3>2, <3>3, AttestationConstants
    <2> QED
      BY <2>1, <2>2
  <1>6. PostsSound' /\ AnswersIssued'
    BY <1>1 DEF VerifiedInv, PostsSound, AnswersIssued
  <1> QED
    BY <1>1, <1>3, <1>4, <1>5, <1>6 DEF VerifiedInv, VerifiedTypeOK, IssuedSound

(***************************************************************************)
(* The theorems                                                            *)
(***************************************************************************)
LEMMA VerifiedSteps ==
  ASSUME VerifiedInv, VerifiedNext
  PROVE  \/ \E p \in Persons : PageMoves(p) \/ Verify(p)
         \/ \E a \in issued :
              /\ Record(a) /\ gate' \in [Persons -> Page]
              /\ \A p \in Persons : gate'[p] = gate[p] \/ gate'[p].step = "idle"
         \/ (SellerNext \/ FillNext \/ BeaconNext) /\ UNCHANGED gateVars
  <1>1. gate \in [Persons -> Page]
    BY DEF VerifiedInv, VerifiedTypeOK
  <1>2. CASE \E p \in Persons : RecordAnswer(p)
    <2>1. PICK p \in Persons : RecordAnswer(p)
      BY <1>2
    <2> DEFINE g == gate[p]
               e == eligibleUntil'[g.registry][g.account] > now
    <2>2. g.answer \in issued /\ Record(g.answer)
      BY <2>1 DEF RecordAnswer, VerifiedInv, AnswersIssued
    <2>3. g.account \in Accounts /\ g.registry \in Registries /\ e \in BOOLEAN
      BY <1>1, <2>1, PagesByStep DEF RecordAnswer
    <2>4. gate' = [gate EXCEPT ![p] = Idle(g.account, g.registry, e)]
      BY <2>1 DEF RecordAnswer
    <2> HIDE DEF e
    <2>5. /\ Idle(g.account, g.registry, e) \in Page
          /\ Idle(g.account, g.registry, e).step = "idle"
      BY <2>3, IdleIsPage
    <2>6. /\ gate' \in [Persons -> Page]
          /\ \A q \in Persons : gate'[q] = gate[q] \/ gate'[q].step = "idle"
      BY <1>1, <2>4, <2>5
    <2> QED
      BY <2>2, <2>6
  <1>3. CASE \E a \in issued : RecordLater(a)
    BY <1>1, <1>3 DEF RecordLater
  <1>4. CASE FillsLeft /\ PolicyNext /\ UNCHANGED gateVars
    <2>1. \A policy \in Registries : policy \in Policies
      BY DEF Registries
    <2> QED
      BY <1>4, <2>1 DEF PolicyNext, SellerNext, Sellers
  <1>5. CASE \E p \in Persons : PersonNext(p) /\ ~RecordAnswer(p)
    BY <1>5, VisitMoves, SwitchMoves, StartMoves, ProveMoves, GiveUpMoves DEF PersonNext
  <1> QED
    BY <1>2, <1>3, <1>4, <1>5 DEF VerifiedNext

LEMMA VerifiedStep == VerifiedInv /\ [VerifiedNext]_verifiedVars => VerifiedInv'
  <1> SUFFICES ASSUME VerifiedInv, [VerifiedNext]_verifiedVars PROVE VerifiedInv'
    OBVIOUS
  <1>1. CASE \E p \in Persons : PageMoves(p) \/ Verify(p)
    BY <1>1, PageKeepsInv, VerifyKeepsInv
  <1>2. CASE \E a \in issued :
               /\ Record(a) /\ gate' \in [Persons -> Page]
               /\ \A p \in Persons : gate'[p] = gate[p] \/ gate'[p].step = "idle"
    BY <1>2, RecordKeepsInv
  <1>3. CASE \/ (SellerNext \/ FillNext \/ BeaconNext) /\ UNCHANGED gateVars
             \/ UNCHANGED verifiedVars
    <2>1. TypeOK'
      BY <1>3, StepType, NextIsMarketNext DEF VerifiedInv, VerifiedTypeOK, Next, verifiedVars
    <2>2. UNCHANGED <<eligibilityVars, gateVars>>
      BY <1>3 DEF SellerNext, ListOrder, ListOrderWithPolicy, CancelOrder, UseNonce,
         SetDelegation, FillNext, Fill, FillWithEth, FillFor, BeaconNext, verifiedVars, vars
    <2> QED
      BY <2>1, <2>2 DEF VerifiedInv, VerifiedTypeOK, eligibilityVars, gateVars, IssuedSound,
         PostsSound, AnswersIssued, EligibleRecorded, RecordedBound
  <1> QED
    BY <1>1, <1>2, <1>3, VerifiedSteps

(***************************************************************************)
(* From the page to the policy: what was signed, what was recorded and     *)
(* what is bound and eligible agree, the invariant of the theorems below.  *)
(***************************************************************************)
THEOREM VerifiedKept == VerifiedSpec => []VerifiedInv
  BY VerifiedInitHolds, VerifiedStep, PTL DEF VerifiedSpec

LEMMA EligibleNow ==
  ASSUME VerifiedInv, NEW r \in Registries, NEW a \in Accounts, Policy!IsEligible(r, a)
  PROVE  /\ \E x \in recorded : x.registry = r /\ x.account = a
         /\ eligibleUntil[r][a] > 0
  <1>1. now \in Nat /\ eligibleUntil[r][a] \in Nat
    BY NowEpochNat DEF VerifiedInv, VerifiedTypeOK, TypeOK, Policy!EligibilityTypeOK
  <1>2. eligibleUntil[r][a] > 0
    BY <1>1 DEF Policy!IsEligible
  <1> QED
    BY <1>2 DEF VerifiedInv, EligibleRecorded

(***************************************************************************)
(* However wallets switch accounts while a proof is under way, an account  *)
(* is eligible only if its own proof was approved in World App.            *)
(***************************************************************************)
THEOREM ConsentGiven == VerifiedSpec => []EligibleByConsent
  <1>1. VerifiedInv => EligibleByConsent
    BY EligibleNow DEF EligibleByConsent, VerifiedInv, IssuedSound
  <1> QED
    BY <1>1, VerifiedKept, PTL

(***************************************************************************)
(* Behind every account eligible for an Identity Check listing there is a  *)
(* document that no sanctioned country has issued.                         *)
(***************************************************************************)
THEOREM SanctionsEnforced == VerifiedSpec => []SanctionedKeptOut
  <1>1. VerifiedInv => SanctionedKeptOut
    BY EligibleNow, VerifiedMarketConstants DEF SanctionedKeptOut, VerifiedInv, IssuedSound
  <1> QED
    BY <1>1, VerifiedKept, PTL

(***************************************************************************)
(* One account per document: whatever the server signs and in whatever     *)
(* order it is recorded, a document serves a single account of a registry. *)
(***************************************************************************)
THEOREM OneAccountPerDocument == VerifiedSpec => []DocumentServesOneAccount
  <1>1. VerifiedInv => DocumentServesOneAccount
    BY DEF VerifiedInv, RecordedBound, DocumentServesOneAccount
  <1> QED
    BY <1>1, VerifiedKept, PTL

(***************************************************************************)
(* What was recorded once can be recorded again until it expires, so an    *)
(* older attestation shortens an eligibility only for a while.             *)
(***************************************************************************)
THEOREM ExpiryRestorable == VerifiedSpec => []OverwrittenExpiryRestorable
  <1>1. VerifiedInv => OverwrittenExpiryRestorable
    BY DEF VerifiedInv, RecordedBound, OverwrittenExpiryRestorable, Policy!NullifierFree
  <1> QED
    BY <1>1, VerifiedKept, PTL

(***************************************************************************)
(* A listing with a World ID policy sells only to an account to which the  *)
(* policy has bound a document, whoever pays for it.                       *)
(***************************************************************************)
THEOREM HoldersOnly == VerifiedSpec => VerifiedOrdersReachHolders
  <1> DEFINE Reaches ==
        \A id \in TradeIds :
          ~IsFilled(id) /\ trades'[id].status = "RequestSubmitted" =>
            \E o \in Orders :
              /\ trades'[id].seller = o.seller /\ trades'[id].nonce = o.nonce
              /\ trades'[id].sourceIndex = o.sourceIndex
              /\ policyOf[o] # "none" =>
                   \E n \in Nullifiers :
                     accountOfNullifier[policyOf[o]][n] = trades'[id].buyer
  <1>1. VerifiedInv /\ [VerifiedNext]_verifiedVars => [Reaches]_vars
    <2> SUFFICES ASSUME VerifiedInv, VerifiedNext, NEW id \in TradeIds,
                        ~IsFilled(id), trades'[id].status = "RequestSubmitted"
                 PROVE  \E o \in Orders :
                          /\ trades'[id].seller = o.seller /\ trades'[id].nonce = o.nonce
                          /\ trades'[id].sourceIndex = o.sourceIndex
                          /\ policyOf[o] # "none" =>
                               \E n \in Nullifiers :
                                 accountOfNullifier[policyOf[o]][n] = trades'[id].buyer
      BY DEF verifiedVars
    <2>1. trades' # trades
      BY DEF IsFilled
    <2>2. FillNext
      BY <2>1, VerifiedSteps DEF PageMoves, Verify, Record, Attest, SellerNext, ListOrder,
         ListOrderWithPolicy, CancelOrder, UseNonce, SetDelegation, BeaconNext, vars, tradeVars
    <2>3. PICK o \in Orders, target \in Targets, state \in roots, buyer \in Buyers :
            \E payment : FillFor(o, target, state, buyer, payment)
      BY <2>2 DEF FillNext, Fill, FillWithEth
    <2>4. PICK payment : FillFor(o, target, state, buyer, payment)
      BY <2>3
    <2>5. TypeOK
      BY DEF VerifiedInv, VerifiedTypeOK
    <2>6. trades' = [trades EXCEPT ![nextTradeId] =
            [seller |-> o.seller, buyer |-> buyer, sourceIndex |-> o.sourceIndex,
             targetIndex |-> target, sourcePubkey |-> o.sourcePubkey,
             amount |-> state.val[o.sourceIndex].eff,
             filledAt |-> now, withdrawableEpoch |-> 0, status |-> "RequestSubmitted",
             payment |-> payment, nonce |-> o.nonce]]
      BY <2>4 DEF FillFor, OpenTrade
    <2>7. id = nextTradeId
      BY <2>5, <2>6 DEF TypeOK, IsFilled
    <2>8. /\ trades'[id].seller = o.seller /\ trades'[id].nonce = o.nonce
          /\ trades'[id].sourceIndex = o.sourceIndex /\ trades'[id].buyer = buyer
      BY <2>5, <2>6, <2>7 DEF TypeOK
    <2>9. ASSUME policyOf[o] # "none"
          PROVE  \E n \in Nullifiers : accountOfNullifier[policyOf[o]][n] = buyer
      <3>1. policyOf[o] \in Registries /\ buyer \in Accounts
        BY <2>5, <2>9, MarketConstants DEF TypeOK, Registries
      <3>2. Policy!IsEligible(policyOf[o], buyer)
        BY <2>4, <2>9 DEF FillFor, CheckPolicy
      <3>3. PICK x \in recorded : x.registry = policyOf[o] /\ x.account = buyer
        BY <3>1, <3>2, EligibleNow
      <3>4. accountOfNullifier[policyOf[o]][x.nullifier] = buyer /\ x.nullifier \in Nullifiers
        BY <3>3, VerifiedMarketConstants
           DEF VerifiedInv, RecordedBound, VerifiedTypeOK, Answer
      <3> QED
        BY <3>4
    <2> QED
      BY <2>8, <2>9
  <1> QED
    BY <1>1, VerifiedKept, PTL DEF VerifiedSpec, VerifiedOrdersReachHolders
=============================================================================
