---------------------------- MODULE StakeMarket ----------------------------
(***************************************************************************)
(* contracts/src/NativeStakeMarket.sol with the seller's delegate          *)
(* (Stake7702Delegate.sol) and the beacon oracle (BeaconOracle.sol):       *)
(* delivery versus payment for a validator's stake.  Every action is one   *)
(* transaction of the block at `now`; a transaction that reverts is a      *)
(* disabled action.  A beacon proof is a root of the EIP-4788 ring and the *)
(* state it commits to.                                                    *)
(***************************************************************************)
EXTENDS Beacon

CONSTANTS
  Orders,          \* StakeOrder structs
  Signed,          \* the orders whose EIP-712 signature the seller has given out
  Nonces,
  Policies,        \* eligibility policies sellers list with; "none" is the zero address
  Targets,         \* validators a fill may name as the target
  Buyers,          \* accounts a fill may name as the buyer
  Payers,          \* accounts that call fill: a buyer, the hook, the Aqua app
  Market,          \* the market's own address
  Funds,           \* [Accounts -> Nat], initial WETH balances
  RefPrices,       \* values stakedEthPrice() may return; empty without an oracle
  PriceUnit,       \* 1e18
  Bps,             \* 10_000
  MaxDust,         \* MAX_DUST_BALANCE (1 ETH)
  MaxProofAge,     \* maxProofAge
  DequeueDelay,    \* REQUEST_DEQUEUE_DELAY
  MaxAcceptWindow, \* MAX_ACCEPT_WINDOW
  AcceptWindow,    \* acceptWindow
  MaxTrades,       \* bound on the number of fills
  Nullifiers,
  Attestations,    \* records [registry, account, nullifier, credential, expiresAt], signed
  RequiredCredential,
  NoAccount        \* the zero address

Order ==
  [seller : Accounts, sourcePubkey : Validators, sourceIndex : Validators,
   priceMode : {"Fixed", "LstRelative"}, price : Nat, minPayment : Nat,
   expiry : Nat, nonce : Nonces]

\* Every policy is an instance of WorldIdEligibility.
Registries == Policies \ {"none"}

ASSUME MarketConstants ==
  /\ Orders \subseteq Order
  /\ Signed \subseteq Orders
  /\ Targets \subseteq Validators
  /\ Buyers \subseteq Accounts
  /\ Payers \subseteq Accounts
  /\ Market \notin Accounts
  /\ Funds \in [Accounts -> Nat]
  /\ RefPrices \subseteq Nat
  /\ PriceUnit \in Nat \ {0} /\ Bps \in Nat \ {0}
  /\ MaxDust \in Nat /\ MaxProofAge \in Nat /\ DequeueDelay \in Nat
  /\ AcceptWindow \in Nat /\ MaxAcceptWindow \in Nat /\ MaxTrades \in Nat

ASSUME AttestationConstants ==
  /\ NoAccount \notin Accounts
  /\ \A a \in Attestations :
       /\ a.registry \in Registries /\ a.account \in Accounts
       /\ a.nullifier \in Nullifiers /\ a.expiresAt \in Nat

\* The constructor's check of the accept window.
ASSUME AcceptWindowBounds ==
  DequeueDelay < AcceptWindow /\ AcceptWindow <= MaxAcceptWindow

\* What REQUEST_DEQUEUE_DELAY and MAX_ACCEPT_WINDOW rely on: the fee keeps the
\* predeploy queue short enough to drain, and an accepted pair stays provable
\* through the queue of pending consolidations and then through the ring.
ASSUME DelaysMatchConsensusLayer ==
  /\ (QueueCap - 1) * MaxGap < DequeueRate * (DequeueDelay + 1)
  /\ MaxAcceptWindow <= (ExitDelay - 1) * SlotsPerEpoch + RootsKept

VARIABLES
  nextTradeId, trades, nonceUsed, activeTradeBySource, listed, policyOf,
  delegated,           \* seller EOAs whose code is the StakePort delegate
  weth,                \* WETH balances
  eligibleUntil, accountOfNullifier

eligibilityVars == <<eligibleUntil, accountOfNullifier>>
orderVars == <<listed, policyOf, delegated>>
tradeVars == <<nextTradeId, trades, nonceUsed, activeTradeBySource, weth>>
vars == <<beaconVars, orderVars, tradeVars, eligibilityVars>>

Policy == INSTANCE WorldIdEligibility

Sellers  == {o.seller : o \in Orders}
TradeIds == 1..MaxTrades
Holders  == Accounts \cup {Market}

Status == {"None", "RequestSubmitted", "Accepted", "Delivered", "Failed"}
OpenStatus == {"RequestSubmitted", "Accepted"}

\* `nonce` is history: the contract keeps the nonce in nonceUsed only.
Trade ==
  [seller : Accounts, buyer : Accounts, sourceIndex : Validators, targetIndex : Validators,
   sourcePubkey : Validators, amount : Nat, filledAt : Nat, withdrawableEpoch : Nat,
   status : Status \ {"None"}, payment : Nat, nonce : Nonces]

NoTrade == [status |-> "None"]

Init ==
  /\ BeaconInit
  /\ Policy!EligibilityInit
  /\ nextTradeId = 1
  /\ trades = [id \in TradeIds |-> NoTrade]
  /\ nonceUsed = {}
  /\ activeTradeBySource = [v \in Validators |-> 0]
  /\ listed = {}
  /\ policyOf = [o \in Orders |-> "none"]
  /\ delegated = {}
  /\ weth = [a \in Holders |-> IF a = Market THEN 0 ELSE Funds[a]]

-----------------------------------------------------------------------------
(* Sellers                                                                 *)

\* listOrder: the policy of an earlier listing of the same order stays.
ListOrder(o) ==
  /\ listed' = listed \cup {o}
  /\ UNCHANGED <<policyOf, delegated, beaconVars, tradeVars, eligibilityVars>>

ListOrderWithPolicy(o, policy) ==
  /\ listed' = listed \cup {o}
  /\ policyOf' = [policyOf EXCEPT ![o] = policy]
  /\ UNCHANGED <<delegated, beaconVars, tradeVars, eligibilityVars>>

\* Faulty variant: the nonce stays unused.
KeepNonce(seller, nonce) == nonceUsed' = nonceUsed

UseNonce(seller, nonce) == nonceUsed' = nonceUsed \cup {<<seller, nonce>>}

CancelOrder(seller, nonce) ==
  /\ UseNonce(seller, nonce)
  /\ UNCHANGED <<nextTradeId, trades, activeTradeBySource, weth,
                 beaconVars, orderVars, eligibilityVars>>

\* An EIP-7702 authorization points the seller's EOA at the delegate, or away from it.
SetDelegation(seller) ==
  /\ delegated' \in {delegated \cup {seller}, delegated \ {seller}}
  /\ delegated' # delegated
  /\ UNCHANGED <<listed, policyOf, beaconVars, tradeVars, eligibilityVars>>

-----------------------------------------------------------------------------
(* Fill                                                                    *)

\* Faulty variant: a source in an open trade can be sold again.
SourceIgnored(v) == TRUE

SourceUnlocked(v) == activeTradeBySource[v] = 0

CheckOrder(o) ==
  /\ now <= o.expiry
  /\ <<o.seller, o.nonce>> \notin nonceUsed
  /\ o \in listed \cup Signed
  /\ o.seller \in delegated
  /\ SourceUnlocked(o.sourceIndex)

CheckPolicy(o, buyer) == policyOf[o] # "none" => Policy!IsEligible(policyOf[o], buyer)

\* Faulty variant: the proof is not asked for the order's pubkey.
AnyPubkey(o) == TRUE

\* The source proof ties the order's index and pubkey together.
ProvesPubkey(o) == o.sourcePubkey = o.sourceIndex

\* `state` is the proven state.
CheckValidators(o, target, state) ==
  LET epoch == EpochOf(state.slot)
      v     == o.sourceIndex
  IN /\ state.ts + MaxProofAge >= now
     /\ ProvesPubkey(o)
     /\ CredsPrefix[v] \in {1, 2}
     /\ WithdrawalAddress[v] = o.seller
     /\ IsActiveNotExiting(v, state.val[v], epoch)
     /\ ActivationEpoch[v] + CommitteePeriod <= epoch
     /\ target # v
     /\ CredsPrefix[target] = 2
     /\ IsActiveNotExiting(target, state.val[target], epoch)
     /\ state.val[target].eff + state.val[v].eff <= MaxEffective

\* quote(): the payments the order's pricing gives, one per reference price.
Quotes(o, amount) ==
  IF o.priceMode = "Fixed" THEN {o.price}
  ELSE {(((amount * ref) \div PriceUnit) * (Bps - o.price)) \div Bps :
          ref \in {r \in RefPrices : o.price <= Bps}}

\* The bound on the number of trades.
FillsLeft == nextTradeId <= MaxTrades

\* The state _fill writes once its checks have passed.
OpenTrade(o, target, amount, buyer, payment) ==
  /\ FillsLeft
  /\ UseNonce(o.seller, o.nonce)
  /\ nextTradeId' = nextTradeId + 1
  /\ activeTradeBySource' = [activeTradeBySource EXCEPT ![o.sourceIndex] = nextTradeId]
  /\ trades' = [trades EXCEPT ![nextTradeId] =
       [seller |-> o.seller, buyer |-> buyer, sourceIndex |-> o.sourceIndex,
        targetIndex |-> target, sourcePubkey |-> o.sourcePubkey, amount |-> amount,
        filledAt |-> now, withdrawableEpoch |-> 0, status |-> "RequestSubmitted",
        payment |-> payment, nonce |-> o.nonce]]

\* requestConsolidation runs as the seller's EOA: the seller is the sender.
RequestConsolidation(o, target) ==
  /\ Enqueue(o.seller, o.sourcePubkey, target, nextTradeId)
  /\ UNCHANGED <<now, validators, pending, roots, accepted, movedTo>>

\* What every fill does, apart from where the payment comes from.
FillFor(o, target, state, buyer, payment) ==
  LET amount == state.val[o.sourceIndex].eff
  IN /\ CheckOrder(o)
     /\ CheckPolicy(o, buyer)
     /\ CheckValidators(o, target, state)
     /\ payment \in Quotes(o, amount)
     /\ payment >= o.minPayment
     /\ OpenTrade(o, target, amount, buyer, payment)
     /\ RequestConsolidation(o, target)
     /\ UNCHANGED <<orderVars, eligibilityVars>>

Payments(o) == UNION {Quotes(o, s.val[o.sourceIndex].eff) : s \in roots}

\* Faulty variant: a transfer that fails is not noticed.
TransferUnchecked(payer, payment) == TRUE

TransferSucceeds(payer, payment) == weth[payer] >= payment

\* fill: the caller's WETH is pulled into the market.
Fill(o, target, state, buyer, payer) ==
  \E payment \in Payments(o) :
    /\ FillFor(o, target, state, buyer, payment)
    /\ TransferSucceeds(payer, payment)
    /\ weth' = [weth EXCEPT ![payer] = @ - payment, ![Market] = @ + payment]

\* fillWithEth: the caller's ether is wrapped into the market's WETH.
FillWithEth(o, target, state, buyer) ==
  \E payment \in Payments(o) :
    /\ FillFor(o, target, state, buyer, payment)
    /\ weth' = [weth EXCEPT ![Market] = @ + payment]

-----------------------------------------------------------------------------
(* Settlement: anyone may relay a proof                                    *)

\* Faulty variant: the slot of the state must be after the fill, not its root's time.
SlotAfterFill(t, state) == state.slot > t.filledAt

StateAfterFill(t, state) == state.ts > t.filledAt

\* The source proof names the trade's index and pubkey.
VerifySource(t) == t.sourcePubkey = t.sourceIndex

\* Faulty variant: any pending consolidation of the source is taken for the trade's.
AnyPairOfSource(t, state) == \E e \in state.pend : e.src = t.sourceIndex

PairIsPending(t, state) == [src |-> t.sourceIndex, tgt |-> t.targetIndex] \in state.pend

ShowsAcceptance(t, state) ==
  /\ t.status = "RequestSubmitted"
  /\ StateAfterFill(t, state)
  /\ PairIsPending(t, state)
  /\ VerifySource(t)

ProveAccepted(id, state) ==
  LET t == trades[id]
  IN /\ ShowsAcceptance(t, state)
     /\ trades' = [trades EXCEPT
          ![id].withdrawableEpoch = state.val[t.sourceIndex].withdrawable,
          ![id].status = "Accepted"]
     /\ UNCHANGED <<nextTradeId, nonceUsed, activeTradeBySource, weth,
                    beaconVars, orderVars, eligibilityVars>>

\* Faulty variant: the source stays locked.
KeepSource(v) == UNCHANGED activeTradeBySource

ReleaseSource(v) == activeTradeBySource' = [activeTradeBySource EXCEPT ![v] = 0]

PaymentHeld(t) == weth[Market] >= t.payment

\* The trade ends: the source is released and the escrow leaves the market.
Close(id, outcome, payee) ==
  LET t == trades[id]
  IN /\ trades' = [trades EXCEPT ![id].status = outcome]
     /\ ReleaseSource(t.sourceIndex)
     /\ PaymentHeld(t)
     /\ weth' = [weth EXCEPT ![Market] = @ - t.payment, ![payee] = @ + t.payment]
     /\ UNCHANGED <<nextTradeId, nonceUsed, beaconVars, orderVars, eligibilityVars>>

\* Faulty variant: a failed trade pays the seller.
FailPayingSeller(id) == Close(id, "Failed", trades[id].seller)

Fail(id) == Close(id, "Failed", trades[id].buyer)

Processed(source, state) ==
  /\ ~source.slashed
  /\ source.withdrawable <= EpochOf(state.slot)
  /\ source.balance < MaxDust

ShowsDelivery(t, state) ==
  /\ t.status = "Accepted"
  /\ StateAfterFill(t, state)
  /\ VerifySource(t)
  /\ Processed(state.val[t.sourceIndex], state)

ProveDelivered(id, state) ==
  ShowsDelivery(trades[id], state) /\ Close(id, "Delivered", trades[id].seller)

\* Faulty variant: waiting one slot less for the predeploy queue.
DequeueDelayOffByOne(t, state) == state.ts >= t.filledAt + DequeueDelay

\* By the time of the state the predeploy has handed the request over.
RequestDequeued(t, state) == state.ts > t.filledAt + DequeueDelay

\* Faulty variant: only a slashed source counts as exiting.
SourceUnslashed(t, state) == ~state.val[t.sourceIndex].slashed

SourceNotExiting(t, state) == ~IsExiting(state.val[t.sourceIndex])

ShowsNoAcceptance(t, state) ==
  /\ t.status = "RequestSubmitted"
  /\ RequestDequeued(t, state)
  /\ StateAfterFill(t, state)
  /\ VerifySource(t)
  /\ SourceNotExiting(t, state)

ProveNotAccepted(id, state) == ShowsNoAcceptance(trades[id], state) /\ Fail(id)

\* Faulty variant: an accepted trade cannot fail.
MayFailUnaccepted(t) == t.status = "RequestSubmitted"

MayFail(t) == t.status \in OpenStatus

ShowsSlashing(t, state) ==
  /\ MayFail(t)
  /\ StateAfterFill(t, state)
  /\ VerifySource(t)
  /\ state.val[t.sourceIndex].slashed

ProveFailed(id, state) == ShowsSlashing(trades[id], state) /\ Fail(id)

\* Faulty variant: a settled trade is refunded again.
ExpiredInAnyStatus(t) == t.status # "None" /\ now > t.filledAt + AcceptWindow

Expired(t) == t.status = "RequestSubmitted" /\ now > t.filledAt + AcceptWindow

RefundExpired(id) == Expired(trades[id]) /\ Fail(id)

-----------------------------------------------------------------------------
\* Nothing reads what sellers set up after the last fill of the bounded model.
SellerNext ==
  /\ FillsLeft
  /\ \/ \E o \in Orders : ListOrder(o)
     \/ \E o \in Orders, policy \in Policies : ListOrderWithPolicy(o, policy)
     \/ \E o \in Orders : CancelOrder(o.seller, o.nonce)
     \/ \E seller \in Sellers : SetDelegation(seller)

FillNext ==
  \E o \in Orders, target \in Targets, state \in roots, buyer \in Buyers :
    \/ \E payer \in Payers : Fill(o, target, state, buyer, payer)
    \/ FillWithEth(o, target, state, buyer)

SettleNext ==
  \E id \in TradeIds :
    \/ \E state \in roots :
         \/ ProveAccepted(id, state)
         \/ ProveDelivered(id, state)
         \/ ProveNotAccepted(id, state)
         \/ ProveFailed(id, state)
    \/ RefundExpired(id)

Attest(a) == Policy!Attest(a) /\ UNCHANGED <<beaconVars, orderVars, tradeVars>>

AttestNext == \E a \in Attestations : Attest(a)

BeaconNext ==
  /\ \/ OwnRequest
     \/ NewBlock
     \/ \E v \in MayExit : Exit(v)
     \/ \E v \in MayBeSlashed : Slash(v)
     \/ \E v \in Validators : Sweep(v)
  /\ UNCHANGED <<orderVars, tradeVars, eligibilityVars>>

Next == SellerNext \/ FillNext \/ SettleNext \/ AttestNext \/ BeaconNext

Spec == Init /\ [][Next]_vars

-----------------------------------------------------------------------------
(***************************************************************************)
(* Types: balances and escrow never go negative, locks and the counter     *)
(* name trades there are, and the predeploy queue keeps to its cap.        *)
(***************************************************************************)
TypeOK ==
  /\ BeaconTypeOK
  /\ Policy!EligibilityTypeOK
  /\ nextTradeId \in 1..(MaxTrades + 1)
  /\ trades \in [TradeIds -> Trade \cup {NoTrade}]
  /\ nonceUsed \subseteq Accounts \X Nonces
  /\ activeTradeBySource \in [Validators -> 0..MaxTrades]
  /\ listed \subseteq Orders
  /\ policyOf \in [Orders -> Policies \cup {"none"}]
  /\ delegated \subseteq Sellers
  /\ weth \in [Holders -> Nat]

-----------------------------------------------------------------------------
(* Safety                                                                  *)

IsOpen(id)   == trades[id].status \in OpenStatus
IsFilled(id) == trades[id].status # "None"
WithStatus(S) == {id \in TradeIds : trades[id].status \in S}
PaymentsOf(ids) == MapThenSumSet(LAMBDA id : trades[id].payment, ids)

\* The request of trade `id` is the one the consensus layer accepted.
OwnRequestAccepted(id) ==
  /\ IsFilled(id)
  /\ accepted[trades[id].sourceIndex] = [tgt |-> trades[id].targetIndex, id |-> id]

(***************************************************************************)
(* A stake is never sold twice at once: a source is locked exactly by its  *)
(* open trade (activeTradeBySource), so two open trades never share one.   *)
(***************************************************************************)
SourceLock ==
  /\ \A id \in TradeIds : IsOpen(id) => activeTradeBySource[trades[id].sourceIndex] = id
  /\ \A v \in Validators : activeTradeBySource[v] # 0 =>
       /\ IsOpen(activeTradeBySource[v])
       /\ trades[activeTradeBySource[v]].sourceIndex = v

(***************************************************************************)
(* One signature or listing sells once: no two trades carry the same nonce *)
(* of a seller, and the nonce of a trade stays used, also after it failed. *)
(***************************************************************************)
NonceFilledOnce ==
  /\ \A id \in TradeIds : IsFilled(id) => <<trades[id].seller, trades[id].nonce>> \in nonceUsed
  /\ \A i, j \in TradeIds :
       IsFilled(i) /\ IsFilled(j) /\ trades[i].seller = trades[j].seller
         /\ trades[i].nonce = trades[j].nonce => i = j

(***************************************************************************)
(* The market's WETH is exactly the payments of its open trades, however   *)
(* they were paid in (fill, fillWithEth) and paid out.                     *)
(***************************************************************************)
EscrowBacksOpenTrades == weth[Market] = PaymentsOf(WithStatus(OpenStatus))

(***************************************************************************)
(* Everyone who never pays in holds what the outcomes gave: a seller the   *)
(* payments of its delivered trades, a buyer those of its failed ones,     *)
(* whoever the payer was.                                                  *)
(***************************************************************************)
PayoutsMatchOutcomes ==
  \A a \in Accounts \ Payers :
    weth[a] = Funds[a]
      + PaymentsOf({id \in WithStatus({"Delivered"}) : trades[id].seller = a})
      + PaymentsOf({id \in WithStatus({"Failed"}) : trades[id].buyer = a})

(***************************************************************************)
(* Delivery versus payment: the seller is paid only for a stake the        *)
(* consensus layer has moved to the validator the buyer chose.             *)
(***************************************************************************)
DeliveredStakeMoved ==
  \A id \in WithStatus({"Delivered"}) : movedTo[trades[id].sourceIndex] = trades[id].targetIndex

(***************************************************************************)
(* The stake that is requested is the stake that is locked: the request    *)
(* names pubkeys and the lock names indices (order.sourcePubkey against    *)
(* order.sourceIndex), and no order, signed or listed, gets them apart.    *)
(***************************************************************************)
RequestNamesLockedStake ==
  \A i \in 1..Len(requestQueue) :
    LET r == requestQueue[i]
    IN r.id # 0 /\ IsOpen(r.id) =>
         /\ activeTradeBySource[r.src] = r.id
         /\ r.tgt = trades[r.id].targetIndex
         /\ WithdrawalAddress[r.src] = r.sender

(***************************************************************************)
(* A refunded trade cannot deliver later: its request no longer waits in   *)
(* the predeploy queue (REQUEST_DEQUEUE_DELAY), unless the source is       *)
(* slashed and the request can only be dropped.                            *)
(***************************************************************************)
RefundKillsRequest ==
  \A id \in WithStatus({"Failed"}), i \in 1..Len(requestQueue) :
    requestQueue[i].id = id => validators[requestQueue[i].src].slashed

(***************************************************************************)
(* The comment at MAX_ACCEPT_WINDOW: as long as the accept window is open, *)
(* a request the consensus layer accepted has a root in the ring that      *)
(* proves it, so refundExpired never outruns a possible proof.             *)
(***************************************************************************)
CanProveAccepted(id) ==
  \E state \in roots :
    /\ StateAfterFill(trades[id], state)
    /\ PairIsPending(trades[id], state)

AcceptanceProvable ==
  \A id \in WithStatus({"RequestSubmitted"}) :
    /\ OwnRequestAccepted(id)
    /\ ~validators[trades[id].sourceIndex].slashed
    /\ now <= trades[id].filledAt + AcceptWindow
    => CanProveAccepted(id)

(***************************************************************************)
(* No buyer is refunded for a stake on its way: while the accept window is *)
(* open, and at any time once acceptance is proven, a trade whose pair the *)
(* consensus layer accepted only fails if the source was slashed.          *)
(***************************************************************************)
NoRefundOfAcceptedStake ==
  [][\A id \in TradeIds :
       /\ IsOpen(id) /\ trades'[id].status = "Failed"
       /\ OwnRequestAccepted(id)
       => \/ validators[trades[id].sourceIndex].slashed
          \/ trades[id].status = "RequestSubmitted" /\ now > trades[id].filledAt + AcceptWindow]_vars

(***************************************************************************)
(* A Verified Market order reaches only accounts that hold a document of   *)
(* their own: every new trade fills an order of its seller, nonce and      *)
(* source (orders may share a nonce), and if that order was listed with a  *)
(* World ID policy, the policy has bound a nullifier to the buyer.         *)
(***************************************************************************)
VerifiedOrdersReachHolders ==
  [][\A id \in TradeIds :
       ~IsFilled(id) /\ trades'[id].status = "RequestSubmitted" =>
         \E o \in Orders :
           /\ trades'[id].seller = o.seller /\ trades'[id].nonce = o.nonce
           /\ trades'[id].sourceIndex = o.sourceIndex
           /\ policyOf[o] # "none" =>
                \E n \in Nullifiers : accountOfNullifier[policyOf[o]][n] = trades'[id].buyer]_vars

-----------------------------------------------------------------------------
(* Refinement                                                              *)

DealState ==
  [RequestSubmitted |-> "locked", Accepted |-> "locked",
   Delivered |-> "paid", Failed |-> "refunded"]

DealOf(t) ==
  IF t.status = "None" THEN [state |-> "none"]
  ELSE [source |-> t.sourceIndex, target |-> t.targetIndex, seller |-> t.seller,
        buyer |-> t.buyer, payment |-> t.payment, state |-> DealState[t.status]]

Abstract == INSTANCE DvP WITH
  Deals <- TradeIds,
  Stakes <- Validators,
  Parties <- Accounts,
  NoStake <- NoValidator,
  deal <- [id \in TradeIds |-> DealOf(trades[id])],
  purse <- [a \in Accounts |-> weth[a]],
  escrow <- weth[Market],
  stakeWith <- movedTo

(***************************************************************************)
(* The market implements delivery versus payment: whatever the proofs, the *)
(* windows and the consensus layer do, a payment is locked with its stake, *)
(* reaches the seller only after the stake moved, or returns to the buyer. *)
(***************************************************************************)
ImplementsDvP == Abstract!Spec

-----------------------------------------------------------------------------
(* Progress                                                                *)

(***************************************************************************)
(* Blocks keep coming, the sweep reaches everyone, and someone (the        *)
(* parties, the relayer) keeps relaying every proof that stays available.  *)
(***************************************************************************)
Fairness ==
  /\ WF_vars(NewBlock /\ UNCHANGED <<orderVars, tradeVars, eligibilityVars>>)
  /\ \A v \in Validators :
       WF_vars(Sweep(v) /\ UNCHANGED <<orderVars, tradeVars, eligibilityVars>>)
  /\ \A id \in TradeIds :
       /\ WF_vars(\E state \in roots : ProveAccepted(id, state))
       /\ WF_vars(\E state \in roots : ProveDelivered(id, state))
       /\ WF_vars(\E state \in roots : ProveFailed(id, state))
       /\ WF_vars(RefundExpired(id))

FairSpec == Spec /\ Fairness

(***************************************************************************)
(* No payment stays in escrow for ever: every fill ends in a delivery or a *)
(* refund, whatever the seller, the buyer and the consensus layer do.      *)
(***************************************************************************)
EscrowReleased == \A id \in TradeIds : IsOpen(id) ~> trades[id].status \in {"Delivered", "Failed"}
=============================================================================
