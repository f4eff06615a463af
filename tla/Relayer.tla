------------------------------ MODULE Relayer ------------------------------
(***************************************************************************)
(* proof-generator/src/relayer.ts (MODE=real) with remote.ts: a process    *)
(* that settles trades by relaying proofs of the newest provable beacon    *)
(* state.  Every await of a tick separates two steps, between which blocks *)
(* come, other people settle, and the process may stop and start again.    *)
(*                                                                         *)
(* The indexer is taken to be in sync, and the chain's genesis is slot 0.  *)
(***************************************************************************)
EXTENDS StakeMarket

CONSTANTS
  MaxOutage, \* bound on the slots from one tick of the relayer to the next
  MaxFaults, \* bound on the number of crashes, failed calls and timeouts
  MaxSent    \* bound on the relayer's transactions waiting to be mined

ASSUME RelayerConstants ==
  MaxOutage \in Nat \ {0} /\ MaxFaults \in Nat /\ MaxSent \in Nat

\* The relayer comes back in time, after every fault that loses it a tick: before the
\* root of a proof it sends leaves the ring, before the accept window of a request that
\* the predeploy has handed over ends, and before an accepted pair leaves the queue.
ASSUME RelayerBackInTime ==
  /\ MaxOutage < RootsKept
  /\ DequeueDelay + (MaxFaults + 1) * MaxOutage <= AcceptWindow
  /\ SlotsPerEpoch - 1 + MaxProofAge + (MaxFaults + 2) * MaxOutage <= ExitDelay * SlotsPerEpoch

VARIABLES
  relayer, \* the process: where it is, the rows left in this tick, the tick's `now`
  sent,    \* transactions sent and not yet mined
  faults   \* crashes, failed calls and timeouts so far

relayerVars == <<relayer, sent, faults>>
allVars == <<vars, relayerVars>>

NoTx == [fn |-> "none"]

RelayerInit ==
  /\ Init
  /\ relayer = [pc |-> "idle", rows |-> {}, clock |-> now, status |-> "None", tx |-> NoTx]
  /\ sent = {}
  /\ faults = 0

\* The rows come newest first.
Current == Max(relayer.rows)

-----------------------------------------------------------------------------
(* A tick                                                                  *)

\* Fetches the indexer's trades and the time of the latest block.
StartTick ==
  /\ relayer.pc = "idle"
  /\ relayer' = [relayer EXCEPT !.pc = "read", !.rows = {id \in TradeIds : IsFilled(id)},
                                !.clock = now]
  /\ UNCHANGED <<vars, sent, faults>>

EndTick ==
  /\ relayer.pc = "read" /\ relayer.rows = {}
  /\ relayer' = [relayer EXCEPT !.pc = "idle"]
  /\ UNCHANGED <<vars, sent, faults>>

\* Faulty variant: a row is tried again until something comes of it.
SameRow == [relayer EXCEPT !.pc = "read", !.status = "None", !.tx = NoTx]

NextRow ==
  [relayer EXCEPT !.pc = "read", !.rows = @ \ {Current}, !.status = "None", !.tx = NoTx]
Sending(fn, state) ==
  [relayer EXCEPT !.pc = "send", !.tx = [fn |-> fn, id |-> Current, state |-> state]]
Fetching(status) == [relayer EXCEPT !.pc = "fetch", !.status = status]

NoProof == [ts |-> 0]

\* The tick's `now`, which ages while earlier rows are settled.
WindowOver(t) == t.status = "RequestSubmitted" /\ relayer.clock > t.filledAt + AcceptWindow
NotYetWithdrawable(t) == t.status = "Accepted" /\ EpochOf(relayer.clock) < t.withdrawableEpoch

Settled(id) == ~IsOpen(id)

ReadTrade ==
  /\ relayer.pc = "read" /\ relayer.rows # {}
  /\ LET t == trades[Current]
     IN relayer' = IF Settled(Current) \/ NotYetWithdrawable(t) THEN NextRow
                   ELSE IF WindowOver(t) THEN Sending("refundExpired", NoProof)
                   ELSE Fetching(t.status)
  /\ UNCHANGED <<vars, sent, faults>>

\* Faulty variant: the oldest one.
OldestProvable == CHOOSE s \in roots : \A r \in roots : s.ts <= r.ts

\* provableBlockId: the newest state whose root is in the ring.
NewestProvable == CHOOSE s \in roots : \A r \in roots : r.ts <= s.ts

\* Faulty variant: source and target are mixed up.
FindsSwappedPair(t, state) == [src |-> t.targetIndex, tgt |-> t.sourceIndex] \in state.pend

FindsPair(t, state) == PairIsPending(t, state)

\* Faulty variant: no waiting for the predeploy queue.
NoWait(t, state) == TRUE

WaitedLongEnough(t, state) == state.ts > t.filledAt + DequeueDelay

\* What settleReal sends for a trade that waits for acceptance, if anything.
Checkpoint1(t, state) ==
  IF ~StateAfterFill(t, state) THEN "none"
  ELSE IF FindsPair(t, state) THEN "proveAccepted"
  ELSE IF SourceNotExiting(t, state) /\ WaitedLongEnough(t, state) THEN "proveNotAccepted"
  ELSE "none"

\* And for one that waits for delivery.
Checkpoint2(t, state) ==
  IF state.val[t.sourceIndex].slashed THEN "proveFailed" ELSE "proveDelivered"

\* The decision uses the status read before the proofs were fetched.
Choice(id, state) ==
  IF relayer.status = "RequestSubmitted" THEN Checkpoint1(trades[id], state)
  ELSE Checkpoint2(trades[id], state)

\* remoteProofs: every proof is of the state chosen first.
FetchProofs ==
  /\ relayer.pc = "fetch"
  /\ LET fn == Choice(Current, NewestProvable)
     IN relayer' = IF fn = "none" THEN NextRow ELSE Sending(fn, NewestProvable)
  /\ UNCHANGED <<vars, sent, faults>>

-----------------------------------------------------------------------------
(* Transactions                                                            *)

Execute(tx) ==
  CASE tx.fn = "refundExpired"    -> RefundExpired(tx.id)
    [] tx.fn = "proveAccepted"    -> tx.state \in roots /\ ProveAccepted(tx.id, tx.state)
    [] tx.fn = "proveNotAccepted" -> tx.state \in roots /\ ProveNotAccepted(tx.id, tx.state)
    [] tx.fn = "proveDelivered"   -> tx.state \in roots /\ ProveDelivered(tx.id, tx.state)
    [] tx.fn = "proveFailed"      -> tx.state \in roots /\ ProveFailed(tx.id, tx.state)

\* simulateContract: what the market asks of the call.
Passes(tx) ==
  LET t == trades[tx.id]
  IN /\ IF tx.fn = "refundExpired" THEN Expired(t) ELSE tx.state \in roots
     /\ tx.fn = "proveAccepted" => ShowsAcceptance(t, tx.state)
     /\ tx.fn = "proveNotAccepted" => ShowsNoAcceptance(t, tx.state)
     /\ tx.fn = "proveDelivered" => ShowsDelivery(t, tx.state)
     /\ tx.fn = "proveFailed" => ShowsSlashing(t, tx.state)
     /\ tx.fn # "proveAccepted" => PaymentHeld(t)

\* send: only what the simulation lets through is written to the chain.
Send ==
  /\ relayer.pc = "send"
  /\ Cardinality(sent) < MaxSent
  /\ IF Passes(relayer.tx)
     THEN relayer' = [relayer EXCEPT !.pc = "wait"] /\ sent' = sent \cup {relayer.tx}
     ELSE relayer' = NextRow /\ UNCHANGED sent
  /\ UNCHANGED <<vars, faults>>

\* A transaction is mined, and reverts if it has come too late.
Mine(tx) ==
  /\ tx \in sent
  /\ sent' = sent \ {tx}
  /\ IF Passes(tx) THEN Execute(tx) ELSE UNCHANGED vars
  /\ relayer' = IF relayer.pc = "wait" /\ relayer.tx = tx THEN NextRow ELSE relayer
  /\ UNCHANGED faults

-----------------------------------------------------------------------------
(* Faults                                                                  *)

Fault == faults < MaxFaults /\ faults' = faults + 1

\* A call to a node fails, or no receipt comes in time: the row is given up.
CallFails ==
  /\ Fault
  /\ relayer.pc \in {"fetch", "send", "wait"}
  /\ relayer' = NextRow
  /\ UNCHANGED <<vars, sent>>

\* The call for the rows or for a trade is outside the handler of a row: the tick ends.
TickFails ==
  /\ Fault
  /\ relayer.pc = "read"
  /\ relayer' = [relayer EXCEPT !.pc = "idle", !.rows = {}]
  /\ UNCHANGED <<vars, sent>>

\* inFlight and everything else is lost; what was sent stays sent.
Crash ==
  /\ Fault
  /\ relayer.pc # "down"
  /\ relayer' = [relayer EXCEPT !.pc = "down", !.rows = {}, !.status = "None", !.tx = NoTx]
  /\ UNCHANGED <<vars, sent>>

Restart ==
  /\ relayer.pc = "down"
  /\ relayer' = [relayer EXCEPT !.pc = "idle"]
  /\ UNCHANGED <<vars, sent, faults>>

-----------------------------------------------------------------------------
TickNext == StartTick \/ ReadTrade \/ FetchProofs \/ Send \/ EndTick

MineNext == \E tx \in sent : Mine(tx)

FaultNext == CallFails \/ TickFails \/ Crash

\* Everybody else.
OthersNext ==
  /\ SellerNext \/ FillNext \/ BeaconNext \/ SettleNext
  /\ now' <= relayer.clock + MaxOutage
  /\ UNCHANGED relayerVars

RelayerNext == TickNext \/ MineNext \/ FaultNext \/ Restart \/ OthersNext

RelayerSpec == RelayerInit /\ [][RelayerNext]_allVars

-----------------------------------------------------------------------------
(***************************************************************************)
(* What settleReal sends settles: a proof chosen from the state it fetched *)
(* passes the contract's checks as long as nobody settled the trade in     *)
(* between and the source is not left undrained.  The relayer's own        *)
(* conditions are never weaker than the market's, and with outages shorter *)
(* than the ring the root is still there.                                  *)
(***************************************************************************)
Undrained(tx) ==
  tx.fn = "proveDelivered" /\ ~Processed(tx.state.val[trades[tx.id].sourceIndex], tx.state)

ProofsPass ==
  relayer.pc = "send" /\ relayer.tx.fn # "refundExpired" =>
    LET tx == relayer.tx
    IN \/ Passes(tx)
       \/ trades[tx.id].status # relayer.status
       \/ Undrained(tx)

(***************************************************************************)
(* The relayer (docs: "our relayer does it automatically") never lets a    *)
(* buyer keep both the stake and the payment: none of its transactions     *)
(* refunds a trade whose request the consensus layer accepted, unless its  *)
(* source was slashed, provided it ticks often enough (MaxOutage).         *)
(***************************************************************************)
AcceptedNotRefunded ==
  [][\A id \in TradeIds :
       /\ sent' # sent
       /\ OwnRequestAccepted(id) /\ ~validators[trades[id].sourceIndex].slashed
       /\ IsOpen(id)
       => trades'[id].status # "Failed"]_allVars

(***************************************************************************)
(* The relayer does what is left to do: it never leaves a trade it looks   *)
(* at unproven, nor refunds it, while a root in the ring proves that the   *)
(* request was accepted (docs/PITCH.md: the window "can't expire while the *)
(* proof is unavailable", and the relayer relays it automatically).        *)
(* Where the source was slashed, leaving the trade to expire is harmless.  *)
(***************************************************************************)
Unproven(id) ==
  /\ trades[id].status = "RequestSubmitted"
  /\ relayer.pc = "fetch" /\ relayer.rows # {} /\ Current = id
  /\ relayer'.pc = "read" /\ faults' = faults

RelaysProvableAcceptance ==
  [][\A id \in TradeIds :
       Unproven(id) /\ ~validators[trades[id].sourceIndex].slashed => ~CanProveAccepted(id)]_allVars

(***************************************************************************)
(* Even where nobody but the relayer settles, and however its calls fail   *)
(* and its process restarts (finitely often), no payment stays in escrow.  *)
(***************************************************************************)
RelayerFairness ==
  /\ WF_allVars(BeaconNext /\ now' > now /\ now' <= relayer.clock + MaxOutage /\ UNCHANGED relayerVars)
  /\ \A v \in Validators : WF_allVars(Sweep(v) /\ UNCHANGED <<orderVars, tradeVars, eligibilityVars, relayerVars>>)
  /\ WF_allVars(TickNext)
  /\ WF_allVars(MineNext)
  /\ WF_allVars(Restart)

FairRelayerSpec == RelayerSpec /\ RelayerFairness

RelayerReleasesEscrow ==
  \A id \in TradeIds : IsOpen(id) ~> trades[id].status \in {"Delivered", "Failed"}
=============================================================================
