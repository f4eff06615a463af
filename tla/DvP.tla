-------------------------------- MODULE DvP --------------------------------
(***************************************************************************)
(* What the market promises, without proofs, clocks or the consensus       *)
(* layer's queues: delivery versus payment.  A deal locks a stake and a    *)
(* payment; the payment goes to the seller only once the stake is with the *)
(* validator the buyer chose, or else back to the buyer; and it goes once. *)
(***************************************************************************)
EXTENDS Integers

CONSTANTS
  Deals,      \* identifiers of deals
  Stakes,     \* validators whose stake is sold, and those that receive it
  Parties,    \* accounts
  NoStake     \* "moved nowhere"

VARIABLES
  deal,       \* the terms and the state of each deal
  purse,      \* what each party holds
  escrow,     \* what the market holds
  stakeWith   \* the validator a stake was moved to

dvpVars == <<deal, purse, escrow, stakeWith>>

NoDeal == [state |-> "none"]

Terms ==
  [source : Stakes, target : Stakes, seller : Parties, buyer : Parties,
   payment : Nat, state : {"locked", "paid", "refunded"}]

Locked(d) == deal[d].state = "locked"

Init ==
  /\ deal = [d \in Deals |-> NoDeal]
  /\ purse \in [Parties -> Nat]
  /\ escrow = 0
  /\ stakeWith = [s \in Stakes |-> NoStake]

\* New terms, for a stake in no locked deal.  The payment comes from a party's
\* purse or from outside (wrapped ether).
Lock(d) ==
  LET terms == deal'[d]
  IN /\ deal[d] = NoDeal
     /\ deal' = [deal EXCEPT ![d] = terms]
     /\ terms \in Terms
     /\ terms.state = "locked"
     /\ \A e \in Deals : Locked(e) => deal[e].source # terms.source
     /\ escrow' = escrow + terms.payment
     /\ \/ purse' = purse
        \/ \E p \in Parties :
             /\ purse[p] >= terms.payment
             /\ purse' = [purse EXCEPT ![p] = @ - terms.payment]
     /\ stakeWith' = stakeWith

Settle(d, outcome, payee) ==
  /\ deal' = [deal EXCEPT ![d].state = outcome]
  /\ escrow' = escrow - deal[d].payment
  /\ purse' = [purse EXCEPT ![payee] = @ + deal[d].payment]
  /\ stakeWith' = stakeWith

Pay(d) ==
  /\ Locked(d)
  /\ stakeWith[deal[d].source] = deal[d].target
  /\ Settle(d, "paid", deal[d].seller)

Refund(d) == Locked(d) /\ Settle(d, "refunded", deal[d].buyer)

\* Stakes move at most once, and never back.
Move ==
  /\ stakeWith' \in [Stakes -> Stakes \cup {NoStake}]
  /\ \A s \in Stakes : stakeWith[s] # NoStake => stakeWith'[s] = stakeWith[s]
  /\ UNCHANGED <<deal, purse, escrow>>

Next == Move \/ \E d \in Deals : Lock(d) \/ Pay(d) \/ Refund(d)

Spec == Init /\ [][Next]_dvpVars
=============================================================================
