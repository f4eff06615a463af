--------------------------- MODULE MCRemoteBeacon ---------------------------
(* A pair to be accepted into the target of one that is pending already.   *)
EXTENDS RemoteBeacon

\* Validator 2 consolidates into 3 already, and slots 1 and 2 are empty.
BaseState(slot) ==
  [slot |-> slot, val |-> [v \in Validators |-> IF v = 2 THEN "exiting" ELSE "active"],
   pend |-> <<[source |-> 2, target |-> 3]>>]

MCBaseChain == <<BaseState(0), BaseState(3)>>

MCPairs == {[source |-> 1, target |-> 3], [source |-> 2, target |-> 3]}

Ask(by, kind, validators, pending) ==
  [by |-> by, kind |-> kind, validators |-> validators, pending |-> pending]

\* Fill proofs, the proofs of the first checkpoint, a list, and the time.
MCRequests ==
  {Ask("service", "proofs", <<1, 3>>, {}),
   Ask("page", "proofs", <<1>>, {[source |-> 1, target |-> 3]}),
   Ask("service", "list", <<1, 2>>, {}),
   Ask("service", "info", <<>>, {})}

MCRetries == [service |-> 1, page |-> 0]

\* A state with everybody exiting and nothing pending.
MCFakeStates == {[slot |-> 1, val |-> [v \in Validators |-> "exiting"], pend |-> <<>>]}
=============================================================================
