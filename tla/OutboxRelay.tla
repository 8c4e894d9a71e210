----------------------------- MODULE OutboxRelay -----------------------------
(* What a relay promises about an outbox: a row that was committed stays     *)
(* pending until its event was offered to the broker at least once, or until *)
(* the relay gives up; sent and dead are final.  OrderSaga uses the outbox   *)
(* under this contract.                                                      *)
CONSTANT Events
VARIABLES
    stage,    \* stage[e]: none, pending, sent or dead
    offered   \* events the broker has accepted at least once

vars == <<stage, offered>>

Init == stage = [e \in Events |-> "none"] /\ offered = {}

Announce(e) ==
    /\ stage[e] = "none"
    /\ stage' = [stage EXCEPT ![e] = "pending"]
    /\ UNCHANGED offered

Offer(e) ==
    /\ stage[e] = "pending"
    /\ offered' = offered \cup {e}
    /\ UNCHANGED stage

Settle(e) ==
    /\ stage[e] = "pending"
    /\ \E s \in {"sent", "dead"} :
          /\ s = "sent" => e \in offered
          /\ stage' = [stage EXCEPT ![e] = s]
    /\ UNCHANGED offered

Next == \E e \in Events : Announce(e) \/ Offer(e) \/ Settle(e)

Spec == Init /\ [][Next]_vars
=============================================================================
