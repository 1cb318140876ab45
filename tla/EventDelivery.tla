--------------------------- MODULE EventDelivery ---------------------------
(***************************************************************************)
(* What the durable feed outbox promises to the services that write to it, *)
(* without leases, attempts, processes or time: an event published by a    *)
(* committed mutation is handed to the feed event handler at least once    *)
(* before it disappears, or it is parked where an operator can find it.    *)
(* Deliveries may repeat, also after the event was already finished.       *)
(***************************************************************************)
CONSTANT Events        \* the feed events mutations can publish

VARIABLES
  status,              \* what has become of each event
  delivered            \* events the handler has accepted at least once

vars == <<status, delivered>>

Statuses == {"absent", "pending", "parked", "done"}

Init ==
  /\ status = [e \in Events |-> "absent"]
  /\ delivered = {}

\* The mutation that caused the event committed.
Publish(e) ==
  /\ status[e] = "absent"
  /\ status' = [status EXCEPT ![e] = "pending"]
  /\ UNCHANGED delivered

\* The handler accepted the event.  A late duplicate is allowed.
Deliver(e) ==
  /\ status[e] # "absent"
  /\ delivered' = delivered \cup {e}
  /\ UNCHANGED status

\* The event is forgotten, which only a delivered event may be.
Finish(e) ==
  /\ status[e] \in {"pending", "parked"}
  /\ e \in delivered
  /\ status' = [status EXCEPT ![e] = "done"]
  /\ UNCHANGED delivered

\* Delivery is given up and the event is kept for an operator.
Park(e) ==
  /\ status[e] = "pending"
  /\ status' = [status EXCEPT ![e] = "parked"]
  /\ UNCHANGED delivered

Next == \E e \in Events : Publish(e) \/ Deliver(e) \/ Finish(e) \/ Park(e)

Spec == Init /\ [][Next]_vars
=============================================================================
