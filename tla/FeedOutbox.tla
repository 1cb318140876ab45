----------------------------- MODULE FeedOutbox -----------------------------
(***************************************************************************)
(* The durable feed outbox: the table usr.feed_outbox, the transactions    *)
(* that insert into it (post and follow mutations) and the consumer loop   *)
(* every API instance runs over it (EventDispatcher.consumeOutbox).        *)
(*                                                                         *)
(* An instance claims a batch of due rows, which leases them for a minute, *)
(* handles the batch's events concurrently and deletes each row or         *)
(* schedules its retry.  What can go wrong in between: the claim commits   *)
(* but its answer is lost, the statement that records the outcome fails,   *)
(* the process dies, or it is paused for longer than its own timeouts.     *)
(* All of these are counted against MaxFaults.                             *)
(*                                                                         *)
(* Time is kept as countdowns: row[e].wait is available_at - NOW(), floored *)
(* at zero, and task[i][e].left is what is left of the context deadline    *)
(* the instance works under.  Tick lets one unit pass, and cannot pass a   *)
(* deadline of a running instance: the contexts make the code return.      *)
(***************************************************************************)
EXTENDS Naturals, FiniteSets

CONSTANTS
  Events,          \* events that mutations can enqueue; a smaller number is
                   \* an earlier created_at
  Instances,       \* API processes, each running one consumer loop
  OutboxWorkers,   \* claim limit and size of a batch
  MaxAttempts,     \* outboxMaxAttempts
  BackoffExpCap,   \* the exponent of the backoff stops growing here
  LeaseTicks,      \* how far a claim pushes available_at
  ClaimTicks,      \* deadline of the claim statement
  HandlerTicks,    \* eventHandlerTimeout
  PersistTicks,    \* deadline of complete and fail
  Stalls,          \* may a process be paused past its deadlines?
  MaxFaults        \* bound: how many faults a behaviour may contain

ASSUME EventsAssumption == Events \subseteq Nat
ASSUME WorkersAssumption == OutboxWorkers \in Nat \ {0}
ASSUME AttemptsAssumption == MaxAttempts \in Nat \ {0}
\* The second part is arithmetic the proofs use: 2^n is a natural number.
ASSUME BackoffAssumption ==
  /\ BackoffExpCap \in Nat
  /\ \A n \in 0..BackoffExpCap : 2 ^ n \in Nat
ASSUME TicksAssumption ==
  /\ LeaseTicks \in Nat
  /\ ClaimTicks \in Nat
  /\ HandlerTicks \in Nat
  /\ PersistTicks \in Nat
\* 60 s of lease against 5 s to claim, 30 s to handle and 5 s to record.
ASSUME LeaseAssumption == LeaseTicks > ClaimTicks + HandlerTicks + PersistTicks
ASSUME FaultAssumption == MaxFaults \in Nat
ASSUME StallsAssumption == Stalls \in BOOLEAN

VARIABLES
  row,      \* the table: one row per event
  task,     \* task[i][e]: what instance i is doing with event e
  handled,  \* events for which HandleFeedEvent has returned nil (history)
  enabled,  \* enabled[i]: FanoutEnabled in i's settings snapshot
  up,       \* running instances
  stalled,  \* running instances that are paused
  faults    \* faults so far (bounded by MaxFaults)

vars == <<row, task, handled, enabled, up, stalled, faults>>

-----------------------------------------------------------------------------
(* absent: the mutation has not committed; gone: the row was deleted.      *)
RowStates == {"absent", "live", "dead", "gone"}
Row == [st : RowStates, attempts : Nat, wait : Nat]

(* handling: HandleFeedEvent runs; failing and completing: its result is   *)
(* known and waits to be recorded.  att is outboxEntry.Attempts, the value *)
(* the claim returned.                                                     *)
Phases == {"none", "handling", "failing", "completing"}
Task == [phase : Phases, att : Nat, left : Nat]

NoTask == [phase |-> "none", att |-> 0, left |-> 0]

TypeOK ==
  /\ row \in [Events -> Row]
  /\ task \in [Instances -> [Events -> Task]]
  /\ handled \subseteq Events
  /\ enabled \in [Instances -> BOOLEAN]
  /\ up \subseteq Instances
  /\ stalled \subseteq up
  /\ faults \in 0..MaxFaults

-----------------------------------------------------------------------------
Lesser(m, n) == IF m <= n THEN m ELSE n

Dec(n) == IF n = 0 THEN 0 ELSE n - 1

\* Seconds until the next attempt.  The five-minute cap of the code never
\* applies: the exponent stops at 8 and 2^8 s is 256 s.
Backoff(attempts) == 2 ^ Lesser(attempts, BackoffExpCap)

Stored(e) == row[e].st \in {"live", "dead"}

\* Mutant: a row whose attempts are used up is left to the dead letters, also
\* when its last attempt was never recorded.
ClaimableBelowCap ==
  {e \in Events : row[e].st = "live" /\ row[e].wait = 0 /\ row[e].attempts < MaxAttempts}

Claimable == {e \in Events : row[e].st = "live" /\ row[e].wait = 0}

\* ORDER BY created_at ... LIMIT: the oldest due rows, up to a batch.
Batches ==
  {S \in SUBSET Claimable :
     /\ S # {}
     /\ Cardinality(S) = Lesser(OutboxWorkers, Cardinality(Claimable))
     /\ \A e \in S, f \in Claimable \ S : e < f}

Idle(i) == \A e \in Events : task[i][e].phase = "none"

Active(i) == i \in up \ stalled

Fault ==
  /\ faults < MaxFaults
  /\ faults' = faults + 1

-----------------------------------------------------------------------------
Init ==
  /\ row = [e \in Events |-> [st |-> "absent", attempts |-> 0, wait |-> 0]]
  /\ task = [i \in Instances |-> [e \in Events |-> NoTask]]
  /\ handled = {}
  /\ enabled \in [Instances -> BOOLEAN]
  /\ up = Instances
  /\ stalled = {}
  /\ faults = 0

\* A post or follow mutation commits together with its outbox row.
Enqueue(e) ==
  /\ row[e].st = "absent"
  /\ row' = [row EXCEPT ![e].st = "live"]
  /\ UNCHANGED <<task, handled, enabled, up, stalled, faults>>

\* Mutant: a lease that covers the handler only.
LeaseForHandler(S) ==
  row' = [e \in Events |->
            IF e \in S
            THEN [st |-> row[e].st, attempts |-> row[e].attempts + 1,
                  wait |-> HandlerTicks]
            ELSE row[e]]

\* claim's UPDATE on the rows of batch S.
Lease(S) ==
  row' = [e \in Events |->
            IF e \in S
            THEN [st |-> row[e].st, attempts |-> row[e].attempts + 1,
                  wait |-> LeaseTicks]
            ELSE row[e]]

\* A ticker tick of the consumer loop: claim a batch and hand each entry to
\* its goroutine.  The loop waits for a batch before it claims the next one.
Claim(i) ==
  /\ Active(i)
  /\ enabled[i]
  /\ Idle(i)
  /\ \E S \in Batches :
       /\ Lease(S)
       /\ task' = [task EXCEPT ![i] =
            [e \in Events |->
               IF e \in S
               THEN [phase |-> "handling", att |-> row[e].attempts + 1,
                     left |-> ClaimTicks + HandlerTicks]
               ELSE NoTask]]
  /\ UNCHANGED <<handled, enabled, up, stalled, faults>>

\* The claim commits in the database but the loop only sees an error (the
\* connection or the five-second deadline): the rows stay leased, unattended.
ClaimLost(i) ==
  /\ Active(i)
  /\ enabled[i]
  /\ Idle(i)
  /\ Fault
  /\ \E S \in Batches : Lease(S)
  /\ UNCHANGED <<task, handled, enabled, up, stalled>>

\* A handler has returned: its result is to be recorded within a deadline.
Outcome(phase, t) == [phase |-> phase, att |-> t.att, left |-> PersistTicks]

\* The event was handled to the end.
HandleOk(i, e) ==
  /\ Active(i)
  /\ task[i][e].phase = "handling"
  /\ handled' = handled \cup {e}
  /\ task' = [task EXCEPT ![i][e] = Outcome("completing", task[i][e])]
  /\ UNCHANGED <<row, enabled, up, stalled, faults>>

\* Mutant: a failed event goes on to complete.
HandleErrorIgnored(i, e) ==
  /\ Active(i)
  /\ task[i][e].phase = "handling"
  /\ task' = [task EXCEPT ![i][e] = Outcome("completing", task[i][e])]
  /\ UNCHANGED <<row, handled, enabled, up, stalled, faults>>

\* The payload did not decode, the handler failed or its deadline passed.
HandleError(i, e) ==
  /\ Active(i)
  /\ task[i][e].phase = "handling"
  /\ task' = [task EXCEPT ![i][e] = Outcome("failing", task[i][e])]
  /\ UNCHANGED <<row, handled, enabled, up, stalled, faults>>

\* Mutant: the row is deleted whatever the result was.
CompleteAlways(i, e) ==
  /\ Active(i)
  /\ task[i][e].phase \in {"failing", "completing"}
  /\ row' = [row EXCEPT ![e].st = "gone"]
  /\ task' = [task EXCEPT ![i][e] = NoTask]
  /\ UNCHANGED <<handled, enabled, up, stalled, faults>>

\* DELETE ... WHERE id: whoever holds the lease by now.
Complete(i, e) ==
  /\ Active(i)
  /\ task[i][e].phase = "completing"
  /\ row' = [row EXCEPT ![e].st = "gone"]
  /\ task' = [task EXCEPT ![i][e] = NoTask]
  /\ UNCHANGED <<handled, enabled, up, stalled, faults>>

\* Mutants: one attempt too many; the attempt of the claim decides.
FailedLate(r, att) ==
  [st |-> IF r.attempts > MaxAttempts THEN "dead" ELSE "live",
   attempts |-> r.attempts, wait |-> Backoff(att)]

FailedByClaim(r, att) ==
  [st |-> IF att >= MaxAttempts THEN "dead" ELSE "live",
   attempts |-> r.attempts, wait |-> Backoff(att)]

\* The row fail writes: its backoff comes from the attempt the worker
\* claimed, the dead-letter decision from the attempts the row holds now.
Failed(r, att) ==
  [st |-> IF r.attempts >= MaxAttempts THEN "dead" ELSE "live",
   attempts |-> r.attempts, wait |-> Backoff(att)]

\* UPDATE ... WHERE id: no effect when the row is gone.
Fail(i, e) ==
  /\ Active(i)
  /\ task[i][e].phase = "failing"
  /\ row' = IF Stored(e)
            THEN [row EXCEPT ![e] = Failed(row[e], task[i][e].att)]
            ELSE row
  /\ task' = [task EXCEPT ![i][e] = NoTask]
  /\ UNCHANGED <<handled, enabled, up, stalled, faults>>

\* complete or fail returns an error, which is only logged.
PersistLost(i, e) ==
  /\ Active(i)
  /\ task[i][e].phase \in {"failing", "completing"}
  /\ Fault
  /\ task' = [task EXCEPT ![i][e] = NoTask]
  /\ UNCHANGED <<row, handled, enabled, up, stalled>>

\* The process dies between any two steps and takes its batch with it.  (An
\* orderly Close waits for the batch: that is the case of an idle instance.)
Crash(i) ==
  /\ i \in up
  /\ Fault
  /\ up' = up \ {i}
  /\ stalled' = stalled \ {i}
  /\ task' = [task EXCEPT ![i] = [e \in Events |-> NoTask]]
  /\ UNCHANGED <<row, handled, enabled>>

Restart(i) ==
  /\ i \in Instances \ up
  /\ up' = up \cup {i}
  /\ UNCHANGED <<row, task, handled, enabled, stalled, faults>>

\* The process is paused: the clock goes on, its deadlines do not bind it.
Stall(i) ==
  /\ Stalls
  /\ Active(i)
  /\ Fault
  /\ stalled' = stalled \cup {i}
  /\ UNCHANGED <<row, task, handled, enabled, up>>

Resume(i) ==
  /\ i \in stalled
  /\ stalled' = stalled \ {i}
  /\ UNCHANGED <<row, task, handled, enabled, up, faults>>

\* An operator's FanoutEnabled edit reaches the instance's snapshot.
SetFanout(i) ==
  /\ enabled' = [enabled EXCEPT ![i] = ~enabled[i]]
  /\ UNCHANGED <<row, task, handled, up, stalled, faults>>

Tick ==
  /\ \A i \in up \ stalled, e \in Events :
       task[i][e].phase # "none" => task[i][e].left > 0
  /\ row' = [e \in Events |-> [row[e] EXCEPT !.wait = Dec(row[e].wait)]]
  /\ task' = [i \in Instances |-> [e \in Events |->
                [task[i][e] EXCEPT !.left = Dec(task[i][e].left)]]]
  /\ UNCHANGED <<handled, enabled, up, stalled, faults>>

Work(i, e) ==
  \/ HandleOk(i, e) \/ HandleError(i, e)
  \/ Complete(i, e) \/ Fail(i, e) \/ PersistLost(i, e)

Control(i) ==
  \/ Claim(i) \/ ClaimLost(i)
  \/ Crash(i) \/ Restart(i) \/ Stall(i) \/ Resume(i) \/ SetFanout(i)

Next ==
  \/ \E e \in Events : Enqueue(e)
  \/ \E i \in Instances : Control(i)
  \/ \E i \in Instances, e \in Events : Work(i, e)
  \/ Tick

Spec == Init /\ [][Next]_vars

\* The ticker keeps firing, goroutines keep running, a dead process is
\* restarted and a paused one resumes.  Nothing makes a handler succeed.
Fairness ==
  /\ WF_vars(Tick)
  /\ \A i \in Instances :
       /\ WF_vars(Claim(i) \/ ClaimLost(i))
       /\ WF_vars(Restart(i))
       /\ WF_vars(Resume(i))
       /\ \A e \in Events : WF_vars(Work(i, e))

FairSpec == Spec /\ Fairness

-----------------------------------------------------------------------------
(* Once a mutation has committed, its feed event is never lost: the row is *)
(* still stored (due, leased or dead-lettered) unless the handler has run  *)
(* to the end for it, whatever crashed, timed out or was paused.           *)
NoEventLost ==
  \A e \in Events : row[e].st = "gone" => e \in handled

(* A dead-lettered row never comes back to life.  A paused worker that     *)
(* reports a failure late runs the same UPDATE with its ELSE NULL branch;  *)
(* the row's own attempt count, which never decreases, keeps it dead.      *)
DeadLetterFinal ==
  [][\A e \in Events : row[e].st = "dead" => row'[e].st \in {"dead", "gone"}]_vars

(* The lease outlives the worker: as long as no process is paused past its *)
(* deadlines, no two workers ever work on the same event, although neither *)
(* complete nor fail checks who holds the lease.                           *)
ExclusiveHandling ==
  \A e \in Events, i, j \in Instances :
    /\ task[i][e].phase # "none"
    /\ task[j][e].phase # "none"
    => i = j

(* Every attempt beyond the cap is paid for by a fault: an event is        *)
(* retried past outboxMaxAttempts only because an attempt went unrecorded. *)
AttemptsPaidFor ==
  \A e \in Events : row[e].attempts <= MaxAttempts + faults

(* If fan-out eventually stays enabled, every committed event is handled   *)
(* or dead-lettered in the end; none is retried for ever.                  *)
Settled(e) == row[e].st = "dead" \/ e \in handled

Settles ==
  (\A i \in Instances : <>[](enabled[i])) =>
    \A e \in Events : (row[e].st = "live") ~> Settled(e)

-----------------------------------------------------------------------------
(* The outbox implements EventDelivery: leases, attempts, batches and      *)
(* instances are invisible to the services that enqueue events.            *)
Status(e) ==
  CASE row[e].st = "absent" -> "absent"
    [] row[e].st = "live"   -> "pending"
    [] row[e].st = "dead"   -> "parked"
    [] row[e].st = "gone"   -> "done"

Delivery == INSTANCE EventDelivery
              WITH status <- [e \in Events |-> Status(e)], delivered <- handled

ImplementsDelivery == Delivery!Spec
=============================================================================
