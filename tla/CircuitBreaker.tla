---------------------------- MODULE CircuitBreaker ----------------------------
(***************************************************************************)
(* The circuit breaker in front of the Codohue recommender.  It has no     *)
(* lock: every request goroutine works on two atomics, failures and        *)
(* openedAt, and any other goroutine can move between two of its           *)
(* operations.  A request passes allow, is sent, and hands its outcome to  *)
(* observe; the health probe (Ping) is sent whatever allow would say.      *)
(*                                                                         *)
(* An outcome is what tripsBreaker makes of it: "failed" for a transport   *)
(* error, a 5xx and the answers that condemn the credential or the         *)
(* namespace, "answered" for a result and the other 4xx, "cancelled" when  *)
(* the caller hung up.                                                     *)
(***************************************************************************)
EXTENDS Naturals

CONSTANTS
  Callers,       \* request goroutines
  Threshold,     \* breakerThreshold
  Cooldown,      \* breakerCooldown
  Slack,         \* bound: how long past the cooldown the clock is followed
  MaxFailures    \* bound: failed requests per behaviour

VARIABLES
  failures,      \* consecutive failures; it is compared with Threshold only
                 \* and kept at Threshold once it gets there
  openedAt,      \* when the circuit opened or admitted its last trial, 0 if
                 \* it is closed
  call,          \* where each request is
  clock,         \* b.now()
  serving,       \* does Codohue answer?
  failed,        \* failed requests so far (bounded by MaxFailures)
  outage         \* how often the circuit has opened (history)

vars == <<failures, openedAt, call, clock, serving, failed, outage>>

(* checking, stamping, swapping: in allow, with the openedAt it loaded and *)
(* the time it is about to stamp; sent: the request is out, as the trial   *)
(* of an outage or as an ordinary request (trial = 0); the rest: in        *)
(* observe.  outcome is kept while the circuit is being closed.            *)
Pcs == {"idle", "checking", "stamping", "swapping", "sent", "resetting",
        "closing", "counting", "opening", "tripping"}
Outcomes == {"none", "answered", "cancelled"}
Call == [pc : Pcs, loaded : Nat, stamp : Nat, trial : Nat, outcome : Outcomes]

NoCall == [pc |-> "idle", loaded |-> 0, stamp |-> 0, trial |-> 0, outcome |-> "none"]

TypeOK ==
  /\ failures \in 0..Threshold
  /\ openedAt \in Nat
  /\ call \in [Callers -> Call]
  /\ clock \in Nat \ {0}
  /\ serving \in BOOLEAN
  /\ failed \in 0..MaxFailures
  /\ outage \in Nat

Init ==
  /\ failures = 0
  /\ openedAt = 0
  /\ call = [c \in Callers |-> NoCall]
  /\ clock = 1
  /\ serving \in BOOLEAN
  /\ failed = 0
  /\ outage = 0

At(c, pc) == call[c].pc = pc

Become(c, r) == call' = [call EXCEPT ![c] = r]

-----------------------------------------------------------------------------
(* allow                                                                   *)

Load(c) ==
  /\ At(c, "idle")
  /\ \/ openedAt = 0 /\ Become(c, [NoCall EXCEPT !.pc = "sent"])
     \/ /\ openedAt # 0
        /\ Become(c, [NoCall EXCEPT !.pc = "checking", !.loaded = openedAt])
  /\ UNCHANGED <<failures, openedAt, clock, serving, failed, outage>>

\* ErrUnavailable while the cooldown runs.
Check(c) ==
  /\ At(c, "checking")
  /\ \/ clock < call[c].loaded + Cooldown /\ Become(c, NoCall)
     \/ /\ clock >= call[c].loaded + Cooldown
        /\ Become(c, [call[c] EXCEPT !.pc = "stamping"])
  /\ UNCHANGED <<failures, openedAt, clock, serving, failed, outage>>

\* The second b.now(), an argument of the swap.
Stamp(c) ==
  /\ At(c, "stamping")
  /\ Become(c, [call[c] EXCEPT !.pc = "swapping", !.stamp = clock])
  /\ UNCHANGED <<failures, openedAt, clock, serving, failed, outage>>

\* Mutant: a plain Store.
SwapBlindly(c) ==
  /\ At(c, "swapping")
  /\ openedAt' = call[c].stamp
  /\ Become(c, [call[c] EXCEPT !.pc = "sent", !.trial = outage])
  /\ UNCHANGED <<failures, clock, serving, failed, outage>>

\* openedAt.CompareAndSwap(opened, now): who swaps is the trial.
Swap(c) ==
  /\ At(c, "swapping")
  /\ \/ /\ openedAt = call[c].loaded
        /\ openedAt' = call[c].stamp
        /\ Become(c, [call[c] EXCEPT !.pc = "sent", !.trial = outage])
     \/ /\ openedAt # call[c].loaded
        /\ Become(c, NoCall)
        /\ UNCHANGED openedAt
  /\ UNCHANGED <<failures, clock, serving, failed, outage>>

\* Ping asks nobody.
Ping(c) ==
  /\ At(c, "idle")
  /\ Become(c, [NoCall EXCEPT !.pc = "sent"])
  /\ UNCHANGED <<failures, openedAt, clock, serving, failed, outage>>

-----------------------------------------------------------------------------
(* The request, and observe.                                               *)

Answer(c) ==
  /\ At(c, "sent")
  /\ serving
  /\ Become(c, [call[c] EXCEPT !.pc = "resetting", !.outcome = "answered"])
  /\ UNCHANGED <<failures, openedAt, clock, serving, failed, outage>>

Cancel(c) ==
  /\ At(c, "sent")
  /\ Become(c, [call[c] EXCEPT !.pc = "resetting", !.outcome = "cancelled"])
  /\ UNCHANGED <<failures, openedAt, clock, serving, failed, outage>>

Error(c) ==
  /\ At(c, "sent")
  /\ ~serving
  /\ failed < MaxFailures
  /\ failed' = failed + 1
  /\ Become(c, [call[c] EXCEPT !.pc = "counting"])
  /\ UNCHANGED <<failures, openedAt, clock, serving, outage>>

\* failures.Store(0)
Reset(c) ==
  /\ At(c, "resetting")
  /\ failures' = 0
  /\ Become(c, [call[c] EXCEPT !.pc = "closing"])
  /\ UNCHANGED <<openedAt, clock, serving, failed, outage>>

\* Mutant: the second store is missing.
CloseNever(c) ==
  /\ At(c, "closing")
  /\ Become(c, NoCall)
  /\ UNCHANGED <<failures, openedAt, clock, serving, failed, outage>>

\* openedAt.Store(0)
Close(c) ==
  /\ At(c, "closing")
  /\ openedAt' = 0
  /\ Become(c, NoCall)
  /\ UNCHANGED <<failures, clock, serving, failed, outage>>

\* failures.Add(1)
Count(c) ==
  /\ At(c, "counting")
  /\ \/ failures + 1 < Threshold /\ failures' = failures + 1 /\ Become(c, NoCall)
     \/ /\ failures + 1 >= Threshold
        /\ failures' = Threshold
        /\ Become(c, [call[c] EXCEPT !.pc = "opening"])
  /\ UNCHANGED <<openedAt, clock, serving, failed, outage>>

\* b.now(), an argument of the swap.
Clock(c) ==
  /\ At(c, "opening")
  /\ Become(c, [call[c] EXCEPT !.pc = "tripping", !.stamp = clock])
  /\ UNCHANGED <<failures, openedAt, clock, serving, failed, outage>>

\* openedAt.CompareAndSwap(0, now): only from closed.
Open(c) ==
  /\ At(c, "tripping")
  /\ Become(c, NoCall)
  /\ \/ openedAt = 0 /\ openedAt' = call[c].stamp /\ outage' = outage + 1
     \/ openedAt # 0 /\ UNCHANGED <<openedAt, outage>>
  /\ UNCHANGED <<failures, clock, serving, failed>>

-----------------------------------------------------------------------------
\* Time is followed while the circuit is open: nothing reads it otherwise but
\* Clock, which only stores it.
Tick ==
  /\ openedAt # 0
  /\ clock < openedAt + Cooldown + Slack
  /\ clock' = clock + 1
  /\ UNCHANGED <<failures, openedAt, call, serving, failed, outage>>

Outage ==
  /\ serving' = ~serving
  /\ UNCHANGED <<failures, openedAt, call, clock, failed, outage>>

Allow(c) == Load(c) \/ Check(c) \/ Stamp(c) \/ Swap(c)

Observe(c) ==
  Answer(c) \/ Error(c) \/ Reset(c) \/ Close(c) \/ Count(c) \/ Clock(c) \/ Open(c)

Next ==
  \/ \E c \in Callers : Allow(c) \/ Ping(c) \/ Cancel(c) \/ Observe(c)
  \/ Tick
  \/ Outage

Spec == Init /\ [][Next]_vars

\* Requests keep coming, goroutines run and time passes; no caller has to hang
\* up, and the health probe is not counted on.
FairSpec ==
  /\ Spec
  /\ WF_vars(Tick)
  /\ \A c \in Callers : WF_vars(Allow(c)) /\ WF_vars(Observe(c))

-----------------------------------------------------------------------------
Trials(n) == {c \in Callers : call[c].pc = "sent" /\ call[c].trial = n}

(* While the circuit stays open it lets one trial through per cooldown,    *)
(* however many requests find the cooldown elapsed at once, and however    *)
(* late one of them swaps: two trials of one outage that are out together  *)
(* were stamped at least a cooldown apart.                                 *)
TrialsSpaced ==
  \A n \in 1..outage : \A c, d \in Trials(n) :
    c # d => \/ call[c].stamp >= call[d].stamp + Cooldown
             \/ call[d].stamp >= call[c].stamp + Cooldown

(* When Codohue has come back for good, the circuit closes for good: the   *)
(* trials find out, no late failure leaves it open for ever.               *)
Recovers == (<>[]serving) => <>[](openedAt = 0)
=============================================================================
