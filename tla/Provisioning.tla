----------------------------- MODULE Provisioning -----------------------------
(***************************************************************************)
(* A server and the recommender beside it: provisioning of the namespace   *)
(* at boot, the generation that stamps the behaviour events, the monitor   *)
(* that probes Codohue, and what /health says of it.                       *)
(*                                                                         *)
(* Codohue is external: a namespace that may be deleted and made again,    *)
(* with a new generation, and a consumer of the events, which refuses      *)
(* those of another generation and, once the namespace was made again,     *)
(* those that bear none.                                                   *)
(***************************************************************************)
EXTENDS Naturals, Sequences, FiniteSets

CONSTANTS
  Servers,     \* server processes
  Watched,     \* bound: those of them that are probed and asked for /health
  MaxLen,      \* eventsStreamMaxLen
  MaxFaults,   \* bound: requests to Codohue's admin plane that fail
  MaxRemakes,  \* bound: deletions of the namespace
  MaxEvents    \* bound: behaviour events

VARIABLES
  namespace,   \* Codohue's: its generation, 0 while there is none, and whether
               \* it embeds the catalog
  made,        \* the generation made last
  reachable,   \* Codohue answers
  server,      \* each server: where it is, generation, circuit, status
  answer,      \* the /health request of each server that is being answered; open:
               \* the circuit was found open, see HealthHonest (history)
  events,      \* the stream codohue:events
  refused,     \* events Codohue refused (history)
  published, faults

codohue == <<namespace, made>>
bus == <<events, refused, published>>
vars == <<codohue, reachable, server, answer, bus, faults>>

None == 0
NoReason == ""
Off == [state |-> "off", reason |-> NoReason]
NoAnswer == [pc |-> "idle", state |-> "off", reason |-> NoReason, torn |-> FALSE,
             open |-> FALSE]

\* failed: this boot could not provision (history).
Down == [pc |-> "down", result |-> None, generation |-> None, open |-> FALSE,
         status |-> Off, failed |-> FALSE]

Init ==
  /\ namespace \in {[generation |-> None, catalog |-> FALSE], [generation |-> 1, catalog |-> TRUE]}
  /\ made = namespace.generation
  /\ reachable \in BOOLEAN
  /\ server = [s \in Servers |-> Down]
  /\ answer = [s \in Servers |-> NoAnswer]
  /\ events = <<>>
  /\ refused = {}
  /\ published = 0
  /\ faults = 0

At(s, pc) == server[s].pc = pc
Fault == faults < MaxFaults /\ faults' = faults + 1
Update(s, record) == server' = [server EXCEPT ![s] = record]

-----------------------------------------------------------------------------
(* Boot.                                                                   *)

\* The admin plane upserts the namespace: one that is not there is made.
Upserted ==
  IF namespace.generation = None THEN [generation |-> made + 1, catalog |-> FALSE] ELSE namespace

Begin(s) ==
  /\ At(s, "down")
  /\ Update(s, [Down EXCEPT !.pc = "namespace"])
  /\ UNCHANGED <<codohue, reachable, answer, bus, faults>>

\* ensureCodohueNamespaceConfig failed: logged, and the boot goes on without a
\* generation.
Unprovisioned(s) == [server[s] EXCEPT !.pc = "client", !.failed = TRUE, !.result = None]

\* PUT /namespaces/{ns}; a request that fails may have been applied.
PutNamespace(s) ==
  /\ At(s, "namespace")
  /\ \/ /\ reachable
        /\ namespace' = Upserted /\ made' = IF Upserted.generation > made THEN Upserted.generation ELSE made
        /\ Update(s, [server[s] EXCEPT !.pc = "catalog", !.result = Upserted.generation])
        /\ UNCHANGED faults
     \/ /\ reachable /\ Fault
        /\ namespace' = Upserted /\ made' = IF Upserted.generation > made THEN Upserted.generation ELSE made
        /\ Update(s, Unprovisioned(s))
     \/ ~reachable /\ Update(s, Unprovisioned(s)) /\ UNCHANGED <<codohue, faults>>
  /\ UNCHANGED <<reachable, answer, bus>>

\* Mutant: the result is returned whatever became of the second request.
EnableCatalogOrNot(s) ==
  /\ At(s, "catalog")
  /\ \/ /\ reachable /\ namespace.generation # None
        /\ namespace' = [namespace EXCEPT !.catalog = TRUE]
        /\ UNCHANGED faults
     \/ (~reachable \/ namespace.generation = None) /\ UNCHANGED <<namespace, faults>>
     \/ Fault /\ UNCHANGED namespace
  /\ Update(s, [server[s] EXCEPT !.pc = "client", !.generation = server[s].result])
  /\ UNCHANGED <<made, reachable, answer, bus>>

\* PUT /namespaces/{ns}/catalog: if it fails there is no result, and no
\* generation, though the namespace is there.
EnableCatalog(s) ==
  /\ At(s, "catalog")
  /\ \/ /\ reachable /\ namespace.generation # None
        /\ namespace' = [namespace EXCEPT !.catalog = TRUE]
        /\ Update(s, [server[s] EXCEPT !.pc = "client", !.generation = server[s].result])
        /\ UNCHANGED faults
     \/ /\ ~reachable \/ namespace.generation = None
        /\ Update(s, Unprovisioned(s)) /\ UNCHANGED <<namespace, faults>>
     \/ Fault /\ Update(s, Unprovisioned(s)) /\ UNCHANGED namespace
  /\ UNCHANGED <<made, reachable, answer, bus>>

\* What a probe finds: Ping, a read of the namespace.  It needs no trial of the
\* breaker, and tells it how it went.
Answers == reachable /\ namespace.generation # None

\* codohueStatus.set stores the state, and then the reason.
SetState(s, record) ==
  [record EXCEPT !.status.state = IF Answers THEN "active" ELSE "degraded",
                 !.open = IF Answers THEN FALSE ELSE @]

\* wireCodohue: the client is wired whether or not Codohue answers.
WireCodohue(s) ==
  /\ At(s, "client")
  /\ Update(s, SetState(s, [server[s] EXCEPT !.pc = "reason"]))
  /\ UNCHANGED <<codohue, reachable, answer, bus, faults>>

\* Each tick of the monitor.
Probe(s) ==
  /\ s \in Watched /\ At(s, "serving")
  /\ Update(s, SetState(s, [server[s] EXCEPT !.pc = "reason"]))
  /\ UNCHANGED <<codohue, reachable, answer, bus, faults>>

SetReason(s) ==
  /\ At(s, "reason")
  /\ Update(s, [server[s] EXCEPT !.pc = "serving",
       !.status.reason = IF server[s].status.state = "active" THEN NoReason ELSE "unreachable"])
  /\ UNCHANGED <<codohue, reachable, answer, bus, faults>>

Stop(s) ==
  /\ At(s, "serving") /\ answer[s].pc = "idle"
  /\ Update(s, Down)
  /\ UNCHANGED <<codohue, reachable, answer, bus, faults>>

Serving(s) == server[s].pc \in {"serving", "reason"}

-----------------------------------------------------------------------------
(* Traffic.                                                                *)

\* Enough calls in a row fail; or, after the cooldown, a trial is answered.
Trip(s) ==
  /\ s \in Watched /\ Serving(s)
  /\ server[s].open # ~Answers
  /\ Update(s, [server[s] EXCEPT !.open = ~Answers])
  /\ UNCHANGED <<codohue, reachable, answer, bus, faults>>

Stamp(s) == [stamp |-> server[s].generation, failed |-> server[s].failed]

\* cappedXAdder: the oldest events make room for the newest.
XAdd(e) == events' = IF Len(events) < MaxLen THEN Append(events, e) ELSE Append(Tail(events), e)

PublishBehaviorEvent(s) ==
  /\ Serving(s)
  /\ published < MaxEvents /\ published' = published + 1
  /\ XAdd(Stamp(s))
  /\ UNCHANGED <<codohue, reachable, server, answer, refused, faults>>

\* Codohue: an event of this generation, or of none for the first.
Accepts(e) ==
  \/ e.stamp = namespace.generation
  \/ e.stamp = None /\ namespace.generation = 1

Consume ==
  /\ reachable /\ events # <<>>
  /\ events' = Tail(events)
  /\ refused' = IF Accepts(Head(events)) THEN refused
                ELSE refused \cup {[now |-> namespace.generation, event |-> Head(events)]}
  /\ UNCHANGED <<codohue, reachable, server, answer, published, faults>>

Turn ==
  /\ reachable' = ~reachable
  /\ UNCHANGED <<codohue, server, answer, bus, faults>>

\* An operator deletes the namespace; the next boot makes it again.
DeleteNamespace ==
  /\ reachable /\ namespace.generation # None /\ made < 1 + MaxRemakes
  /\ namespace' = [generation |-> None, catalog |-> FALSE]
  /\ UNCHANGED <<made, reachable, server, answer, bus, faults>>

-----------------------------------------------------------------------------
(* codohueStatus.get, for /health.                                         *)

LoadState(s) ==
  /\ s \in Watched /\ Serving(s) /\ answer[s].pc = "idle"
  /\ answer' = [answer EXCEPT ![s] =
       [NoAnswer EXCEPT !.pc = "state", !.state = server[s].status.state,
                        !.torn = At(s, "reason")]]
  /\ UNCHANGED <<codohue, reachable, server, bus, faults>>

\* A probe that is storing its outcome tears the answer.
LoadReason(s) ==
  /\ answer[s].pc = "state"
  /\ answer' = [answer EXCEPT ![s].pc = "reason", ![s].reason = server[s].status.reason,
       ![s].torn = @ \/ server[s].status.state # answer[s].state \/ At(s, "reason")]
  /\ UNCHANGED <<codohue, reachable, server, bus, faults>>

\* Mutant: the outcome of the last probe is the answer.
LoadCircuitNot(s) ==
  /\ answer[s].pc = "reason"
  /\ answer' = [answer EXCEPT ![s].pc = "told",
                              ![s].open = answer[s].state = "active" /\ server[s].open]
  /\ UNCHANGED <<codohue, reachable, server, bus, faults>>

\* The circuit is asked when the state is active; if it is open, it overrides it.
LoadCircuit(s) ==
  /\ answer[s].pc = "reason"
  /\ answer' = [answer EXCEPT ![s] =
       IF @.state = "active" /\ server[s].open
       THEN [@ EXCEPT !.pc = "told", !.open = TRUE, !.state = "degraded", !.reason = "circuit open"]
       ELSE [@ EXCEPT !.pc = "told"]]
  /\ UNCHANGED <<codohue, reachable, server, bus, faults>>

Answered(s) ==
  /\ answer[s].pc = "told"
  /\ answer' = [answer EXCEPT ![s] = NoAnswer]
  /\ UNCHANGED <<codohue, reachable, server, bus, faults>>

HealthCheck(s) == LoadState(s) \/ LoadReason(s) \/ LoadCircuit(s) \/ Answered(s)

-----------------------------------------------------------------------------
Next ==
  \/ \E s \in Servers :
       \/ Begin(s) \/ PutNamespace(s) \/ EnableCatalog(s) \/ WireCodohue(s)
       \/ Probe(s) \/ SetReason(s) \/ Stop(s) \/ Trip(s) \/ PublishBehaviorEvent(s)
       \/ HealthCheck(s)
  \/ Consume \/ Turn \/ DeleteNamespace

Spec == Init /\ [][Next]_vars

-----------------------------------------------------------------------------
(* Codohue refuses an event only if the namespace is gone, or was made     *)
(* again since the server that published it provisioned, or if the server  *)
(* could not provision and the namespace is not the first.                 *)
EventsAccepted ==
  \A r \in refused :
    \/ r.now = None
    \/ r.event.stamp # None /\ r.now > r.event.stamp
    \/ r.event.failed /\ r.now > 1

(* A server that knows its generation has had the catalog embedded: as     *)
(* long as the namespace is that one, posts it ingests become vectors.     *)
EmbedsWhatItStamps ==
  \A s \in Servers :
    (server[s].generation # None /\ server[s].generation = namespace.generation)
      => namespace.catalog

(* /health gives a reason if and only if it says degraded, unless a probe  *)
(* stored its outcome while the answer was put together; and whatever the  *)
(* last probe found, it never says active of a circuit that was open when  *)
(* the answer came to ask it.                                              *)
HealthHonest ==
  \A s \in Servers : answer[s].pc = "told" =>
    /\ answer[s].open => answer[s].state # "active"
    /\ ~answer[s].torn => (answer[s].state = "degraded" <=> answer[s].reason # NoReason)

ProvisioningHonest == EventsAccepted /\ EmbedsWhatItStamps /\ HealthHonest
=============================================================================
