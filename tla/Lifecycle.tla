------------------------------ MODULE Lifecycle ------------------------------
(***************************************************************************)
(* One process of the API from its boot to its exit: what it opens and in  *)
(* which order, the requests it serves, the goroutine that consumes the    *)
(* outbox, the monitor of Codohue, and the order in which a shutdown stops *)
(* and closes them.                                                        *)
(***************************************************************************)
EXTENDS Naturals, Sequences

CONSTANTS
  Requests,      \* requests that may be under way together
  EventsRedis,   \* Codohue has a Redis of its own
  Codohue        \* CODOHUE_ENABLED

VARIABLES
  boot,          \* the step of New that is next, or how New ended
  stop,          \* the step of Shutdown that is next
  open,          \* the stores that are open
  listening,     \* the HTTP server accepts connections
  request,       \* is each request under way?
  consumer,      \* the goroutine consumeOutbox
  monitor,       \* the goroutine of startCodohueMonitor
  status         \* what /health says of Codohue

vars == <<boot, stop, open, listening, request, consumer, monitor, status>>

\* The steps of New that open or start something or may fail; setupContexts
\* is the ones from "infrastructure" to "codohue".
Setup == <<"pool", "redis", "events", "jwt", "infrastructure", "contexts", "feed",
           "codohue", "root", "server">>
Steps == {Setup[i] : i \in DOMAIN Setup}
After(step) == LET i == CHOOSE i \in DOMAIN Setup : Setup[i] = step IN
               IF i = Len(Setup) THEN "done" ELSE Setup[i + 1]

TypeOK ==
  /\ boot \in Steps \cup {"done", "failed"}
  /\ stop \in {"no", "streams", "http", "drain", "redis", "events", "pool", "exited"}
  /\ open \subseteq {"pool", "redis", "events"}
  /\ listening \in BOOLEAN
  /\ request \in [Requests -> BOOLEAN]
  /\ consumer \in {"none", "idle", "batch", "stopped"}
  /\ monitor \in {"none", "running", "done"}
  /\ status \in {"off", "active", "degraded"}

Init ==
  /\ boot = "pool"
  /\ stop = "no"
  /\ open = {}
  /\ listening = FALSE
  /\ request = [r \in Requests |-> FALSE]
  /\ consumer = "none"
  /\ monitor = "none"
  /\ status = "off"

Alive == stop # "exited"
Opened == {"pool", "redis"} \cup (IF Codohue /\ EventsRedis THEN {"events"} ELSE {})

-----------------------------------------------------------------------------
(* New.                                                                    *)

Done(step) == boot = step /\ stop = "no" /\ boot' = After(step)

\* setupDatabase, setupRedis: connected and pinged.
SetupStore(store) ==
  /\ store \in {"pool", "redis"}
  /\ Done(store)
  /\ open' = open \cup {store}
  /\ UNCHANGED <<stop, listening, request, consumer, monitor, status>>

\* setupCodohueEventsRedis: a ping that fails changes nothing.
SetupEventsRedis ==
  /\ Done("events")
  /\ open' = IF Codohue /\ EventsRedis THEN open \cup {"events"} ELSE open
  /\ UNCHANGED <<stop, listening, request, consumer, monitor, status>>

Prepare(step) == Done(step) /\ UNCHANGED <<stop, open, listening, request, consumer, monitor, status>>

\* A secret, an issuer, an audience and a lifetime are configured.
SetupJWT == Prepare("jwt")

\* The storage, whose health is probed, and the mailer.
SetupInfrastructure == Prepare("infrastructure")

\* setupUserContext, setupStorageContext, setupPostContext: see the modules
\* of the components.
SetupContexts == Prepare("contexts")

\* SetupFeedContext: the consumer of the outbox runs from here on.
SetupFeedContext ==
  /\ Done("feed")
  /\ consumer' = "idle"
  /\ UNCHANGED <<stop, open, listening, request, monitor, status>>

\* wireCodohue: the probe classifies, and never fails the boot.
WireCodohue ==
  /\ Done("codohue")
  /\ IF Codohue THEN monitor' = "running" /\ status' \in {"active", "degraded"}
     ELSE UNCHANGED <<monitor, status>>
  /\ UNCHANGED <<stop, open, listening, request, consumer>>

\* bootstrapRootUser: see Members.
BootstrapRootUser == Prepare("root")

\* setupServer: the router, its middleware and the routes.
SetupServer == Prepare("server")

\* A step fails: the deferred cleanup closes what is open, and the process
\* exits.  The dispatcher is not closed.
FailBoot ==
  /\ boot \in Steps \ {"events", "codohue"}
  /\ stop = "no"
  /\ boot' = "failed"
  /\ monitor' = IF monitor = "running" THEN "done" ELSE monitor
  /\ open' = {}
  /\ UNCHANGED <<stop, listening, request, consumer, status>>

New ==
  \/ \E store \in {"pool", "redis"} : SetupStore(store)
  \/ SetupEventsRedis \/ SetupJWT \/ SetupInfrastructure \/ SetupContexts \/ SetupFeedContext \/ WireCodohue
  \/ BootstrapRootUser \/ SetupServer \/ FailBoot

\* main: fatal
ExitFailed ==
  /\ boot = "failed"
  /\ Alive
  /\ stop' = "exited"
  /\ UNCHANGED <<boot, open, listening, request, consumer, monitor, status>>

-----------------------------------------------------------------------------
(* Start and what runs.                                                    *)

\* Start: a server that is shut down already does not listen.
Listen ==
  /\ boot = "done"
  /\ stop \in {"no", "streams"}
  /\ ~listening
  /\ listening' = TRUE
  /\ UNCHANGED <<boot, stop, open, request, consumer, monitor, status>>

\* ListenAndServe fails: the process exits at once.
ListenFails ==
  /\ boot = "done"
  /\ stop \in {"no", "streams"}
  /\ ~listening
  /\ stop' = "exited"
  /\ UNCHANGED <<boot, open, listening, request, consumer, monitor, status>>

Serve(r) ==
  /\ listening
  /\ Alive
  /\ ~request[r]
  /\ request' = [request EXCEPT ![r] = TRUE]
  /\ UNCHANGED <<boot, stop, open, listening, consumer, monitor, status>>

Answer(r) ==
  /\ request[r]
  /\ Alive
  /\ request' = [request EXCEPT ![r] = FALSE]
  /\ UNCHANGED <<boot, stop, open, listening, consumer, monitor, status>>

\* consumeOutbox: a tick starts a batch, and waits for all of it.
StartBatch ==
  /\ consumer = "idle"
  /\ Alive
  /\ consumer' = "batch"
  /\ UNCHANGED <<boot, stop, open, listening, request, monitor, status>>

EndBatch ==
  /\ consumer = "batch"
  /\ Alive
  /\ consumer' = "idle"
  /\ UNCHANGED <<boot, stop, open, listening, request, monitor, status>>

\* probeCodohue, at every interval and whatever the last one said.
Probe ==
  /\ monitor = "running"
  /\ Alive
  /\ stop = "no"
  /\ status' \in {"active", "degraded"}
  /\ UNCHANGED <<boot, stop, open, listening, request, consumer, monitor>>

\* runCtx is done.
EndMonitor ==
  /\ monitor = "running"
  /\ stop # "no"
  /\ monitor' = "done"
  /\ UNCHANGED <<boot, stop, open, listening, request, consumer, status>>

-----------------------------------------------------------------------------
(* Shutdown.                                                               *)

\* The signal: runCancel.
Signal ==
  /\ boot = "done"
  /\ stop = "no"
  /\ stop' = "streams"
  /\ UNCHANGED <<boot, open, listening, request, consumer, monitor, status>>

\* broker.Shutdown ends the streams (see Notifications); then server.Shutdown
\* closes the listener.
CloseListener ==
  /\ stop = "streams"
  /\ stop' = "http"
  /\ listening' = FALSE
  /\ UNCHANGED <<boot, open, request, consumer, monitor, status>>

\* server.Shutdown returns when no request is under way ...
ServerStopped ==
  /\ stop = "http"
  /\ \A r \in Requests : ~request[r]
  /\ stop' = "drain"
  /\ UNCHANGED <<boot, open, listening, request, consumer, monitor, status>>

\* Mutant: it is given no deadline.
ShutdownUnbounded == FALSE

\* ... or with the error of its deadline, and Shutdown with it: nothing is
\* drained and nothing is closed, and main exits.
ShutdownTimesOut ==
  /\ stop = "http"
  /\ \E r \in Requests : request[r]
  /\ stop' = "exited"
  /\ UNCHANGED <<boot, open, listening, request, consumer, monitor, status>>

\* Mutant: the consumer is told to stop, and not waited for.
CloseUnwaited ==
  /\ stop = "drain"
  /\ stop' = "redis"
  /\ UNCHANGED <<boot, open, listening, request, consumer, monitor, status>>

\* Dispatcher.Close: the consumer stops between two batches.
CloseDispatcher ==
  /\ stop = "drain"
  /\ consumer = "idle"
  /\ consumer' = "stopped"
  /\ stop' = "redis"
  /\ UNCHANGED <<boot, open, listening, request, monitor, status>>

CloseStore(store, then) ==
  /\ stop = store
  /\ open' = open \ {store}
  /\ stop' = then
  /\ UNCHANGED <<boot, listening, request, consumer, monitor, status>>

CloseStores ==
  \/ CloseStore("redis", "events")
  \/ CloseStore("events", "pool")
  \/ CloseStore("pool", "exited")

Shutdown ==
  \/ Signal \/ CloseListener \/ ServerStopped \/ ShutdownTimesOut \/ CloseDispatcher
  \/ CloseStores

-----------------------------------------------------------------------------

Next ==
  \/ New \/ ExitFailed
  \/ Listen \/ ListenFails
  \/ \E r \in Requests : Serve(r) \/ Answer(r)
  \/ StartBatch \/ EndBatch \/ Probe \/ EndMonitor
  \/ Shutdown

\* Goroutines are scheduled, a batch is bounded by the deadlines of its
\* handlers, and Shutdown by its own.
Fairness ==
  /\ WF_vars(ExitFailed) /\ WF_vars(EndBatch) /\ WF_vars(CloseListener)
  /\ WF_vars(ServerStopped \/ ShutdownTimesOut)
  /\ SF_vars(CloseDispatcher)
  /\ WF_vars(CloseStores)

Spec == Init /\ [][Next]_vars /\ Fairness

-----------------------------------------------------------------------------
(* No store is closed while what the server has started still uses it:     *)
(* neither a request nor a batch of the outbox.  (A boot that fails closes *)
(* them under the consumer, and so do not the ends that close nothing.)    *)
StoresOutliveUse ==
  (boot # "failed" /\ open # Opened) =>
    /\ boot = "done" => consumer = "stopped"
    /\ \A r \in Requests : ~request[r]

(* A process that was told to stop exits, though requests hang and batches *)
(* of the outbox are under way.                                            *)
ShutdownEnds == stop = "streams" ~> stop = "exited"
=============================================================================
