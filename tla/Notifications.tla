----------------------------- MODULE Notifications -----------------------------
(***************************************************************************)
(* The notifications of one user: the rows, the cached unread count, and   *)
(* the SSE streams of one server with the broker that feeds them.          *)
(*                                                                         *)
(* A request stores its change, invalidates the cached count and, for a    *)
(* new notification, publishes an event; the three are separate calls to   *)
(* Postgres and Redis.  Events come back over Redis Pub/Sub to the broker, *)
(* which hands them to the registered streams one by one while it holds    *)
(* the read lock; Subscribe, cleanup and Shutdown hold the write lock.     *)
(*                                                                         *)
(* A count is represented by the set of notifications it counted.          *)
(***************************************************************************)
EXTENDS Naturals, Sequences, FiniteSets

CONSTANTS
  Nobody,        \* no notification
  Notes,         \* notifications of the user: (actor, type, group key)
  System,        \* those of them that an administrator sent
  Requests,      \* request goroutines
  Streams,       \* SSE connections
  Buffer,        \* capacity of a stream's channel
  MaxChanges     \* bound: stored changes per behaviour

\* Handlers and streams are different goroutines, and nothing is nobody.
ASSUME GoroutinesApart == Requests \cap Streams = {}
ASSUME NobodyApart == Nobody \notin Notes
ASSUME SystemAssumption == System \subseteq Notes
ASSUME BoundsAssumption == Buffer \in Nat /\ MaxChanges \in Nat

VARIABLES
  row,           \* the notification's row: none, unread or read
  changes,       \* stored changes so far (bounded by MaxChanges)
  cache,         \* notif:unread:<user>, or Miss
  proc,          \* where each request and each stream is
  wire,          \* events on their way from Redis to the broker
  deliver,       \* the event deliverLocal is handing out, and to whom still
  clients,       \* b.clients: the registered streams
  chan,          \* the channel of each stream: what it buffers, is it open
  told,          \* what each stream's client has been told
  lost,          \* events that never got into a stream's channel while the
                 \* server ran (history)
  phase,         \* how far the server's shutdown is
  panicked       \* was a closed channel closed or sent to?

vars == <<row, changes, cache, proc, wire, deliver, clients, chan, told, lost,
          phase, panicked>>
rows == <<row, changes>>
broker == <<wire, deliver, clients, chan, lost, panicked>>

Procs == Requests \cup Streams

\* suspect: a change was stored since the notifications were counted, or the
\* entry survived an invalidation that failed.
Counted == [notes : SUBSET Notes, suspect : BOOLEAN]
NoCount == [notes |-> {}, suspect |-> FALSE]
Miss == [notes |-> {Nobody}, suspect |-> FALSE]
NoEvent == [note |-> Nobody, pending |-> {}]

Pcs == {"idle", "stored", "cleared", "asking", "missed", "counted", "streaming", "ended"}
Phases == <<"running", "stopping", "closed", "draining", "stopped">>

TypeOK ==
  /\ row \in [Notes -> {"none", "unread", "read"}]
  /\ changes \in 0..MaxChanges
  /\ cache \in Counted \cup {Miss}
  /\ proc \in [Procs -> [pc : Pcs, note : Notes \cup {Nobody}, count : Counted]]
  /\ wire \in Seq(Notes)
  /\ deliver \in [note : Notes \cup {Nobody}, pending : SUBSET Streams]
  /\ clients \subseteq Streams
  /\ chan \in [Streams -> [events : Seq(Notes), open : BOOLEAN]]
  /\ \A s \in Streams : Len(chan[s].events) <= Buffer
  /\ told \in [Streams -> Counted]
  /\ lost \in [Streams -> SUBSET Notes]
  /\ phase \in {Phases[i] : i \in DOMAIN Phases}
  /\ panicked \in BOOLEAN

NoProc == [pc |-> "idle", note |-> Nobody, count |-> NoCount]

Init ==
  /\ row = [n \in Notes |-> "none"]
  /\ changes = 0
  /\ cache = Miss
  /\ proc = [p \in Procs |-> NoProc]
  /\ wire = <<>>
  /\ deliver = NoEvent
  /\ clients = {}
  /\ chan = [s \in Streams |-> [events |-> <<>>, open |-> TRUE]]
  /\ told = [s \in Streams |-> NoCount]
  /\ lost = [s \in Streams |-> {}]
  /\ phase = "running"
  /\ panicked = FALSE

At(p, pc) == proc[p].pc = pc
Unread == {n \in Notes : row[n] = "unread"}

-----------------------------------------------------------------------------
(* The rows: emit, EmitSystemAnnouncement, DeleteNotification, MarkAsRead  *)
(* and MarkAllAsRead, and what their statements make of the table.         *)

\* An upsert that makes a read row unread again.
CreateNotification(n) == [row EXCEPT ![n] = "unread"]

\* An insert: the group key is new with every announcement.
CreateSystemNotification(n) == [row EXCEPT ![n] = IF @ = "none" THEN "unread" ELSE @]

DeleteByActorAndGroupKey(n) == [row EXCEPT ![n] = "none"]

\* An id that is unknown, or read already, changes nothing and is no error.
UpdateRead(ns) == [n \in Notes |-> IF n \in ns \cap Unread THEN "read" ELSE row[n]]

\* A committed change makes every count that is yet to be cached suspect.
Store(r, n, value) ==
  /\ At(r, "idle")
  /\ changes < MaxChanges
  /\ changes' = changes + 1
  /\ row' = value
  /\ proc' = [p \in Procs |->
       IF p = r THEN [NoProc EXCEPT !.pc = "stored", !.note = n]
       ELSE IF At(p, "counted") THEN [proc[p] EXCEPT !.count.suspect = TRUE]
       ELSE proc[p]]
  /\ UNCHANGED <<cache, broker, told, phase>>

Emit(r) == \E n \in Notes \ System : Store(r, n, CreateNotification(n))

EmitSystemAnnouncement(r, n) == row[n] = "none" /\ Store(r, n, CreateSystemNotification(n))

\* SendNotificationToUser, or BroadcastNotification when it comes to this
\* user: whoever else could not be told does not matter.
Announce(r) == \E n \in System : EmitSystemAnnouncement(r, n)

\* A notification that is not there ends the request; nobody takes an
\* announcement back.
Delete(r) ==
  \E n \in Notes \ System : row[n] # "none" /\ Store(r, Nobody, DeleteByActorAndGroupKey(n))

MarkAsRead(r) == \E n \in Notes : Store(r, Nobody, UpdateRead({n}))
MarkAllAsRead(r) == Store(r, Nobody, UpdateRead(Notes))

\* Only what emits goes on to publish.
Advance(r) ==
  proc' = [proc EXCEPT ![r] =
    IF @.note = Nobody THEN NoProc ELSE [@ EXCEPT !.pc = "cleared"]]

\* Mutant: emit leaves the cached count alone.
InvalidateUnlessEmitted(r) ==
  /\ At(r, "stored")
  /\ cache' = IF proc[r].note = Nobody THEN Miss ELSE cache
  /\ Advance(r)
  /\ UNCHANGED <<rows, broker, told, phase>>

\* InvalidateUnreadCount; an error is logged.
Invalidate(r) ==
  /\ At(r, "stored")
  /\ cache' \in {Miss, IF cache = Miss THEN Miss ELSE [cache EXCEPT !.suspect = TRUE]}
  /\ Advance(r)
  /\ UNCHANGED <<rows, broker, told, phase>>

\* Publish of the broker; an error is logged and the event is gone.  Pub/Sub
\* keeps nothing, and once the subscriber has returned nobody listens.
PublishEvent(n) ==
  \/ phase = "running" /\ wire' = Append(wire, n) /\ UNCHANGED lost
  \/ phase = "running" /\ lost' = [s \in Streams |-> lost[s] \cup {n}] /\ UNCHANGED wire
  \/ phase # "running" /\ UNCHANGED <<wire, lost>>

\* publishSSE: the event tells the row that was written.
Publish(r) ==
  /\ At(r, "cleared")
  /\ proc' = [proc EXCEPT ![r] = NoProc]
  /\ PublishEvent(proc[r].note)
  /\ UNCHANGED <<rows, cache, deliver, clients, chan, told, phase, panicked>>

-----------------------------------------------------------------------------
(* GetUnreadCount: the cache, then the rows, then the cache again.  A      *)
(* request asks for the count; a stream asks once it is subscribed, and    *)
(* writes the answer to its client if there is one.                        *)

Ask(r) ==
  /\ At(r, "idle")
  /\ proc' = [proc EXCEPT ![r].pc = "asking"]
  /\ UNCHANGED <<rows, cache, broker, told, phase>>

Answer(p, counted) ==
  IF p \in Streams
  THEN /\ told' = [told EXCEPT ![p] = counted]
       /\ proc' = [proc EXCEPT ![p] = [NoProc EXCEPT !.pc = "streaming"]]
  ELSE /\ proc' = [proc EXCEPT ![p] = NoProc]
       /\ UNCHANGED told

\* A cache that cannot be read counts as a miss.
ReadCache(p) ==
  /\ At(p, "asking")
  /\ \/ cache # Miss /\ Answer(p, cache)
     \/ proc' = [proc EXCEPT ![p].pc = "missed"] /\ UNCHANGED told
  /\ UNCHANGED <<rows, cache, broker, phase>>

\* A stream whose count failed goes on, and its client knows of no count.
CountUnread(p) ==
  /\ At(p, "missed")
  /\ \/ /\ proc' = [proc EXCEPT ![p].pc = "counted",
                                ![p].count = [notes |-> Unread, suspect |-> FALSE]]
        /\ UNCHANGED told
     \/ Answer(p, [notes |-> {}, suspect |-> TRUE])
  /\ UNCHANGED <<rows, cache, broker, phase>>

\* SetUnreadCount; an error is logged.
FillCache(p) ==
  /\ At(p, "counted")
  /\ cache' \in {cache, proc[p].count}
  /\ Answer(p, [proc[p].count EXCEPT !.suspect = FALSE])
  /\ UNCHANGED <<rows, broker, phase>>

\* UnreadCountTTL
Expire ==
  /\ cache # Miss
  /\ cache' = Miss
  /\ UNCHANGED <<rows, proc, broker, told, phase>>

-----------------------------------------------------------------------------
(* The broker.                                                             *)

\* Nobody holds the read lock.
Unlocked == deliver = NoEvent

\* client.close, once.
Shut(ss) ==
  chan' = [s \in Streams |->
    IF s \in ss THEN [chan[s] EXCEPT !.open = FALSE] ELSE chan[s]]

\* Mutant: Subscribe does not look at b.closed.
SubscribeAnyway(s) == Unlocked /\ clients' = clients \cup {s} /\ UNCHANGED chan

\* A stream that comes after Shutdown gets a closed channel.
Subscribe(s) ==
  /\ Unlocked
  /\ IF phase = "closed"
     THEN Shut({s}) /\ UNCHANGED clients
     ELSE clients' = clients \cup {s} /\ UNCHANGED chan

\* The handler Stream subscribes before it asks for the count.
Open(s) ==
  /\ At(s, "idle")
  /\ phase \in {"running", "stopping", "closed"}
  /\ Subscribe(s)
  /\ proc' = [proc EXCEPT ![s].pc = "asking"]
  /\ UNCHANGED <<rows, cache, wire, deliver, lost, told, phase, panicked>>

\* StartRedisSubscriber takes the next event and deliverLocal the read lock.
\* The subscriber returns when the context of the run is cancelled.
Deliver ==
  /\ phase = "running"
  /\ Unlocked
  /\ wire # <<>>
  /\ deliver' = [note |-> Head(wire), pending |-> clients]
  /\ wire' = Tail(wire)
  /\ UNCHANGED <<rows, cache, proc, clients, chan, told, lost, phase, panicked>>

\* One client of the loop; a full channel drops the event.
Send(s) ==
  /\ s \in deliver.pending
  /\ deliver' = [deliver EXCEPT !.pending = @ \ {s}]
  /\ panicked' = (panicked \/ ~chan[s].open)
  /\ IF Len(chan[s].events) < Buffer
     THEN chan' = [chan EXCEPT ![s].events = Append(@, deliver.note)] /\ UNCHANGED lost
     ELSE lost' = [lost EXCEPT ![s] = @ \cup {deliver.note}] /\ UNCHANGED chan
  /\ UNCHANGED <<rows, cache, proc, wire, clients, told, phase>>

Unlock ==
  /\ deliver # NoEvent
  /\ deliver.pending = {}
  /\ deliver' = NoEvent
  /\ UNCHANGED <<rows, cache, proc, wire, clients, chan, told, lost, phase, panicked>>

\* Pub/Sub keeps nothing: an event is lost for every stream.
Drop ==
  /\ wire # <<>>
  /\ wire' = Tail(wire)
  /\ lost' = [s \in Streams |-> lost[s] \cup {Head(wire)}]
  /\ UNCHANGED <<rows, cache, proc, deliver, clients, chan, told, phase, panicked>>

\* The stream writes an event to its client.
Receive(s) ==
  /\ At(s, "streaming")
  /\ chan[s].events # <<>>
  /\ chan' = [chan EXCEPT ![s].events = Tail(@)]
  /\ told' = [told EXCEPT ![s].notes = @ \cup {Head(chan[s].events)}]
  /\ UNCHANGED <<rows, cache, proc, wire, deliver, clients, lost, phase, panicked>>

\* Mutant: cleanup does not take the lock.
CleanupUnlocked(s) ==
  /\ clients' = clients \ {s}
  /\ Shut({s})
  /\ proc' = [proc EXCEPT ![s].pc = "ended"]
  /\ told' = [told EXCEPT ![s] = NoCount]
  /\ UNCHANGED <<rows, cache, wire, deliver, lost, phase, panicked>>

\* cleanup, deferred by Stream; the client is gone.
Cleanup(s) ==
  /\ Unlocked
  /\ clients' = clients \ {s}
  /\ Shut({s})
  /\ proc' = [proc EXCEPT ![s].pc = "ended"]
  /\ told' = [told EXCEPT ![s] = NoCount]
  /\ UNCHANGED <<rows, cache, wire, deliver, lost, phase, panicked>>

\* The client hangs up.
Disconnect(s) == At(s, "streaming") /\ Cleanup(s)

\* A closed channel is read to its end first.
EndOfStream(s) ==
  At(s, "streaming") /\ ~chan[s].open /\ chan[s].events = <<>> /\ Cleanup(s)

-----------------------------------------------------------------------------
(* Application.Shutdown.                                                   *)

\* runCancel: the subscriber returns.
Stop ==
  /\ phase = "running"
  /\ phase' = "stopping"
  /\ wire' = <<>>
  /\ lost' = [s \in Streams |-> {}]
  /\ UNCHANGED <<rows, cache, proc, deliver, clients, chan, told, panicked>>

\* broker.Shutdown
CloseBroker ==
  /\ phase = "stopping"
  /\ Unlocked
  /\ phase' = "closed"
  /\ Shut(clients)
  /\ clients' = {}
  /\ UNCHANGED <<rows, cache, proc, wire, deliver, told, lost, panicked>>

\* server.Shutdown stops listening and waits for the handlers.
StopListening ==
  /\ phase = "closed"
  /\ phase' = "draining"
  /\ UNCHANGED <<rows, cache, proc, broker, told>>

Stopped ==
  /\ phase = "draining"
  /\ \A p \in Procs : proc[p].pc \in {"idle", "ended"}
  /\ phase' = "stopped"
  /\ UNCHANGED <<rows, cache, proc, broker, told>>

Work(p) == Invalidate(p) \/ Publish(p) \/ ReadCache(p) \/ CountUnread(p) \/ FillCache(p)

Change(r) ==
  /\ phase # "draining" /\ phase # "stopped"
  /\ (Emit(r) \/ Announce(r) \/ Delete(r) \/ MarkAsRead(r) \/ MarkAllAsRead(r) \/ Ask(r))

Next ==
  \/ \E r \in Requests : Change(r)
  \/ \E p \in Procs : Work(p)
  \/ \E s \in Streams :
       Open(s) \/ Send(s) \/ Receive(s) \/ Disconnect(s) \/ EndOfStream(s)
  \/ Deliver \/ Unlock \/ Drop \/ Expire
  \/ Stop \/ CloseBroker \/ StopListening \/ Stopped

Spec == Init /\ [][Next]_vars

\* Every goroutine goes on: the handlers that are running, the subscriber once
\* it hands out an event, and Shutdown once it was called; no client has to
\* hang up.
FairSpec ==
  /\ Spec
  /\ \A r \in Requests : WF_vars(Work(r))
  /\ \A s \in Streams : WF_vars(Work(s) \/ Receive(s) \/ EndOfStream(s))
  /\ WF_vars(Unlock \/ \E s \in Streams : Send(s))
  /\ WF_vars(CloseBroker \/ StopListening \/ Stopped)

-----------------------------------------------------------------------------
(* The broker never closes a channel twice and never sends to a closed     *)
(* one, whatever deliveries, hang-ups and the shutdown do at once.         *)
NoPanic == ~panicked

InFlight(n) ==
  \/ \E r \in Requests : proc[r].note = n
  \/ \E i \in DOMAIN wire : wire[i] = n

(* A stream misses nothing: a notification that is unread is known to its  *)
(* client, from the count or from an event, unless it is still on its way, *)
(* its event was lost, or the count came from an entry that a change had   *)
(* overtaken.                                                              *)
NothingMissed ==
  \A s \in Streams : (At(s, "streaming") /\ ~told[s].suspect) =>
    \A n \in Unread :
      \/ n \in told[s].notes \cup lost[s]
      \/ InFlight(n)
      \/ deliver.note = n /\ s \in deliver.pending
      \/ \E i \in DOMAIN chan[s].events : chan[s].events[i] = n
      \/ phase # "running"

(* Once the server is told to stop, every stream ends: those that were     *)
(* open, and those that come between the broker's shutdown and the         *)
(* server's.                                                               *)
StreamsEnd == (phase # "running") ~> (phase = "stopped")
=============================================================================
