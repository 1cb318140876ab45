------------------------ MODULE Notifications_proofs ------------------------
(***************************************************************************)
(* The broker never sends to a closed channel, and a stream misses no      *)
(* unread notification: for any notifications, requests and streams, any   *)
(* buffer and any number of changes.                                       *)
(*                                                                         *)
(* NoPanic rests on the lock: whoever is being sent to is registered, and  *)
(* the channel of whoever is registered is open (Registered).              *)
(* NothingMissed rests on the order of the calls.  A stream registers      *)
(* before it counts, so what is stored after the count is on its way to    *)
(* the stream (Reached); a request invalidates the cache before it         *)
(* publishes, so what a cached count leaves out is a change whose request  *)
(* has not come so far (CacheExplained).                                   *)
(***************************************************************************)
EXTENDS Notifications, SequenceTheorems, TLAPS

Proc == [pc : Pcs, note : Notes \cup {Nobody}, count : Counted]

\* The places at which a stream is registered.
Reading == {"asking", "missed", "counted", "streaming"}

\* A request that emits carries its notification until it has published it.
Noted ==
  \A p \in Procs :
    /\ proc[p].pc = "cleared" => proc[p].note \in Notes
    /\ proc[p].note # Nobody => proc[p].pc \in {"stored", "cleared"}

\* There is somebody to send to only while an event is handed out.
Handed == deliver.pending # {} => deliver.note \in Notes

TypesInv == TypeOK /\ Noted /\ Handed

Registered ==
  /\ deliver.pending \subseteq clients
  /\ \A s \in clients : chan[s].open /\ proc[s].pc \in Reading
  /\ \A s \in Streams :
       /\ proc[s].pc \in Reading \cup {"idle", "ended"}
       /\ proc[s].pc = "idle" => chan[s].open
       /\ (phase \in {"running", "stopping"} /\ proc[s].pc \in Reading) => s \in clients

BrokerInv == TypesInv /\ Registered /\ NoPanic

\* The queue q holds an event of the notification n.
Holds(q, n) == \E i \in DOMAIN q : q[i] = n

\* An event of the notification n reaches the stream s, or is accounted for.
Reached(s, n) ==
  \/ n \in lost[s]
  \/ InFlight(n)
  \/ deliver.note = n /\ s \in deliver.pending
  \/ Holds(chan[s].events, n)
  \/ phase # "running"

\* What is not suspect was counted since the last change.
CountFresh ==
  \A p \in Procs : (At(p, "counted") /\ ~proc[p].count.suspect) =>
    Unread \subseteq proc[p].count.notes

\* What a cached count leaves out is about to invalidate it.
CacheExplained ==
  (cache # Miss /\ ~cache.suspect) =>
    \A n \in Unread \ cache.notes :
      \E r \in Requests : At(r, "stored") /\ proc[r].note = n

\* What is stored after a stream counted reaches it.
CountReached ==
  \A s \in Streams : At(s, "counted") =>
    \A n \in Unread \ proc[s].count.notes : Reached(s, n)

CountInv == BrokerInv /\ CountFresh /\ CacheExplained /\ CountReached /\ NothingMissed

-----------------------------------------------------------------------------
(* Types.                                                                  *)

LEMMA PhaseNames ==
  {Phases[i] : i \in DOMAIN Phases} = {"running", "stopping", "closed", "draining", "stopped"}
BY DEF Phases

LEMMA Records ==
  /\ NoCount \in Counted /\ NoProc \in Proc /\ Miss \notin Counted
  /\ NoProc.pc = "idle" /\ NoProc.note = Nobody
BY NobodyApart DEF NoCount, NoProc, Proc, Counted, Pcs, Miss

(* A process moves to a record of the type, and the others stay.           *)
LEMMA Moved ==
  ASSUME proc \in [Procs -> Proc], NEW p \in Procs, NEW x \in Proc,
         proc' = [proc EXCEPT ![p] = x]
  PROVE  /\ proc' \in [Procs -> Proc] /\ proc'[p] = x
         /\ \A q \in Procs : q # p => proc'[q] = proc[q]
OBVIOUS

(* A process ends its call: with its answer if it is a stream.             *)
LEMMA Answered ==
  ASSUME TypesInv, NEW p \in Procs, NEW c \in Counted, Answer(p, c)
  PROVE  /\ proc' \in [Procs -> Proc] /\ told' \in [Streams -> Counted]
         /\ \A q \in Procs : q # p => proc'[q] = proc[q]
         /\ \A s \in Streams : s # p => told'[s] = told[s]
         /\ proc'[p].note = Nobody
         /\ p \in Streams => proc'[p].pc = "streaming" /\ told'[p] = c
         /\ p \notin Streams => proc'[p].pc = "idle" /\ told' = told
<1> DEFINE x == IF p \in Streams THEN [NoProc EXCEPT !.pc = "streaming"] ELSE NoProc
<1>1. /\ x \in Proc /\ x.note = Nobody
      /\ x.pc = IF p \in Streams THEN "streaming" ELSE "idle"
  BY Records DEF NoProc, Proc, Pcs
<1>2. proc' = [proc EXCEPT ![p] = x]
  BY DEF Answer
<1>3. proc \in [Procs -> Proc] /\ told \in [Streams -> Counted]
  BY DEF TypesInv, TypeOK, Proc
<1> HIDE DEF x
<1>4. /\ proc' \in [Procs -> Proc] /\ proc'[p] = x
      /\ \A q \in Procs : q # p => proc'[q] = proc[q]
  BY <1>1, <1>2, <1>3, Moved
<1>5. CASE p \in Streams
  BY <1>1, <1>3, <1>4, <1>5 DEF Answer
<1>6. CASE p \notin Streams
  BY <1>1, <1>3, <1>4, <1>6 DEF Answer
<1>7. QED
  BY <1>5, <1>6

(* A change is stored by a request that was idle; whoever has counted and  *)
(* not answered has not counted it.                                        *)
LEMMA Stored ==
  ASSUME TypesInv, NEW r \in Requests, NEW n \in Notes \cup {Nobody},
         NEW v \in [Notes -> {"none", "unread", "read"}], Store(r, n, v)
  PROVE  /\ proc' \in [Procs -> Proc] /\ row' = v /\ changes' \in 0..MaxChanges
         /\ proc[r].pc = "idle" /\ proc'[r].pc = "stored" /\ proc'[r].note = n
         /\ \A q \in Procs \ {r} :
              /\ proc'[q].pc = proc[q].pc /\ proc'[q].note = proc[q].note
              /\ proc'[q].count.notes = proc[q].count.notes
              /\ proc[q].pc = "counted" => proc'[q].count.suspect
<1>1. proc \in [Procs -> Proc] /\ changes \in 0..MaxChanges /\ r \in Procs
  BY DEF TypesInv, TypeOK, Proc, Procs
<1>2. [NoProc EXCEPT !.pc = "stored", !.note = n] \in Proc
  BY Records DEF Proc, NoProc, Pcs
<1>3. ASSUME NEW q \in Procs
      PROVE  [proc[q] EXCEPT !.count.suspect = TRUE] \in Proc
  BY <1>1 DEF Proc, Counted
<1>4. proc' \in [Procs -> Proc]
  BY <1>1, <1>2, <1>3 DEF Store
<1>5. proc'[r] = [NoProc EXCEPT !.pc = "stored", !.note = n]
  BY <1>1 DEF Store
<1>6. ASSUME NEW q \in Procs \ {r}
      PROVE  /\ proc'[q].pc = proc[q].pc /\ proc'[q].note = proc[q].note
             /\ proc'[q].count.notes = proc[q].count.notes
             /\ proc[q].pc = "counted" => proc'[q].count.suspect
  <2>1. CASE At(q, "counted")
    <3>1. proc'[q] = [proc[q] EXCEPT !.count.suspect = TRUE]
      BY <2>1 DEF Store
    <3>2. QED
      BY <1>1, <3>1 DEF Proc, Counted
  <2>2. CASE ~At(q, "counted")
    BY <2>2 DEF Store, At
  <2>3. QED
    BY <2>1, <2>2
<1>7. changes' \in 0..MaxChanges
  BY <1>1, BoundsAssumption DEF Store
<1>8. proc'[r].pc = "stored" /\ proc'[r].note = n
  BY <1>5 DEF NoProc
<1>9. QED
  BY <1>4, <1>6, <1>7, <1>8 DEF Store, At

Values == [Notes -> {"none", "unread", "read"}]

(* Whatever a request changes, it stores a value of the rows in which      *)
(* nothing new is unread but what it goes on to publish.                   *)
LEMMA Changes ==
  ASSUME TypesInv, NEW r \in Requests, Change(r), ~Ask(r)
  PROVE  \E n \in Notes \cup {Nobody} : \E v \in Values :
           /\ Store(r, n, v)
           /\ \A m \in Notes : v[m] = "unread" => m = n \/ m \in Unread
<1>1. row \in Values
  BY DEF TypesInv, TypeOK, Values
<1>2. CASE Emit(r)
  <2>1. PICK n \in Notes \ System : Store(r, n, CreateNotification(n))
    BY <1>2 DEF Emit
  <2>2. /\ CreateNotification(n) \in Values
        /\ \A m \in Notes : CreateNotification(n)[m] = "unread" => m = n \/ m \in Unread
    BY <1>1 DEF CreateNotification, Values, Unread
  <2>3. QED
    BY <2>1, <2>2
<1>3. CASE Announce(r)
  <2>1. PICK n \in System : EmitSystemAnnouncement(r, n)
    BY <1>3 DEF Announce
  <2>2. n \in Notes
    BY SystemAssumption
  <2>3. /\ CreateSystemNotification(n) \in Values
        /\ \A m \in Notes : CreateSystemNotification(n)[m] = "unread" => m = n \/ m \in Unread
    BY <1>1, <2>2 DEF CreateSystemNotification, Values, Unread
  <2>4. QED
    BY <2>1, <2>2, <2>3 DEF EmitSystemAnnouncement
<1>4. CASE Delete(r)
  <2>1. PICK n \in Notes \ System : Store(r, Nobody, DeleteByActorAndGroupKey(n))
    BY <1>4 DEF Delete
  <2>2. /\ DeleteByActorAndGroupKey(n) \in Values
        /\ \A m \in Notes : DeleteByActorAndGroupKey(n)[m] = "unread" => m \in Unread
    BY <1>1 DEF DeleteByActorAndGroupKey, Values, Unread
  <2>3. QED
    BY <2>1, <2>2
<1>5. \A ns \in SUBSET Notes :
        /\ UpdateRead(ns) \in Values
        /\ \A m \in Notes : UpdateRead(ns)[m] = "unread" => m \in Unread
  BY <1>1 DEF UpdateRead, Values, Unread
<1>6. CASE MarkAsRead(r)
  <2>1. PICK n \in Notes : Store(r, Nobody, UpdateRead({n}))
    BY <1>6 DEF MarkAsRead
  <2>2. QED
    BY <1>5, <2>1
<1>7. CASE MarkAllAsRead(r)
  BY <1>5, <1>7 DEF MarkAllAsRead
<1>8. QED
  BY <1>2, <1>3, <1>4, <1>6, <1>7 DEF Change

LEMMA StoreTyped ==
  ASSUME TypesInv, NEW r \in Requests, Change(r), ~Ask(r)
  PROVE  TypesInv'
<1>1. PICK n \in Notes \cup {Nobody}, v \in Values : Store(r, n, v)
  BY Changes
<1>2. /\ proc' \in [Procs -> Proc] /\ row' = v /\ changes' \in 0..MaxChanges
      /\ proc'[r].pc = "stored"
      /\ \A q \in Procs \ {r} : proc'[q].pc = proc[q].pc /\ proc'[q].note = proc[q].note
  BY <1>1, Stored DEF Values
<1>3. UNCHANGED <<cache, broker, told, phase>>
  BY <1>1 DEF Store
<1>4. Noted' /\ Handed'
  BY <1>2, <1>3 DEF TypesInv, Noted, Handed, broker
<1>5. TypeOK'
  BY <1>2, <1>3 DEF TypesInv, TypeOK, broker, Values, Proc
<1>6. QED
  BY <1>4, <1>5 DEF TypesInv

(* One step of a call.                                                     *)
LEMMA WorkTyped ==
  ASSUME TypesInv, NEW p \in Procs, Work(p)
  PROVE  TypesInv'
<1>1. proc \in [Procs -> Proc] /\ proc[p] \in Proc /\ cache \in Counted \cup {Miss}
  BY DEF TypesInv, TypeOK, Proc
<1>2. CASE Invalidate(p) \/ Publish(p)
  <2> DEFINE x == IF Publish(p) \/ proc[p].note = Nobody THEN NoProc
                  ELSE [proc[p] EXCEPT !.pc = "cleared"]
  <2>1. ~(Invalidate(p) /\ Publish(p))
    BY DEF Invalidate, Publish, At
  <2>2. proc' = [proc EXCEPT ![p] = x]
    BY <1>2, <2>1 DEF Invalidate, Publish, Advance
  <2>3. /\ x \in Proc /\ x.note \in {Nobody, proc[p].note}
        /\ x.pc = "cleared" => x.note \in Notes
        /\ x.note # Nobody => x.pc = "cleared"
    BY <1>1, Records DEF Proc, Pcs
  <2> HIDE DEF x
  <2>4. /\ proc' \in [Procs -> Proc] /\ proc'[p] = x
        /\ \A q \in Procs : q # p => proc'[q] = proc[q]
    BY <1>1, <2>2, <2>3, Moved
  <2>5. Noted'
    BY <2>3, <2>4 DEF TypesInv, Noted
  <2>6. cache' \in Counted \cup {Miss}
    BY <1>1, <1>2 DEF Invalidate, Publish, Counted
  <2>7. wire' \in Seq(Notes) /\ lost' \in [Streams -> SUBSET Notes]
    <3>1. CASE Invalidate(p)
      BY <3>1 DEF Invalidate, broker, TypesInv, TypeOK
    <3>2. CASE Publish(p)
      <4>1. proc[p].note \in Notes
        BY <3>2 DEF Publish, At, TypesInv, Noted
      <4>2. wire \in Seq(Notes) /\ lost \in [Streams -> SUBSET Notes]
        BY DEF TypesInv, TypeOK
      <4>3. PublishEvent(proc[p].note)
        BY <3>2 DEF Publish
      <4> HIDE DEF x
      <4>4. QED
        BY <4>1, <4>2, <4>3 DEF PublishEvent
    <3>3. QED
      BY <1>2, <3>1, <3>2
  <2>8. UNCHANGED <<rows, deliver, clients, chan, told, phase, panicked>>
    BY <1>2 DEF Invalidate, Publish, broker
  <2>9. TypeOK' /\ Handed'
    BY <2>4, <2>6, <2>7, <2>8 DEF TypesInv, TypeOK, Handed, rows, Proc
  <2>10. QED
    BY <2>5, <2>9 DEF TypesInv
<1>3. CASE ReadCache(p) \/ CountUnread(p) \/ FillCache(p)
  <2>1. /\ proc' \in [Procs -> Proc] /\ told' \in [Streams -> Counted]
        /\ \A q \in Procs : q # p => proc'[q] = proc[q]
        /\ proc'[p].note = Nobody
        /\ proc'[p].pc \in {"missed", "counted", "streaming", "idle"}
    <3>1. ASSUME NEW c \in Counted, Answer(p, c)
          PROVE  /\ proc' \in [Procs -> Proc] /\ told' \in [Streams -> Counted]
                 /\ \A q \in Procs : q # p => proc'[q] = proc[q]
                 /\ proc'[p].note = Nobody
                 /\ proc'[p].pc \in {"missed", "counted", "streaming", "idle"}
      BY <3>1, Answered
    <3>2. ASSUME NEW x \in Proc, proc' = [proc EXCEPT ![p] = x], UNCHANGED told,
                 x.note = Nobody, x.pc \in {"missed", "counted"}
          PROVE  /\ proc' \in [Procs -> Proc] /\ told' \in [Streams -> Counted]
                 /\ \A q \in Procs : q # p => proc'[q] = proc[q]
                 /\ proc'[p].note = Nobody
                 /\ proc'[p].pc \in {"missed", "counted", "streaming", "idle"}
      BY <1>1, <3>2, Moved DEF TypesInv, TypeOK
    <3>3. [notes |-> Unread, suspect |-> FALSE] \in Counted
          /\ [notes |-> {}, suspect |-> TRUE] \in Counted
          /\ [proc[p].count EXCEPT !.suspect = FALSE] \in Counted
      BY <1>1 DEF Counted, Unread, Proc
    <3>5. CASE ReadCache(p)
      <4>1. CASE cache # Miss /\ Answer(p, cache)
        BY <1>1, <4>1, <3>1
      <4>2. CASE proc' = [proc EXCEPT ![p].pc = "missed"] /\ UNCHANGED told
        <5>1. [proc[p] EXCEPT !.pc = "missed"] \in Proc
          BY <1>1 DEF Proc, Pcs
        <5>2. proc[p].note = Nobody
          BY <3>5 DEF TypesInv, Noted, ReadCache, At
        <5>3. QED
          BY <1>1, <4>2, <5>1, <5>2, <3>2 DEF Proc
      <4>3. QED
        BY <3>5, <4>1, <4>2 DEF ReadCache
    <3>6. CASE CountUnread(p)
      <4>1. CASE Answer(p, [notes |-> {}, suspect |-> TRUE])
        BY <4>1, <3>1, <3>3
      <4>2. CASE proc' = [proc EXCEPT ![p].pc = "counted",
                             ![p].count = [notes |-> Unread, suspect |-> FALSE]]
                 /\ UNCHANGED told
        <5> DEFINE x == [proc[p] EXCEPT !.pc = "counted",
                                        !.count = [notes |-> Unread, suspect |-> FALSE]]
        <5>1. x \in Proc /\ x.pc = "counted" /\ x.note = proc[p].note
          BY <1>1, <3>3 DEF Proc, Pcs
        <5>2. proc[p].note = Nobody
          BY <3>6 DEF TypesInv, Noted, CountUnread, At
        <5>3. proc' = [proc EXCEPT ![p] = x]
          BY <1>1, <4>2
        <5> HIDE DEF x
        <5>4. QED
          BY <4>2, <5>1, <5>2, <5>3, <3>2
      <4>3. QED
        BY <3>6, <4>1, <4>2 DEF CountUnread
    <3>7. CASE FillCache(p)
      BY <3>7, <3>1, <3>3 DEF FillCache
    <3>8. QED
      BY <1>3, <3>5, <3>6, <3>7
  <2>2. cache' \in Counted \cup {Miss}
    BY <1>1, <1>3 DEF ReadCache, CountUnread, FillCache, Proc
  <2>3. UNCHANGED <<rows, broker, phase>>
    BY <1>3 DEF ReadCache, CountUnread, FillCache
  <2>4. Noted'
    BY <2>1 DEF TypesInv, Noted
  <2>5. TypeOK' /\ Handed'
    BY <2>1, <2>2, <2>3 DEF TypesInv, TypeOK, Handed, rows, broker, Proc
  <2>6. QED
    BY <2>4, <2>5 DEF TypesInv
<1>4. QED
  BY <1>2, <1>3 DEF Work

(* A step of a stream, of the broker or of the shutdown.                   *)
LEMMA StreamTyped ==
  ASSUME TypesInv, NEW s \in Streams,
         Open(s) \/ Send(s) \/ Receive(s) \/ Disconnect(s) \/ EndOfStream(s)
  PROVE  TypesInv'
<1>1. /\ proc \in [Procs -> Proc] /\ s \in Procs
      /\ chan \in [Streams -> [events : Seq(Notes), open : BOOLEAN]]
      /\ told \in [Streams -> Counted] /\ Len(chan[s].events) <= Buffer
  BY DEF TypesInv, TypeOK, Proc, Procs
<1>2. \A ss \in SUBSET Streams : Shut(ss) =>
        /\ chan' \in [Streams -> [events : Seq(Notes), open : BOOLEAN]]
        /\ \A t \in Streams : chan'[t].events = chan[t].events
  BY <1>1 DEF Shut
<1>3. \A pc \in {"asking", "ended"} :
        (proc[s].note = Nobody /\ proc' = [proc EXCEPT ![s].pc = pc]) =>
          proc' \in [Procs -> Proc] /\ Noted'
  BY <1>1 DEF TypesInv, Noted, Proc, Pcs
<1>4. CASE Open(s)
  <2>1. proc[s].note = Nobody
    BY <1>1, <1>4 DEF Open, At, TypesInv, Noted
  <2>2. clients' \subseteq Streams
    BY <1>4 DEF Open, Subscribe, TypesInv, TypeOK
  <2>3. /\ chan' \in [Streams -> [events : Seq(Notes), open : BOOLEAN]]
        /\ \A t \in Streams : chan'[t].events = chan[t].events
    BY <1>1, <1>2, <1>4 DEF Open, Subscribe
  <2>4. proc' \in [Procs -> Proc] /\ Noted'
    BY <1>3, <1>4, <2>1 DEF Open
  <2>5. UNCHANGED <<rows, cache, wire, deliver, lost, told, phase, panicked>>
    BY <1>4 DEF Open
  <2>6. QED
    BY <2>2, <2>3, <2>4, <2>5 DEF TypesInv, TypeOK, Handed, rows, Proc
<1>5. CASE Disconnect(s) \/ EndOfStream(s)
  <2>1. Cleanup(s) /\ proc[s].note = Nobody
    BY <1>1, <1>5 DEF Disconnect, EndOfStream, At, TypesInv, Noted
  <2>2. clients' \subseteq Streams
    BY <2>1 DEF Cleanup, TypesInv, TypeOK
  <2>3. /\ chan' \in [Streams -> [events : Seq(Notes), open : BOOLEAN]]
        /\ \A t \in Streams : chan'[t].events = chan[t].events
    BY <1>2, <2>1 DEF Cleanup
  <2>4. proc' \in [Procs -> Proc] /\ Noted'
    BY <1>3, <2>1 DEF Cleanup
  <2>5. told' \in [Streams -> Counted]
    BY <1>1, <2>1, Records DEF Cleanup
  <2>6. UNCHANGED <<rows, cache, wire, deliver, lost, phase, panicked>>
    BY <2>1 DEF Cleanup
  <2>7. QED
    BY <2>2, <2>3, <2>4, <2>5, <2>6 DEF TypesInv, TypeOK, Handed, rows, Proc
<1>6. CASE Send(s)
  <2>1. deliver \in [note : Notes \cup {Nobody}, pending : SUBSET Streams]
    BY DEF TypesInv, TypeOK
  <2>2. /\ deliver' \in [note : Notes \cup {Nobody}, pending : SUBSET Streams]
        /\ deliver'.note = deliver.note
    BY <1>6, <2>1 DEF Send
  <2>3. deliver.note \in Notes
    BY <1>6 DEF Send, TypesInv, Handed
  <2>4. /\ chan' \in [Streams -> [events : Seq(Notes), open : BOOLEAN]]
        /\ \A t \in Streams : Len(chan'[t].events) <= Buffer
    <3>1. CASE Len(chan[s].events) < Buffer
      <4> DEFINE e == Append(chan[s].events, deliver.note)
                 x == [chan[s] EXCEPT !.events = e]
      <4>1. e \in Seq(Notes) /\ Len(e) = Len(chan[s].events) + 1 /\ Len(chan[s].events) \in Nat
        BY <1>1, <2>3
      <4>2. Len(e) <= Buffer
        BY <3>1, <4>1, BoundsAssumption
      <4>3. chan' = [chan EXCEPT ![s] = x]
        BY <1>6, <3>1 DEF Send
      <4> HIDE DEF e
      <4>4. x \in [events : Seq(Notes), open : BOOLEAN] /\ Len(x.events) <= Buffer
        BY <1>1, <4>1, <4>2
      <4> HIDE DEF x
      <4>5. QED
        BY <1>1, <4>4, <4>3 DEF TypesInv, TypeOK
    <3>2. CASE ~(Len(chan[s].events) < Buffer)
      BY <1>6, <3>2 DEF Send, TypesInv, TypeOK
    <3>3. QED
      BY <3>1, <3>2
  <2>5. lost' \in [Streams -> SUBSET Notes]
    <3>1. lost \in [Streams -> SUBSET Notes]
      BY DEF TypesInv, TypeOK
    <3>2. \/ lost' = lost
          \/ lost' = [lost EXCEPT ![s] = @ \cup {deliver.note}]
      BY <1>6 DEF Send
    <3>3. QED
      BY <2>3, <3>1, <3>2
  <2>6. panicked' \in BOOLEAN /\ UNCHANGED <<rows, cache, proc, wire, clients, told, phase>>
    BY <1>1, <1>6 DEF Send, TypesInv, TypeOK
  <2>7. QED
    BY <2>2, <2>3, <2>4, <2>5, <2>6 DEF TypesInv, TypeOK, Handed, rows, Noted
<1>7. CASE Receive(s)
  <2>1. Head(chan[s].events) \in Notes /\ Tail(chan[s].events) \in Seq(Notes)
        /\ Len(Tail(chan[s].events)) <= Buffer
    BY <1>1, <1>7, HeadTailProperties, BoundsAssumption DEF Receive
  <2>2. chan' \in [Streams -> [events : Seq(Notes), open : BOOLEAN]]
        /\ \A t \in Streams : Len(chan'[t].events) <= Buffer
    BY <1>1, <1>7, <2>1 DEF Receive, TypesInv, TypeOK
  <2>3. told' \in [Streams -> Counted]
    BY <1>1, <1>7, <2>1 DEF Receive, Counted
  <2>4. UNCHANGED <<rows, cache, proc, wire, deliver, clients, lost, phase, panicked>>
    BY <1>7 DEF Receive
  <2>5. QED
    BY <2>2, <2>3, <2>4 DEF TypesInv, TypeOK, Handed, rows, Noted
<1>8. QED
  BY <1>4, <1>5, <1>6, <1>7

LEMMA ServerTyped ==
  ASSUME TypesInv,
         Deliver \/ Unlock \/ Drop \/ Expire \/ Stop \/ CloseBroker \/ StopListening \/ Stopped
  PROVE  TypesInv'
<1>1. /\ wire \in Seq(Notes) /\ lost \in [Streams -> SUBSET Notes]
      /\ chan \in [Streams -> [events : Seq(Notes), open : BOOLEAN]]
  BY DEF TypesInv, TypeOK
<1>2. wire # <<>> => Head(wire) \in Notes /\ Tail(wire) \in Seq(Notes)
  BY <1>1, HeadTailProperties
<1>3. CASE Deliver
  BY <1>2, <1>3 DEF Deliver, TypesInv, TypeOK, Handed, Noted, rows
<1>4. CASE Unlock
  BY <1>4 DEF Unlock, NoEvent, TypesInv, TypeOK, Handed, Noted, rows
<1>5. CASE Drop
  <2>1. lost' \in [Streams -> SUBSET Notes]
    BY <1>1, <1>2, <1>5 DEF Drop
  <2>2. QED
    BY <1>2, <1>5, <2>1 DEF Drop, TypesInv, TypeOK, Handed, Noted, rows
<1>6. CASE Expire
  BY <1>6 DEF Expire, TypesInv, TypeOK, Handed, Noted, rows, broker
<1>7. CASE Stop
  <2>1. wire' \in Seq(Notes)
    BY <1>7 DEF Stop
  <2>2. phase' \in {Phases[i] : i \in DOMAIN Phases}
    BY <1>7, PhaseNames DEF Stop
  <2>3. QED
    BY <1>7, <2>1, <2>2 DEF Stop, TypesInv, TypeOK, Handed, Noted, rows
<1>8. CASE CloseBroker
  <2>1. /\ chan' \in [Streams -> [events : Seq(Notes), open : BOOLEAN]]
        /\ \A t \in Streams : chan'[t].events = chan[t].events
    BY <1>1, <1>8 DEF CloseBroker, Shut
  <2>2. phase' \in {Phases[i] : i \in DOMAIN Phases}
    BY <1>8, PhaseNames DEF CloseBroker
  <2>3. clients' \subseteq Streams
    BY <1>8 DEF CloseBroker
  <2>4. UNCHANGED <<rows, cache, proc, wire, deliver, told, lost, panicked>>
    BY <1>8 DEF CloseBroker
  <2>5. QED
    BY <2>1, <2>2, <2>3, <2>4 DEF TypesInv, TypeOK, Handed, Noted, rows
<1>9. CASE StopListening \/ Stopped
  <2>1. phase' \in {Phases[i] : i \in DOMAIN Phases}
    BY <1>9, PhaseNames DEF StopListening, Stopped
  <2>2. UNCHANGED <<rows, cache, proc, broker, told>>
    BY <1>9 DEF StopListening, Stopped
  <2>3. QED
    BY <2>1, <2>2 DEF TypesInv, TypeOK, Handed, Noted, rows, broker
<1>10. QED
  BY <1>3, <1>4, <1>5, <1>6, <1>7, <1>8, <1>9

LEMMA AskTyped ==
  ASSUME TypesInv, NEW r \in Requests, Ask(r)
  PROVE  TypesInv'
<1>1. proc \in [Procs -> Proc] /\ r \in Procs
  BY DEF TypesInv, TypeOK, Proc, Procs
<1>2. [proc[r] EXCEPT !.pc = "asking"] \in Proc /\ proc[r].note = Nobody
  BY <1>1 DEF Ask, At, TypesInv, Noted, Proc, Pcs
<1>3. proc' = [proc EXCEPT ![r] = [proc[r] EXCEPT !.pc = "asking"]]
  BY <1>1 DEF Ask
<1>4. proc' \in [Procs -> Proc] /\ Noted'
  BY <1>1, <1>2, <1>3 DEF TypesInv, Noted
<1>5. UNCHANGED <<rows, cache, broker, told, phase>>
  BY DEF Ask
<1>6. QED
  BY <1>4, <1>5 DEF TypesInv, TypeOK, Handed, rows, broker, Proc

LEMMA InitTyped == Init => TypesInv
<1> SUFFICES ASSUME Init PROVE TypesInv
  OBVIOUS
<1>1. proc \in [Procs -> Proc]
  BY Records DEF Init
<1>2. phase \in {Phases[i] : i \in DOMAIN Phases}
  BY PhaseNames DEF Init
<1>3. wire \in Seq(Notes) /\ chan \in [Streams -> [events : Seq(Notes), open : BOOLEAN]]
  BY DEF Init
<1>4. \A s \in Streams : Len(chan[s].events) <= Buffer
  BY BoundsAssumption DEF Init
<1>5. told \in [Streams -> Counted] /\ lost \in [Streams -> SUBSET Notes]
  BY Records DEF Init
<1>6. row \in [Notes -> {"none", "unread", "read"}] /\ changes \in 0..MaxChanges
      /\ deliver \in [note : Notes \cup {Nobody}, pending : SUBSET Streams]
  BY BoundsAssumption DEF Init, NoEvent
<1>7. TypeOK
  BY <1>1, <1>2, <1>3, <1>4, <1>5, <1>6 DEF Init, TypeOK, Proc
<1>8. Noted /\ Handed
  BY Records DEF Init, Noted, Handed, NoEvent
<1>9. QED
  BY <1>7, <1>8 DEF TypesInv

LEMMA NextTyped == TypesInv /\ [Next]_vars => TypesInv'
<1> SUFFICES ASSUME TypesInv, [Next]_vars PROVE TypesInv'
  OBVIOUS
<1>1. CASE UNCHANGED vars
  BY <1>1 DEF vars, TypesInv, TypeOK, Noted, Handed
<1>2. CASE Next
  BY <1>2, StoreTyped, AskTyped, WorkTyped, StreamTyped, ServerTyped DEF Next
<1>3. QED
  BY <1>1, <1>2

(* Every variable has its type in every reachable state.                   *)
THEOREM TypeCorrect == Spec => []TypeOK
<1>1. TypesInv => TypeOK
  BY DEF TypesInv
<1>2. QED
  BY <1>1, InitTyped, NextTyped, PTL DEF Spec

-----------------------------------------------------------------------------
(* The broker.                                                             *)

(* Who is registered, and which channels are open, changes only with the   *)
(* lock held, so that nobody is being sent to.                             *)
LEMMA NextBroker == BrokerInv /\ [Next]_vars => BrokerInv'
<1> SUFFICES ASSUME BrokerInv, [Next]_vars PROVE (Registered /\ NoPanic)'
  BY NextTyped DEF BrokerInv
<1>0. /\ proc \in [Procs -> Proc] /\ Streams \subseteq Procs /\ Requests \subseteq Procs
      /\ chan \in [Streams -> [events : Seq(Notes), open : BOOLEAN]]
      /\ clients \subseteq Streams /\ TypesInv
  BY DEF BrokerInv, TypesInv, TypeOK, Proc, Procs
<1> USE DEF NoPanic
<1>1. ASSUME UNCHANGED <<deliver, clients, chan, phase, panicked>>,
             \A s \in Streams : \/ proc'[s].pc = proc[s].pc
                                \/ proc[s].pc \in Reading /\ proc'[s].pc \in Reading
      PROVE  (Registered /\ NoPanic)'
  BY <1>0, <1>1 DEF BrokerInv, Registered, Reading
<1>2. ASSUME NEW r \in Requests, Change(r) PROVE (Registered /\ NoPanic)'
  <2>1. UNCHANGED <<broker, phase>>
    <3>1. CASE Ask(r)
      BY <3>1 DEF Ask
    <3>2. CASE ~Ask(r)
      BY <1>0, <1>2, <3>2, Changes DEF Store
    <3>3. QED
      BY <3>1, <3>2
  <2>2. \A s \in Streams : proc'[s].pc = proc[s].pc
    <3>1. \A s \in Streams : s # r
      BY GoroutinesApart
    <3>2. CASE Ask(r)
      BY <1>0, <3>1, <3>2 DEF Ask
    <3>3. CASE ~Ask(r)
      <4>1. PICK n \in Notes \cup {Nobody}, v \in Values : Store(r, n, v)
        BY <1>0, <1>2, <3>3, Changes
      <4>2. \A q \in Procs \ {r} : proc'[q].pc = proc[q].pc
        BY <1>0, <4>1, Stored DEF Values
      <4>3. QED
        BY <1>0, <3>1, <4>2
    <3>4. QED
      BY <3>2, <3>3
  <2>3. QED
    BY <1>1, <2>1, <2>2 DEF broker
<1>3. ASSUME NEW p \in Procs, Work(p) PROVE (Registered /\ NoPanic)'
  <2>1. CASE Invalidate(p) \/ Publish(p)
    <3>1. UNCHANGED <<deliver, clients, chan, phase, panicked>>
      BY <2>1 DEF Invalidate, Publish, broker
    <3>2. /\ p \notin Streams
          /\ \A q \in Procs : q # p => proc'[q] = proc[q]
      BY <1>0, <2>1 DEF Invalidate, Publish, Advance, At, BrokerInv, Registered, Reading
    <3>3. QED
      BY <1>0, <1>1, <3>1, <3>2
  <2>2. CASE ReadCache(p) \/ CountUnread(p) \/ FillCache(p)
    <3>1. UNCHANGED <<deliver, clients, chan, phase, panicked>>
      BY <2>2 DEF ReadCache, CountUnread, FillCache, broker
    <3>2. /\ proc[p].pc \in Reading /\ (p \in Streams => proc'[p].pc \in Reading)
          /\ \A q \in Procs : q # p => proc'[q] = proc[q]
      BY <1>0, <2>2 DEF ReadCache, CountUnread, FillCache, Answer, At, Reading, NoProc, Proc
    <3>3. QED
      BY <1>0, <1>1, <3>1, <3>2
  <2>3. QED
    BY <1>3, <2>1, <2>2 DEF Work
<1>4. ASSUME NEW s \in Streams, Open(s) PROVE (Registered /\ NoPanic)'
  <2>1. /\ proc'[s].pc = "asking" /\ proc[s].pc = "idle" /\ s \notin clients
        /\ \A q \in Procs : q # s => proc'[q] = proc[q]
    BY <1>0, <1>4 DEF Open, At, BrokerInv, Registered, Reading
  <2>2. deliver.pending = {} /\ UNCHANGED <<deliver, phase, panicked>>
    BY <1>4 DEF Open, Subscribe, Unlocked, NoEvent
  <2>3. CASE phase = "closed"
    <3>1. clients' = clients /\ \A t \in Streams : t # s => chan'[t] = chan[t]
      BY <1>0, <1>4, <2>1, <2>3 DEF Open, Subscribe, Shut
    <3>2. QED
      BY <1>0, <2>1, <2>2, <2>3, <3>1 DEF BrokerInv, Registered, Reading
  <2>4. CASE phase # "closed"
    <3>1. clients' = clients \cup {s} /\ chan' = chan
      BY <1>4, <2>4 DEF Open, Subscribe
    <3>2. chan[s].open
      BY <2>1 DEF BrokerInv, Registered
    <3>3. QED
      BY <1>0, <2>1, <2>2, <3>1, <3>2 DEF BrokerInv, Registered, Reading
  <2>5. QED
    BY <2>3, <2>4
<1>5. ASSUME NEW s \in Streams, Disconnect(s) \/ EndOfStream(s)
      PROVE  (Registered /\ NoPanic)'
  <2>1. Cleanup(s)
    BY <1>5 DEF Disconnect, EndOfStream
  <2>2. /\ deliver.pending = {} /\ UNCHANGED <<deliver, phase, panicked>>
        /\ clients' = clients \ {s}
    BY <2>1 DEF Cleanup, Unlocked, NoEvent
  <2>3. /\ \A t \in Streams : t # s => proc'[t] = proc[t] /\ chan'[t] = chan[t]
        /\ proc'[s].pc = "ended"
    BY <1>0, <2>1 DEF Cleanup, Shut, Proc
  <2>4. QED
    BY <1>0, <2>2, <2>3 DEF BrokerInv, Registered, Reading
<1>6. ASSUME NEW s \in Streams, Send(s) PROVE (Registered /\ NoPanic)'
  <2>1. chan[s].open
    BY <1>6 DEF Send, BrokerInv, Registered
  <2>2. /\ deliver'.pending \subseteq deliver.pending /\ panicked' = panicked
        /\ UNCHANGED <<clients, proc, phase>>
    <3>1. panicked \in BOOLEAN
          /\ deliver \in [note : Notes \cup {Nobody}, pending : SUBSET Streams]
      BY <1>0 DEF TypesInv, TypeOK
    <3>2. /\ deliver' = [deliver EXCEPT !.pending = @ \ {s}]
          /\ panicked' = (panicked \/ ~chan[s].open)
          /\ UNCHANGED <<clients, proc, phase>>
      BY <1>6 DEF Send
    <3>3. deliver'.pending = deliver.pending \ {s}
      BY <3>1, <3>2
    <3>4. panicked' = panicked
      BY <2>1, <3>1, <3>2, Zenon
    <3>5. QED
      BY <3>2, <3>3, <3>4
  <2>3. \A t \in Streams : chan'[t].open = chan[t].open
    <3>1. \/ chan' = chan
          \/ chan' = [chan EXCEPT ![s].events = Append(@, deliver.note)]
      BY <1>6 DEF Send
    <3>2. CASE chan' = [chan EXCEPT ![s].events = Append(@, deliver.note)]
      <4> DEFINE x == [chan[s] EXCEPT !.events = Append(@, deliver.note)]
      <4>1. x.open = chan[s].open /\ chan' = [chan EXCEPT ![s] = x]
        BY <1>0, <3>2
      <4> HIDE DEF x
      <4>2. QED
        BY <1>0, <4>1
    <3>3. QED
      BY <3>1, <3>2
  <2>4. QED
    BY <1>0, <2>2, <2>3 DEF BrokerInv, Registered
<1>7. ASSUME NEW s \in Streams, Receive(s) PROVE (Registered /\ NoPanic)'
  <2>1. \A t \in Streams : chan'[t].open = chan[t].open
    BY <1>0, <1>7 DEF Receive
  <2>2. QED
    BY <1>0, <1>7, <2>1 DEF Receive, BrokerInv, Registered
<1>8. CASE Deliver \/ Unlock
  BY <1>8 DEF Deliver, Unlock, NoEvent, BrokerInv, Registered
<1>9. CASE Drop \/ Expire
  BY <1>1, <1>9 DEF Drop, Expire, broker
<1>10. CASE Stop \/ StopListening \/ Stopped
  BY <1>10 DEF Stop, StopListening, Stopped, broker, BrokerInv, Registered
<1>11. CASE CloseBroker
  <2>1. \A t \in Streams : proc[t].pc = "idle" => chan'[t] = chan[t]
    BY <1>0, <1>11 DEF CloseBroker, Shut, BrokerInv, Registered, Reading
  <2>2. QED
    BY <1>11, <2>1 DEF CloseBroker, Unlocked, NoEvent, BrokerInv, Registered
<1>12. CASE UNCHANGED vars
  BY <1>1, <1>12 DEF vars
<1>13. QED
  BY <1>2, <1>3, <1>4, <1>5, <1>6, <1>7, <1>8, <1>9, <1>10, <1>11, <1>12 DEF Next

LEMMA InitBroker == Init => BrokerInv
<1> SUFFICES ASSUME Init PROVE BrokerInv
  OBVIOUS
<1>1. Registered /\ NoPanic
  BY Records DEF Init, Registered, NoPanic, Reading, NoEvent, Procs
<1>2. QED
  BY <1>1, InitTyped DEF BrokerInv

(* The broker never sends to a closed channel: Subscribe, cleanup and      *)
(* Shutdown wait for a delivery to end, and who is registered is open.     *)
THEOREM NeverPanics == Spec => []NoPanic
<1>1. BrokerInv => NoPanic
  BY DEF BrokerInv
<1>2. QED
  BY <1>1, InitBroker, NextBroker, PTL DEF Spec

-----------------------------------------------------------------------------
(* The streams.                                                            *)

(* What a queue holds after its head is gone.                              *)
LEMMA TailKeeps ==
  ASSUME NEW q \in Seq(Notes), q # <<>>, NEW n, Holds(q, n)
  PROVE  n = Head(q) \/ Holds(Tail(q), n)
<1>1. PICK i \in DOMAIN q : q[i] = n
  BY DEF Holds
<1>2. Len(q) \in Nat /\ DOMAIN q = 1..Len(q) /\ i \in 1..Len(q)
  OBVIOUS
<1>3. CASE i = 1
  BY <1>1, <1>3
<1>4. CASE i # 1
  <2>1. Len(Tail(q)) = Len(q) - 1 /\ DOMAIN Tail(q) = 1..(Len(q) - 1)
    BY <1>2, HeadTailProperties
  <2>2. i - 1 \in 1..(Len(q) - 1) /\ Tail(q)[i - 1] = n
    BY <1>1, <1>2, <1>4, <2>1
  <2>3. QED
    BY <2>1, <2>2 DEF Holds
<1>5. QED
  BY <1>3, <1>4

(* And after something is appended.                                        *)
LEMMA AppendKeeps ==
  ASSUME NEW q \in Seq(Notes), NEW n, NEW m
  PROVE  Holds(Append(q, m), m) /\ (Holds(q, n) => Holds(Append(q, m), n))
<1>1. /\ Len(q) \in Nat /\ DOMAIN q = 1..Len(q) /\ DOMAIN Append(q, m) = 1..(Len(q) + 1)
      /\ Append(q, m)[Len(q) + 1] = m
      /\ \A i \in 1..Len(q) : Append(q, m)[i] = q[i]
  OBVIOUS
<1>2. Len(q) + 1 \in 1..(Len(q) + 1) /\ 1..Len(q) \subseteq 1..(Len(q) + 1)
  BY <1>1
<1>3. QED
  BY <1>1, <1>2 DEF Holds

LEMMA InFlightHolds ==
  ASSUME NEW n
  PROVE  InFlight(n) <=> (\E r \in Requests : proc[r].note = n) \/ Holds(wire, n)
BY DEF InFlight, Holds

(* What is in flight stays so, or is published.                            *)
LEMMA FlightKeeps ==
  ASSUME NEW n \in Notes, InFlight(n), UNCHANGED wire,
         \A p \in Requests : proc[p].note = n => proc'[p].note = n
  PROVE  InFlight(n)'
BY DEF InFlight

(* An event that is on its way to a registered stream reaches it.          *)
LEMMA ReachedStays ==
  ASSUME BrokerInv, [Next]_vars, NEW s \in Streams, proc[s].pc \in Reading,
         NEW n \in Notes, Reached(s, n)
  PROVE  \/ Reached(s, n)'
         \/ Receive(s) /\ n \in told'[s].notes
         \/ proc'[s].pc = "ended"
<1>0. /\ proc \in [Procs -> Proc] /\ Streams \subseteq Procs /\ Requests \subseteq Procs
      /\ chan \in [Streams -> [events : Seq(Notes), open : BOOLEAN]]
      /\ wire \in Seq(Notes) /\ lost \in [Streams -> SUBSET Notes]
      /\ clients \subseteq Streams /\ TypesInv /\ n # Nobody
  BY NobodyApart DEF BrokerInv, TypesInv, TypeOK, Proc, Procs
<1>1. ASSUME UNCHANGED <<lost, wire, deliver, phase>>, chan'[s].events = chan[s].events,
             \A p \in Requests : proc[p].note = n => proc'[p].note = n
      PROVE  Reached(s, n)'
  <2>1. InFlight(n) => InFlight(n)'
    BY <1>1, FlightKeeps
  <2>2. QED
    BY <1>1, <2>1 DEF Reached
<1>2. ASSUME NEW r \in Requests, Change(r) PROVE Reached(s, n)'
  <2>1. UNCHANGED <<broker, phase>>
    BY <1>0, <1>2, Changes DEF Store, Ask
  <2>2. \A p \in Requests : proc[p].note = n => proc'[p].note = n
    <3>1. CASE Ask(r)
      BY <1>0, <3>1 DEF Ask
    <3>2. CASE ~Ask(r)
      <4>1. proc[r].note = Nobody /\ \A p \in Procs \ {r} : proc'[p].note = proc[p].note
        BY <1>0, <1>2, <3>2, Changes, Stored DEF Values, TypesInv, Noted
      <4>2. QED
        BY <1>0, <4>1
    <3>3. QED
      BY <3>1, <3>2
  <2>3. QED
    BY <1>1, <2>1, <2>2 DEF broker
<1>3. ASSUME NEW p \in Procs, Work(p) PROVE Reached(s, n)'
  <2>1. CASE Publish(p)
    <3>1. \A q \in Requests : q # p => proc'[q] = proc[q]
      BY <1>0, <2>1 DEF Publish
    <3>2. UNCHANGED <<deliver, chan, phase>> /\ PublishEvent(proc[p].note)
      BY <2>1 DEF Publish
    <3>3. CASE phase = "running" /\ wire' = Append(wire, proc[p].note) /\ UNCHANGED lost
      <4>1. Holds(wire', proc[p].note) /\ (Holds(wire, n) => Holds(wire', n))
        BY <1>0, <3>3, AppendKeeps
      <4>2. InFlight(n) => InFlight(n)'
        BY <3>1, <4>1 DEF InFlight, Holds
      <4>3. QED
        BY <3>2, <3>3, <4>2 DEF Reached
    <3>4. CASE /\ phase = "running" /\ UNCHANGED wire
               /\ lost' = [t \in Streams |-> lost[t] \cup {proc[p].note}]
      <4>1. InFlight(n) => InFlight(n)' \/ n \in lost'[s]
        BY <3>1, <3>4 DEF InFlight, Holds
      <4>2. n \in lost[s] => n \in lost'[s]
        BY <3>4
      <4>3. QED
        BY <3>2, <4>1, <4>2 DEF Reached
    <3>5. CASE phase # "running"
      BY <3>2, <3>5 DEF Reached
    <3>6. QED
      BY <3>2, <3>3, <3>4, <3>5 DEF PublishEvent
  <2>2. CASE Invalidate(p)
    <3>1. \A q \in Requests : proc[q].note = n => proc'[q].note = n
      BY <1>0, <2>2 DEF Invalidate, Advance, Proc
    <3>2. QED
      BY <1>1, <2>2, <3>1 DEF Invalidate, broker
  <2>3. CASE ReadCache(p) \/ CountUnread(p) \/ FillCache(p)
    <3>1. proc[p].note = Nobody /\ \A q \in Procs : q # p => proc'[q] = proc[q]
      BY <1>0, <2>3 DEF ReadCache, CountUnread, FillCache, Answer, At, TypesInv, Noted
    <3>2. QED
      BY <1>0, <1>1, <2>3, <3>1 DEF ReadCache, CountUnread, FillCache, broker
  <2>4. QED
    BY <1>3, <2>1, <2>2, <2>3 DEF Work
<1>4. ASSUME NEW t \in Streams, Open(t) \/ Disconnect(t) \/ EndOfStream(t)
      PROVE  Reached(s, n)'
  <2>1. \A q \in Requests : proc'[q] = proc[q]
    BY <1>0, <1>4, GoroutinesApart DEF Open, Disconnect, EndOfStream, Cleanup
  <2>2. chan'[s].events = chan[s].events
    <3>1. Shut({t}) \/ UNCHANGED chan
      BY <1>4 DEF Open, Subscribe, Disconnect, EndOfStream, Cleanup
    <3>2. Shut({t}) => chan'[s].events = chan[s].events
      BY <1>0 DEF Shut
    <3>3. QED
      BY <3>1, <3>2
  <2>3. UNCHANGED <<lost, wire, deliver, phase>>
    BY <1>4 DEF Open, Disconnect, EndOfStream, Cleanup
  <2>4. QED
    BY <1>1, <2>1, <2>2, <2>3
<1>5. ASSUME NEW t \in Streams, Send(t) PROVE Reached(s, n)'
  <2>1. UNCHANGED <<wire, phase, proc>> /\ deliver'.note = deliver.note
        /\ deliver'.pending = deliver.pending \ {t}
    BY <1>0, <1>5 DEF Send, TypesInv, TypeOK
  <2>2. InFlight(n) => InFlight(n)'
    BY <2>1 DEF InFlight
  <2>3. CASE Len(chan[t].events) < Buffer
    <3>1. chan' = [chan EXCEPT ![t].events = Append(chan[t].events, deliver.note)]
          /\ lost' = lost
      BY <1>5, <2>3 DEF Send
    <3>2. CASE t = s
      <4>1. chan'[s].events = Append(chan[s].events, deliver.note)
        BY <1>0, <3>1, <3>2
      <4>2. /\ Holds(chan'[s].events, deliver.note)
            /\ Holds(chan[s].events, n) => Holds(chan'[s].events, n)
        <5>1. chan[s].events \in Seq(Notes)
          BY <1>0
        <5>2. QED
          BY <4>1, <5>1, AppendKeeps
      <4>3. QED
        BY <2>1, <2>2, <3>1, <4>2 DEF Reached
    <3>3. CASE t # s
      <4>1. chan'[s] = chan[s]
        BY <1>0, <3>1, <3>3
      <4>2. QED
        BY <2>1, <2>2, <3>1, <3>3, <4>1 DEF Reached
    <3>4. QED
      BY <3>2, <3>3
  <2>4. CASE ~(Len(chan[t].events) < Buffer)
    <3>1. chan' = chan /\ lost' = [lost EXCEPT ![t] = lost[t] \cup {deliver.note}]
      BY <1>5, <2>4 DEF Send
    <3>2. n \in lost[s] => n \in lost'[s]
      BY <1>0, <3>1
    <3>3. (deliver.note = n /\ t = s) => n \in lost'[s]
      BY <1>0, <3>1
    <3>4. QED
      BY <2>1, <2>2, <3>1, <3>2, <3>3 DEF Reached
  <2>5. QED
    BY <2>3, <2>4
<1>6. ASSUME NEW t \in Streams, Receive(t)
      PROVE  Reached(s, n)' \/ (Receive(s) /\ n \in told'[s].notes)
  <2>1. UNCHANGED <<lost, wire, deliver, phase, proc>>
    BY <1>6 DEF Receive
  <2>2. CASE t # s
    <3>1. chan'[s].events = chan[s].events
      BY <1>0, <1>6, <2>2 DEF Receive
    <3>2. /\ UNCHANGED <<lost, wire, deliver, phase>>
          /\ \A p \in Requests : proc[p].note = n => proc'[p].note = n
      BY <2>1
    <3>3. QED
      BY <1>1, <3>1, <3>2
  <2>3. CASE t = s
    <3>1. /\ chan'[s].events = Tail(chan[s].events) /\ chan[s].events # <<>>
          /\ chan[s].events \in Seq(Notes)
      BY <1>0, <1>6, <2>3 DEF Receive
    <3>2. Head(chan[s].events) \in told'[s].notes
      BY <1>0, <1>6, <2>3 DEF Receive, TypesInv, TypeOK, Counted
    <3>3. Holds(chan[s].events, n) => n \in told'[s].notes \/ Holds(chan'[s].events, n)
      BY <3>1, <3>2, TailKeeps
    <3>4. InFlight(n) => InFlight(n)'
      BY <2>1 DEF InFlight
    <3>5. lost' = lost /\ deliver' = deliver /\ phase' = phase /\ Receive(s)
      BY <1>6, <2>1, <2>3
    <3>6. QED
      BY <3>3, <3>4, <3>5 DEF Reached
  <2>4. QED
    BY <2>2, <2>3
<1>7. CASE Deliver
  <2>1. /\ phase = "running" /\ wire # <<>> /\ deliver.pending = {}
        /\ deliver'.note = Head(wire) /\ s \in deliver'.pending
        /\ wire' = Tail(wire) /\ UNCHANGED <<proc, chan, lost, phase>>
    BY <1>7 DEF Deliver, Unlocked, NoEvent, BrokerInv, Registered
  <2>2. InFlight(n) => InFlight(n)' \/ deliver'.note = n
    BY <1>0, <2>1, TailKeeps, InFlightHolds DEF InFlight, Holds
  <2>3. QED
    BY <2>1, <2>2 DEF Reached
<1>8. CASE Unlock
  <2>1. deliver.pending = {} /\ UNCHANGED <<wire, proc, chan, lost, phase>>
    BY <1>8 DEF Unlock
  <2>2. InFlight(n) => InFlight(n)'
    BY <2>1 DEF InFlight
  <2>3. QED
    BY <2>1, <2>2 DEF Reached
<1>9. CASE Drop
  <2>1. /\ wire # <<>> /\ wire' = Tail(wire) /\ UNCHANGED <<proc, deliver, chan, phase>>
        /\ lost'[s] = lost[s] \cup {Head(wire)}
    BY <1>9 DEF Drop
  <2>2. InFlight(n) => InFlight(n)' \/ n \in lost'[s]
    <3>1. Holds(wire, n) => n = Head(wire) \/ Holds(wire', n)
      BY <1>0, <2>1, TailKeeps
    <3>2. (\E r \in Requests : proc[r].note = n) => InFlight(n)'
      BY <2>1 DEF InFlight
    <3>3. Holds(wire', n) => InFlight(n)'
      BY DEF InFlight, Holds
    <3>4. QED
      BY <2>1, <3>1, <3>2, <3>3, InFlightHolds
  <2>3. QED
    BY <2>1, <2>2 DEF Reached
<1>10. CASE Stop \/ CloseBroker \/ StopListening \/ Stopped
  BY <1>10 DEF Stop, CloseBroker, StopListening, Stopped, Reached
<1>11. CASE Expire \/ UNCHANGED vars
  BY <1>1, <1>11 DEF Expire, broker, vars
<1>12. QED
  BY <1>2, <1>3, <1>4, <1>5, <1>6, <1>7, <1>8, <1>9, <1>10, <1>11 DEF Next

-----------------------------------------------------------------------------
(* The counts.                                                             *)

\* NothingMissed, by what reaches a stream.
StreamsReached ==
  \A s \in Streams : (At(s, "streaming") /\ ~told[s].suspect) =>
    \A n \in Unread \ told[s].notes : Reached(s, n)

LEMMA MissedNothing == NothingMissed <=> StreamsReached
BY DEF NothingMissed, StreamsReached, Reached, Holds

\* What every step does but those that change rows, counts and the cache.
Quiet ==
  /\ row' = row /\ cache' \in {cache, Miss}
  /\ \A p \in Procs :
       \/ proc'[p] = proc[p]
       \/ /\ proc[p].pc \in {"idle", "cleared", "streaming"}
          /\ proc'[p].pc \in {"idle", "asking", "ended"}
  /\ \A s \in Streams : At(s, "streaming")' =>
       told[s].notes \subseteq told'[s].notes /\ told'[s].suspect = told[s].suspect

\* A request that stores, one that invalidates, and one that reads.
Storing(r) == Change(r) /\ ~Ask(r)
Counting(p) == ReadCache(p) \/ CountUnread(p) \/ FillCache(p)

LEMMA QuietSteps ==
  ASSUME BrokerInv, [Next]_vars, \A r \in Requests : ~Storing(r),
         \A p \in Procs : ~Invalidate(p) /\ ~Counting(p)
  PROVE  Quiet
<1>0. /\ proc \in [Procs -> Proc] /\ Streams \subseteq Procs /\ Requests \subseteq Procs
      /\ told \in [Streams -> Counted]
  BY DEF BrokerInv, TypesInv, TypeOK, Proc, Procs
<1>1. ASSUME UNCHANGED <<row, told>>, cache' \in {cache, Miss},
             NEW p \in Procs, NEW x \in Proc,
             proc' = [proc EXCEPT ![p] = x], proc[p].pc \in {"idle", "cleared"},
             x.pc \in {"idle", "asking"}
      PROVE  Quiet
  BY <1>0, <1>1, Moved DEF Quiet
<1>2. ASSUME UNCHANGED <<row, told, proc>>, cache' \in {cache, Miss} PROVE Quiet
  BY <1>2 DEF Quiet
<1>3. ASSUME NEW r \in Requests, Ask(r) PROVE Quiet
  <2>1. [proc[r] EXCEPT !.pc = "asking"] \in Proc
    BY <1>0 DEF Proc, Pcs
  <2>2. proc' = [proc EXCEPT ![r] = [proc[r] EXCEPT !.pc = "asking"]]
    BY <1>0, <1>3 DEF Ask
  <2>3. UNCHANGED <<row, told, cache>> /\ proc[r].pc = "idle"
    BY <1>3 DEF Ask, rows, At
  <2>4. [proc[r] EXCEPT !.pc = "asking"].pc = "asking"
    BY <1>0 DEF Proc
  <2>5. QED
    BY <1>0, <1>1, <2>1, <2>2, <2>3, <2>4
<1>4. ASSUME NEW p \in Procs, Publish(p) PROVE Quiet
  <2>1. UNCHANGED <<row, told, cache>> /\ proc[p].pc = "cleared"
        /\ proc' = [proc EXCEPT ![p] = NoProc]
    BY <1>4 DEF Publish, rows, At
  <2>2. QED
    BY <1>1, <2>1, Records
<1>5. ASSUME NEW s \in Streams, Open(s) PROVE Quiet
  <2>1. [proc[s] EXCEPT !.pc = "asking"] \in Proc
    BY <1>0 DEF Proc, Pcs
  <2>2. proc' = [proc EXCEPT ![s] = [proc[s] EXCEPT !.pc = "asking"]]
    BY <1>0, <1>5 DEF Open
  <2>3. UNCHANGED <<row, told, cache>> /\ proc[s].pc = "idle"
    BY <1>5 DEF Open, rows, At
  <2>4. [proc[s] EXCEPT !.pc = "asking"].pc = "asking"
    BY <1>0 DEF Proc
  <2>5. QED
    BY <1>0, <1>1, <2>1, <2>2, <2>3, <2>4
<1>6. ASSUME NEW s \in Streams, Disconnect(s) \/ EndOfStream(s) PROVE Quiet
  <2>1. /\ proc[s].pc = "streaming" /\ UNCHANGED <<row, cache>>
        /\ proc' = [proc EXCEPT ![s].pc = "ended"] /\ told' = [told EXCEPT ![s] = NoCount]
    BY <1>6 DEF Disconnect, EndOfStream, Cleanup, rows, At
  <2>2. /\ proc'[s].pc = "ended" /\ \A q \in Procs : q # s => proc'[q] = proc[q]
        /\ \A t \in Streams : t # s => told'[t] = told[t]
    BY <1>0, <2>1 DEF Proc
  <2>3. QED
    BY <1>0, <2>1, <2>2 DEF Quiet, At
<1>7. ASSUME NEW s \in Streams, Receive(s) PROVE Quiet
  <2>1. \A t \in Streams :
          told[t].notes \subseteq told'[t].notes /\ told'[t].suspect = told[t].suspect
    BY <1>0, <1>7 DEF Receive, Counted
  <2>2. QED
    BY <1>7, <2>1 DEF Receive, Quiet, rows
<1>8. ASSUME NEW s \in Streams, Send(s) PROVE Quiet
  BY <1>2, <1>8 DEF Send, rows
<1>9. CASE \/ Deliver \/ Unlock \/ Drop \/ Expire
           \/ Stop \/ CloseBroker \/ StopListening \/ Stopped
  BY <1>2, <1>9
  DEF Deliver, Unlock, Drop, Expire, Stop, CloseBroker, StopListening, Stopped, rows
<1>10. CASE UNCHANGED vars
  BY <1>2, <1>10 DEF vars
<1>11. QED
  BY <1>3, <1>4, <1>5, <1>6, <1>7, <1>8, <1>9, <1>10 DEF Next, Work, Storing, Counting

(* Nothing but a change makes something unread, or a stored request.       *)
LEMMA QuietCounts ==
  ASSUME CountInv, [Next]_vars, Quiet
  PROVE  (CountFresh /\ CacheExplained /\ CountReached /\ StreamsReached)'
<1>0. /\ proc \in [Procs -> Proc] /\ Streams \subseteq Procs /\ Requests \subseteq Procs
      /\ BrokerInv /\ Unread' = Unread /\ Unread \subseteq Notes
  BY DEF CountInv, BrokerInv, TypesInv, TypeOK, Proc, Procs, Unread, Quiet
<1>1. CountFresh'
  BY <1>0 DEF CountInv, CountFresh, Quiet, At
<1>2. CacheExplained'
  <2>1. SUFFICES ASSUME (cache # Miss /\ ~cache.suspect)', NEW n \in Unread' \ cache'.notes
                 PROVE  \E r \in Requests : At(r, "stored")' /\ proc'[r].note = n
    BY DEF CacheExplained
  <2>2. cache' = cache
    BY <2>1 DEF Quiet
  <2>3. PICK r \in Requests : At(r, "stored") /\ proc[r].note = n
    BY <1>0, <2>1, <2>2 DEF CountInv, CacheExplained
  <2>4. proc'[r] = proc[r]
    BY <1>0, <2>3 DEF Quiet, At
  <2>5. QED
    BY <2>3, <2>4 DEF At
<1>3. CountReached'
  <2>1. SUFFICES ASSUME NEW s \in Streams, At(s, "counted")', NEW n \in Unread',
                        n \notin proc'[s].count.notes
                 PROVE  Reached(s, n)'
    BY DEF CountReached
  <2>2. proc'[s] = proc[s] /\ proc[s].pc = "counted"
    BY <1>0, <2>1 DEF Quiet, At
  <2>3. Reached(s, n)
    BY <1>0, <2>1, <2>2 DEF CountInv, CountReached, At
  <2>4. QED
    BY <1>0, <2>1, <2>2, <2>3, ReachedStays DEF Receive, At, Reading
<1>4. StreamsReached'
  <2>1. SUFFICES ASSUME NEW s \in Streams, At(s, "streaming")', ~told'[s].suspect,
                        NEW n \in Unread', n \notin told'[s].notes
                 PROVE  Reached(s, n)'
    BY DEF StreamsReached
  <2>2. /\ proc[s].pc = "streaming" /\ proc'[s].pc = "streaming"
        /\ ~told[s].suspect /\ n \notin told[s].notes
    BY <1>0, <2>1 DEF Quiet, At
  <2>3. Reached(s, n)
    BY <1>0, <2>1, <2>2, MissedNothing DEF CountInv, StreamsReached, At
  <2>4. QED
    BY <1>0, <2>1, <2>2, <2>3, ReachedStays DEF Reading
<1>5. QED
  BY <1>1, <1>2, <1>3, <1>4

(* A change is carried by its request, and makes every count suspect.      *)
LEMMA StoringCounts ==
  ASSUME CountInv, NEW r \in Requests, Storing(r), [Next]_vars
  PROVE  (CountFresh /\ CacheExplained /\ CountReached /\ StreamsReached)'
<1>0. /\ proc \in [Procs -> Proc] /\ Streams \subseteq Procs /\ Requests \subseteq Procs
      /\ BrokerInv /\ TypesInv /\ r \notin Streams
  BY GoroutinesApart DEF CountInv, BrokerInv, TypesInv, TypeOK, Proc, Procs
<1>1. PICK m \in Notes \cup {Nobody}, v \in Values :
        /\ Store(r, m, v)
        /\ \A n \in Notes : v[n] = "unread" => n = m \/ n \in Unread
  BY <1>0, Changes DEF Storing
<1>2. /\ proc' \in [Procs -> Proc] /\ row' = v
      /\ proc[r].pc = "idle" /\ proc'[r].pc = "stored" /\ proc'[r].note = m
      /\ \A q \in Procs \ {r} :
           /\ proc'[q].pc = proc[q].pc /\ proc'[q].note = proc[q].note
           /\ proc'[q].count.notes = proc[q].count.notes
           /\ proc[q].pc = "counted" => proc'[q].count.suspect
  BY <1>0, <1>1, Stored DEF Values
<1>3. UNCHANGED <<cache, told, broker, phase>>
  BY <1>1 DEF Store
<1>4. \A n \in Unread' : n = m \/ n \in Unread
  BY <1>1, <1>2 DEF Unread
<1>5. \A s \in Streams : Reached(s, m)'
  BY <1>2 DEF Reached, InFlight
<1>6. CountFresh'
  BY <1>2 DEF CountFresh, At
<1>7. CacheExplained'
  <2>1. SUFFICES ASSUME (cache # Miss /\ ~cache.suspect)', NEW n \in Unread' \ cache'.notes
                 PROVE  \E q \in Requests : At(q, "stored")' /\ proc'[q].note = n
    BY DEF CacheExplained
  <2>2. CASE n = m
    BY <1>2, <2>2 DEF At
  <2>3. CASE n # m
    <3>1. PICK q \in Requests : At(q, "stored") /\ proc[q].note = n
      BY <1>3, <1>4, <2>1, <2>3 DEF CountInv, CacheExplained
    <3>2. q # r
      BY <1>2, <3>1 DEF At
    <3>3. QED
      BY <1>0, <1>2, <3>1, <3>2 DEF At
  <2>4. QED
    BY <2>2, <2>3
<1>8. CountReached'
  <2>1. SUFFICES ASSUME NEW s \in Streams, At(s, "counted")', NEW n \in Unread',
                        n \notin proc'[s].count.notes, n # m
                 PROVE  Reached(s, n)'
    BY <1>5 DEF CountReached
  <2>2. /\ proc[s].pc = "counted" /\ n \notin proc[s].count.notes /\ n \in Unread
        /\ proc'[s].pc = "counted"
    BY <1>0, <1>2, <1>4, <2>1 DEF At
  <2>3. Reached(s, n)
    BY <2>1, <2>2 DEF CountInv, CountReached, At
  <2>4. n \in Notes
    BY <2>2 DEF Unread
  <2>5. QED
    BY <1>0, <2>1, <2>2, <2>3, <2>4, ReachedStays DEF Receive, At, Reading
<1>9. StreamsReached'
  <2>1. SUFFICES ASSUME NEW s \in Streams, At(s, "streaming")', ~told'[s].suspect,
                        NEW n \in Unread', n \notin told'[s].notes, n # m
                 PROVE  Reached(s, n)'
    BY <1>5 DEF StreamsReached
  <2>2. /\ proc[s].pc = "streaming" /\ proc'[s].pc = "streaming" /\ n \in Unread
        /\ ~told[s].suspect /\ n \notin told[s].notes
    BY <1>0, <1>2, <1>3, <1>4, <2>1 DEF At
  <2>3. Reached(s, n)
    BY <2>1, <2>2, MissedNothing DEF CountInv, StreamsReached, At
  <2>4. n \in Notes
    BY <2>2 DEF Unread
  <2>5. QED
    BY <1>0, <2>1, <2>2, <2>3, <2>4, ReachedStays DEF Reading
<1>10. QED
  BY <1>6, <1>7, <1>8, <1>9

(* What is reached by a stream that goes on stays so, beside what others   *)
(* do.                                                                     *)
LEMMA OthersReached ==
  ASSUME CountInv, [Next]_vars, NEW p \in Procs, Invalidate(p) \/ Counting(p)
  PROVE  /\ Unread' = Unread
         /\ \A q \in Procs : q # p => proc'[q] = proc[q]
         /\ \A s \in Streams : s # p => told'[s] = told[s]
         /\ \A s \in Streams : (At(s, "counted") /\ s # p)' =>
              \A n \in Unread' \ proc'[s].count.notes : Reached(s, n)'
         /\ \A s \in Streams : ((At(s, "streaming") /\ s # p)' /\ ~told'[s].suspect) =>
              \A n \in Unread' \ told'[s].notes : Reached(s, n)'
<1>0. /\ proc \in [Procs -> Proc] /\ Streams \subseteq Procs
      /\ told \in [Streams -> Counted] /\ BrokerInv
  BY DEF CountInv, BrokerInv, TypesInv, TypeOK, Proc, Procs
<1>1. Unread' = Unread /\ Unread \subseteq Notes
  BY DEF Invalidate, Counting, ReadCache, CountUnread, FillCache, rows, Unread
<1>2. \A q \in Procs : q # p => proc'[q] = proc[q]
  BY <1>0 DEF Invalidate, Advance, Counting, ReadCache, CountUnread, FillCache, Answer
<1>3. \A s \in Streams : s # p => told'[s] = told[s]
  BY <1>0 DEF Invalidate, Counting, ReadCache, CountUnread, FillCache, Answer
<1>4. ASSUME NEW s \in Streams, (At(s, "counted") /\ s # p)',
             NEW n \in Unread', n \notin proc'[s].count.notes
      PROVE  Reached(s, n)'
  <2>1. proc'[s] = proc[s] /\ proc[s].pc = "counted"
    BY <1>0, <1>2, <1>4 DEF At
  <2>2. Reached(s, n)
    BY <1>1, <1>4, <2>1 DEF CountInv, CountReached, At
  <2>3. QED
    BY <1>0, <1>1, <1>4, <2>1, <2>2, ReachedStays DEF Receive, At, Reading
<1>5. ASSUME NEW s \in Streams, (At(s, "streaming") /\ s # p)', ~told'[s].suspect,
             NEW n \in Unread', n \notin told'[s].notes
      PROVE  Reached(s, n)'
  <2>1. proc'[s] = proc[s] /\ proc[s].pc = "streaming" /\ told'[s] = told[s]
    BY <1>0, <1>2, <1>3, <1>5 DEF At
  <2>2. Reached(s, n)
    BY <1>1, <1>5, <2>1, MissedNothing DEF CountInv, StreamsReached, At
  <2>3. QED
    BY <1>0, <1>1, <1>5, <2>1, <2>2, ReachedStays DEF Reading
<1>6. QED
  BY <1>1, <1>2, <1>3, <1>4, <1>5

(* An invalidation that fails leaves a suspect count.                      *)
LEMMA InvalidateCounts ==
  ASSUME CountInv, [Next]_vars, NEW p \in Procs, Invalidate(p)
  PROVE  (CountFresh /\ CacheExplained /\ CountReached /\ StreamsReached)'
<1>0. /\ proc \in [Procs -> Proc] /\ cache \in Counted \cup {Miss}
  BY DEF CountInv, BrokerInv, TypesInv, TypeOK, Proc, Procs
<1>1. proc'[p].pc \in {"idle", "cleared"}
  BY <1>0 DEF Invalidate, Advance, NoProc, Proc
<1>2. cache' = Miss \/ cache'.suspect
  BY <1>0 DEF Invalidate, Counted
<1>3. CountFresh'
  BY <1>1, OthersReached DEF CountInv, CountFresh, At
<1>4. CacheExplained'
  BY <1>2 DEF CacheExplained
<1>5. CountReached' /\ StreamsReached'
  BY <1>1, OthersReached DEF CountReached, StreamsReached, At
<1>6. QED
  BY <1>3, <1>4, <1>5

(* A count is taken, answered and cached.                                  *)
LEMMA CountingCounts ==
  ASSUME CountInv, [Next]_vars, NEW p \in Procs, Counting(p)
  PROVE  (CountFresh /\ CacheExplained /\ CountReached /\ StreamsReached)'
<1>0. /\ proc \in [Procs -> Proc] /\ Requests \subseteq Procs /\ Streams \subseteq Procs
      /\ cache \in Counted \cup {Miss} /\ told \in [Streams -> Counted]
      /\ BrokerInv /\ TypesInv /\ p \in Procs
  BY DEF CountInv, BrokerInv, TypesInv, TypeOK, Proc, Procs
<1>1. /\ Unread' = Unread /\ Unread \subseteq Notes
      /\ \A q \in Procs : q # p => proc'[q] = proc[q]
  BY OthersReached DEF Unread
<1>2. \A q \in Requests : At(q, "stored") => At(q, "stored")' /\ proc'[q].note = proc[q].note
  BY <1>0, <1>1 DEF Counting, ReadCache, CountUnread, FillCache, At
<1>3. proc'[p].pc = "counted" =>
        CountUnread(p) /\ proc'[p].count = [notes |-> Unread, suspect |-> FALSE]
  <2>1. \A c : Answer(p, c) => proc'[p].pc # "counted"
    BY <1>0 DEF Answer, NoProc
  <2>2. ReadCache(p) => proc'[p].pc # "counted"
    BY <1>0, <2>1 DEF ReadCache, Proc
  <2>3. QED
    BY <1>0, <2>1, <2>2 DEF Counting, CountUnread, FillCache, Proc
<1>4. CountFresh'
  BY <1>0, <1>1, <1>3 DEF CountInv, CountFresh, At
<1>5. CacheExplained'
  <2>1. CASE cache' = cache
    BY <1>1, <1>2, <2>1 DEF CountInv, CacheExplained
  <2>2. CASE cache' # cache
    <3>1. At(p, "counted") /\ cache' = proc[p].count
      BY <2>2 DEF Counting, ReadCache, CountUnread, FillCache
    <3>2. QED
      BY <1>0, <1>1, <3>1 DEF CountInv, CountFresh, CacheExplained
  <2>3. QED
    BY <2>1, <2>2
<1>6. CountReached'
  <2>1. SUFFICES ASSUME p \in Streams, At(p, "counted")'
                 PROVE  \A n \in Unread' \ proc'[p].count.notes : Reached(p, n)'
    BY OthersReached DEF CountReached
  <2>2. QED
    BY <1>1, <1>3, <2>1 DEF At
<1>7. StreamsReached'
  <2>1. SUFFICES ASSUME p \in Streams, At(p, "streaming")', ~told'[p].suspect,
                        NEW n \in Unread', n \notin told'[p].notes
                 PROVE  Reached(p, n)'
    BY OthersReached DEF StreamsReached
  <2>2. /\ proc[p].pc \in Reading /\ proc[p].pc # "streaming" /\ proc'[p].pc = "streaming"
        /\ n \in Unread
    BY <1>1, <2>1 DEF Counting, ReadCache, CountUnread, FillCache, At, Reading
  <2>3. SUFFICES Reached(p, n)
    BY <1>0, <1>1, <2>1, <2>2, ReachedStays DEF Receive, At
  <2>4. CASE FillCache(p)
    <3>1. told'[p].notes = proc[p].count.notes /\ At(p, "counted")
      BY <1>0, <2>1, <2>4 DEF FillCache, Answer, Proc, Counted
    <3>2. QED
      BY <2>1, <2>2, <3>1 DEF CountInv, CountReached
  <2>5. CASE ReadCache(p)
    <3>1. cache # Miss /\ Answer(p, cache)
      <4>1. ~(proc' = [proc EXCEPT ![p].pc = "missed"])
        BY <1>0, <2>2 DEF Proc
      <4>2. QED
        BY <2>5, <4>1 DEF ReadCache
    <3>2. told'[p] = cache
      BY <1>0, <2>1, <3>1 DEF Answer
    <3>3. PICK r \in Requests : proc[r].note = n
      BY <2>1, <2>2, <3>1, <3>2 DEF CountInv, CacheExplained
    <3>4. QED
      BY <3>3 DEF Reached, InFlight
  <2>6. CASE CountUnread(p)
    <3>1. told'[p].suspect
      BY <1>0, <2>1, <2>2, <2>6 DEF CountUnread, Answer, Proc
    <3>2. QED
      BY <2>1, <3>1
  <2>7. QED
    BY <2>4, <2>5, <2>6 DEF Counting
<1>8. QED
  BY <1>4, <1>5, <1>6, <1>7

LEMMA NextCounts == CountInv /\ [Next]_vars => CountInv'
<1> SUFFICES ASSUME CountInv, [Next]_vars PROVE CountInv'
  OBVIOUS
<1>1. BrokerInv' /\ BrokerInv
  BY NextBroker DEF CountInv
<1>2. (CountFresh /\ CacheExplained /\ CountReached /\ StreamsReached)'
  <2>1. CASE \E r \in Requests : Storing(r)
    BY <2>1, StoringCounts
  <2>2. CASE \E p \in Procs : Invalidate(p) \/ Counting(p)
    BY <2>2, InvalidateCounts, CountingCounts
  <2>3. CASE /\ \A r \in Requests : ~Storing(r)
             /\ \A p \in Procs : ~Invalidate(p) /\ ~Counting(p)
    BY <1>1, <2>3, QuietSteps, QuietCounts
  <2>4. QED
    BY <2>1, <2>2, <2>3
<1>3. NothingMissed'
  BY <1>2, MissedNothing, PTL
<1>4. QED
  BY <1>1, <1>2, <1>3 DEF CountInv

(* A stream misses no unread notification but one whose event was lost or  *)
(* whose count was overtaken: emit, GetUnreadCount, the handler Stream and *)
(* deliverLocal in any order, with any errors of Redis and Postgres.       *)
THEOREM StreamsMissNothing == Spec => []NothingMissed
<1>1. Init => CountInv
  <2> SUFFICES ASSUME Init PROVE CountInv
    OBVIOUS
  <2>1. Unread = {} /\ cache = Miss /\ \A p \in Procs : proc[p].pc = "idle"
    BY Records DEF Init, Unread
  <2>2. \A s \in Streams : s \in Procs
    BY DEF Procs
  <2>3. QED
    BY <2>1, <2>2, InitBroker
    DEF CountInv, CountFresh, CacheExplained, CountReached, NothingMissed, At
<1>2. CountInv => NothingMissed
  BY DEF CountInv
<1>3. QED
  BY <1>1, <1>2, NextCounts, PTL DEF Spec
=============================================================================
