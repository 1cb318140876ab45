---------------------------- MODULE FeedTimeline ----------------------------
(***************************************************************************)
(* Propagation of posts and follows into the prepared feed timelines.      *)
(*                                                                         *)
(* Post and follow mutations commit to PostgreSQL together with a feed     *)
(* event.  Workers handle the events concurrently, in any order and more   *)
(* than once: FanoutWorker.HandleFeedEvent writes or removes the post in   *)
(* one Redis timeline after the other, or rebuilds the follower's timeline *)
(* (PreparedTimelineRefresher), and a reader who finds a timeline empty    *)
(* rebuilds it too.  A rebuild reads the follow graph, then the posts,     *)
(* then replaces the stored snapshot; every other actor can move between   *)
(* these steps.                                                            *)
(*                                                                         *)
(* The outbox appears here as what it promises (EventDelivery), which      *)
(* FeedOutbox is shown to implement.  A timeline is a set: ranks only      *)
(* decide which entries a full timeline drops, and that choice is left     *)
(* open.  Visibilities "public" and "followers" are treated alike by all   *)
(* of this code and appear as "shared".                                    *)
(***************************************************************************)
EXTENDS Naturals, FiniteSets

CONSTANTS
  Users,
  Posts,
  Author,        \* Author[p]: who writes post p
  NoUser,        \* not a user
  MaxItems,      \* TimelineMaxItems
  FollowerCap,   \* FanoutMaxFollowers
  FollowingCap,  \* rows that GetFollowingIDs asks for (5000)
  Pairs,         \* bound: <<follower, followee>> pairs that may follow
  Readers,       \* bound: users who open their feed
  Mutations,     \* bound: which kinds of mutation users perform, a subset of
                 \* {"create", "update", "delete", "follow", "unfollow"}
  MaxEvents,     \* bound: feed events per behaviour
  MaxTries,      \* attempts before an event is dead-lettered
  MaxClock,      \* bound: distinct instants at which rebuilds start
  MaxExpiries    \* bound: timelines lost to their TTL

ASSUME AuthorAssumption == Author \in [Posts -> Users]
ASSUME PairsAssumption == Pairs \subseteq Users \X Users /\ Readers \subseteq Users
ASSUME NoUserAssumption == NoUser \notin Users
ASSUME IdsAssumption == Users \cap 1..MaxEvents = {}   \* jobs have distinct names
ASSUME FiniteAssumption == IsFiniteSet(Users) /\ IsFiniteSet(Posts)
ASSUME BoundsAssumption ==
  /\ MaxItems \in Nat \ {0}
  /\ FollowerCap \in Nat \ {0}
  /\ FollowingCap \in Nat \ {0}
  /\ MaxEvents \in Nat
  /\ MaxTries \in Nat \ {0}
  /\ MaxClock \in Nat
  /\ MaxExpiries \in Nat

VARIABLES
  post,        \* post[p]: its stored visibility
  birth,       \* birth[p]: created_at
  seen,        \* seen[p]: visibilities p has had
  follows,     \* the follow graph, pairs <<follower, followee>>
  event,       \* event[n]: payload of the n-th event
  nextEvent,   \* the next event number
  status,      \* delivery status of each event (EventDelivery)
  delivered,   \* events whose handler has succeeded (EventDelivery)
  tries,       \* tries[n]: attempts made at event n
  job,         \* handlers, one per event, and lazy rebuilds, one per user
  timeline,    \* timeline[u]: members of the sorted set feed:tl:v2:<u>
  written,     \* written[u][p]: fan-out write marker of p (0: none)
  clock,       \* the wall clock that rebuilds and markers are stamped with
  owed,        \* owed[p]: users p must reach (history, see NoFanoutLost)
  expiries     \* timelines expired so far (bounded by MaxExpiries)

dbVars     == <<post, birth, seen, follows>>
outboxVars == <<event, nextEvent, status, delivered, tries>>
redisVars  == <<timeline, written>>
vars == <<dbVars, outboxVars, job, redisVars, clock, owed, expiries>>

-----------------------------------------------------------------------------
EventIds == 1..MaxEvents

Outbox == INSTANCE EventDelivery WITH Events <- EventIds

Visibilities == {"shared", "private"}

\* post.posts rows; "none" is a post not written yet.
PostStates == Visibilities \cup {"none", "deleted"}

(* Event.Type, PostID, Visibility and ActorID.                             *)
PostEvent == [type : {"created", "changed", "deleted"}, post : Posts,
              vis : Visibilities]
FollowEvent == [type : {"follow"}, actor : Users]
NoEvent == [type |-> "none"]

(* A job handling a post event adds or removes the post in the timelines   *)
(* of todo, one at a time (at); bad records that one write failed.  A      *)
(* rebuild of who's timeline started at instant t0 and holds what it read. *)
Pcs == {"idle", "add", "remove", "follow", "load", "replace"}
Job == [pc : Pcs, todo : SUBSET Users, at : Users \cup {NoUser}, stamp : Nat,
        bad : BOOLEAN, who : Users \cup {NoUser}, t0 : Nat,
        authors : SUBSET Users, snap : SUBSET Posts]

Idle == [pc |-> "idle", todo |-> {}, at |-> NoUser, stamp |-> 0, bad |-> FALSE,
         who |-> NoUser, t0 |-> 0, authors |-> {}, snap |-> {}]

JobIds == EventIds \cup Users

TypeOK ==
  /\ post \in [Posts -> PostStates]
  /\ birth \in [Posts -> Nat]
  /\ seen \in [Posts -> SUBSET Visibilities]
  /\ follows \subseteq Users \X Users
  /\ event \in [EventIds -> PostEvent \cup FollowEvent \cup {NoEvent}]
  /\ nextEvent \in Nat \ {0}
  /\ status \in [EventIds -> {"absent", "pending", "parked", "done"}]
  /\ delivered \subseteq EventIds
  /\ tries \in [EventIds -> 0..MaxTries]
  /\ job \in [JobIds -> Job]
  /\ timeline \in [Users -> SUBSET Posts]
  /\ written \in [Users -> [Posts -> Nat]]
  /\ clock \in Nat \ {0}
  /\ owed \in [Posts -> SUBSET Users]
  /\ expiries \in 0..MaxExpiries

-----------------------------------------------------------------------------
\* The subsets of S that remain when only n elements may.
Trimmed(S, n) ==
  {K \in SUBSET S : Cardinality(K) = IF Cardinality(S) <= n
                                     THEN Cardinality(S) ELSE n}

Followers(u) == {v \in Users : <<v, u>> \in follows}
Following(u) == {v \in Users : <<u, v>> \in follows}

\* GetFollowerIDs with the cap applied; the author is added after the cap.  The
\* newest follows are kept: the model has no order of follows, any may be.
Recipients(u) == {{u} \cup F : F \in Trimmed(Followers(u), FollowerCap)}

\* GetFollowingIDs, one page of the newest, and u, whom RefreshTimeline adds.
Authors(u) == {{u} \cup F : F \in Trimmed(Following(u), FollowingCap)}

\* The followers of u that no cap can leave out: u's fan-outs find them all,
\* and their own rebuilds find u.
Certain(u) ==
  {v \in Followers(u) : /\ Cardinality(Followers(u)) <= FollowerCap
                        /\ Cardinality(Following(v)) <= FollowingCap}

\* Who is owed a post still, now that the graph has changed.
StillOwed == [p \in Posts |-> owed[p] \cap ({Author[p]} \cup Certain(Author[p])')]

\* Mutant: the query forgets visibility.
ReadableByAuthor(authors, u) ==
  {p \in Posts : Author[p] \in authors /\ post[p] \in Visibilities}

\* What GetFollowingPostsWithCursor may return to viewer u, before its limit.
Readable(authors, u) ==
  {p \in Posts : /\ Author[p] \in authors
                 /\ \/ post[p] = "shared"
                    \/ post[p] = "private" /\ Author[p] = u}

-----------------------------------------------------------------------------
Init ==
  /\ post = [p \in Posts |-> "none"]
  /\ birth = [p \in Posts |-> 0]
  /\ seen = [p \in Posts |-> {}]
  /\ follows \in SUBSET Pairs   \* earlier follows, already handled
  /\ event = [n \in EventIds |-> NoEvent]
  /\ nextEvent = 1
  /\ Outbox!Init
  /\ tries = [n \in EventIds |-> 0]
  /\ job = [j \in JobIds |-> Idle]
  /\ timeline = [u \in Users |-> {}]
  /\ written = [u \in Users |-> [p \in Posts |-> 0]]
  /\ clock = 1
  /\ owed = [p \in Posts |-> {}]
  /\ expiries = 0

\* The outbox row of the mutation that commits in this step.
Enqueue(e) ==
  /\ nextEvent \in EventIds
  /\ event' = [event EXCEPT ![nextEvent] = e]
  /\ nextEvent' = nextEvent + 1
  /\ Outbox!Publish(nextEvent)
  /\ UNCHANGED tries

PostPayload(type, p, vis) == [type |-> type, post |-> p, vis |-> vis]

CreatePost(p, vis) ==
  /\ "create" \in Mutations
  /\ post[p] = "none"
  /\ post' = [post EXCEPT ![p] = vis]
  /\ birth' = [birth EXCEPT ![p] = clock]
  /\ seen' = [seen EXCEPT ![p] = {vis}]
  /\ owed' = [owed EXCEPT ![p] = {Author[p]} \cup
                IF vis = "shared" THEN Certain(Author[p]) ELSE {}]
  /\ Enqueue(PostPayload("created", p, vis))
  /\ UNCHANGED <<follows, job, redisVars, clock, expiries>>

\* UpdatePost compares the visibility it writes with the one it read before
\* its transaction, which may be any the post has had: another update can
\* commit in between.  Equal visibilities enqueue nothing.
UpdatePost(p, vis) ==
  /\ "update" \in Mutations
  /\ post[p] \in Visibilities
  /\ post' = [post EXCEPT ![p] = vis]
  /\ seen' = [seen EXCEPT ![p] = seen[p] \cup {vis}]
  /\ owed' = [owed EXCEPT ![p] = {}]
  /\ \E existing \in seen[p] :
       IF existing = vis
       THEN UNCHANGED outboxVars
       ELSE Enqueue(PostPayload("changed", p, vis))
  /\ UNCHANGED <<birth, follows, job, redisVars, clock, expiries>>

\* A second delete that read the post before the first one committed changes
\* no row but enqueues its event all the same.
DeletePost(p) ==
  /\ "delete" \in Mutations
  /\ post[p] \in Visibilities \cup {"deleted"}
  /\ post' = [post EXCEPT ![p] = "deleted"]
  /\ owed' = [owed EXCEPT ![p] = {}]
  /\ Enqueue(PostPayload("deleted", p, "private"))
  /\ UNCHANGED <<birth, seen, follows, job, redisVars, clock, expiries>>

\* Both directions enqueue an event whether or not a row changed.
Follow(u, v) ==
  /\ "follow" \in Mutations
  /\ u # v                       \* errSelfFollow
  /\ follows' = follows \cup {<<u, v>>}
  /\ owed' = StillOwed
  /\ Enqueue([type |-> "follow", actor |-> u])
  /\ UNCHANGED <<post, birth, seen, job, redisVars, clock, expiries>>

Unfollow(u, v) ==
  /\ "unfollow" \in Mutations
  /\ u # v
  /\ follows' = follows \ {<<u, v>>}
  /\ owed' = StillOwed
  /\ Enqueue([type |-> "follow", actor |-> u])
  /\ UNCHANGED <<post, birth, seen, job, redisVars, clock, expiries>>

-----------------------------------------------------------------------------
(* Handling of an event.                                                   *)

Evicts(e) == e.type = "deleted" \/ (e.type = "changed" /\ e.vis = "private")

FanJob(pc, todo) == [Idle EXCEPT !.pc = pc, !.todo = todo]
RebuildJob(u, t) == [Idle EXCEPT !.pc = "follow", !.who = u, !.t0 = t]

\* The clock may or may not have moved since it was last read.
Now == {clock, clock + 1} \cap 0..MaxClock

\* HandleFeedEvent is called: it reads the recipients, or the clock.
StartHandler(n) ==
  /\ status[n] = "pending"
  /\ job[n] = Idle
  /\ tries[n] < MaxTries
  /\ tries' = [tries EXCEPT ![n] = tries[n] + 1]
  /\ LET e == event[n] IN
     \/ /\ e.type \in {"created", "changed"} /\ e.vis = "shared"
        /\ \E R \in Recipients(Author[e.post]) :
             job' = [job EXCEPT ![n] = FanJob("add", R)]
        /\ UNCHANGED clock
     \/ /\ e.type = "created" /\ e.vis = "private"
        /\ job' = [job EXCEPT ![n] = FanJob("add", {Author[e.post]})]
        /\ UNCHANGED clock
     \/ /\ e.type \in {"deleted", "changed"} /\ Evicts(e)
        /\ \E R \in Recipients(Author[e.post]) :
             job' = [job EXCEPT ![n] = FanJob("remove", R)]
        /\ UNCHANGED clock
     \/ /\ e.type = "follow"
        /\ \E t \in Now : /\ clock' = t
                          /\ job' = [job EXCEPT ![n] = RebuildJob(e.actor, t)]
  /\ UNCHANGED <<dbVars, event, nextEvent, status, delivered, redisVars, owed,
                 expiries>>

\* AddPost builds its pipeline: the marker's time is read here ...
Stamp(n, u) ==
  /\ job[n].pc = "add"
  /\ job[n].at = NoUser
  /\ u \in job[n].todo
  /\ job' = [job EXCEPT ![n].at = u, ![n].stamp = clock]
  /\ UNCHANGED <<dbVars, outboxVars, redisVars, clock, owed, expiries>>

Marked(w) == {p \in Posts : w[p] # 0}

\* The marker sets that remain when w is trimmed: the latest stamps.
TrimMarkers(w) ==
  {[p \in Posts |-> IF p \in K THEN w[p] ELSE 0] :
     K \in {L \in Trimmed(Marked(w), MaxItems) :
              \A p \in L, q \in Marked(w) \ L : w[q] <= w[p]}}

\* ... and executed here, as one Redis transaction.
AddPost(n) ==
  /\ job[n].pc = "add"
  /\ job[n].at # NoUser
  /\ LET u == job[n].at
         p == event[n].post
     IN /\ \E K \in Trimmed(timeline[u] \cup {p}, MaxItems) :
             timeline' = [timeline EXCEPT ![u] = K]
        /\ \E w \in TrimMarkers([written[u] EXCEPT ![p] = job[n].stamp]) :
             written' = [written EXCEPT ![u] = w]
        /\ job' = [job EXCEPT ![n].at = NoUser, ![n].todo = job[n].todo \ {u}]
  /\ UNCHANGED <<dbVars, outboxVars, clock, owed, expiries>>

\* RemovePostBestEffort's pipeline is not a transaction: first the entry ...
RemoveEntry(n, u) ==
  /\ job[n].pc = "remove"
  /\ job[n].at = NoUser
  /\ u \in job[n].todo
  /\ timeline' = [timeline EXCEPT ![u] = timeline[u] \ {event[n].post}]
  /\ job' = [job EXCEPT ![n].at = u]
  /\ UNCHANGED <<dbVars, outboxVars, written, clock, owed, expiries>>

\* ... then its marker.
RemoveMarker(n) ==
  /\ job[n].pc = "remove"
  /\ job[n].at # NoUser
  /\ written' = [written EXCEPT ![job[n].at][event[n].post] = 0]
  /\ job' = [job EXCEPT ![n].at = NoUser, ![n].todo = job[n].todo \ {job[n].at}]
  /\ UNCHANGED <<dbVars, outboxVars, timeline, clock, owed, expiries>>

\* Redis refuses the write for one recipient; the loop goes on.
WriteFails(n, u) ==
  /\ job[n].pc \in {"add", "remove"}
  /\ u \in job[n].todo
  /\ job[n].at \in {NoUser, u}
  /\ job' = [job EXCEPT ![n].at = NoUser, ![n].todo = job[n].todo \ {u},
                        ![n].bad = TRUE]
  /\ UNCHANGED <<dbVars, outboxVars, redisVars, clock, owed, expiries>>

\* A post made private goes back into its author's own timeline.
KeepForAuthor(n) ==
  /\ job[n].pc = "remove"
  /\ job[n].todo = {} /\ ~job[n].bad
  /\ event[n].type = "changed"
  /\ job' = [job EXCEPT ![n] = FanJob("add", {Author[event[n].post]})]
  /\ UNCHANGED <<dbVars, outboxVars, redisVars, clock, owed, expiries>>

\* Mutant: success although a write failed.
HandlerOkPartial(n) ==
  /\ \/ job[n].pc = "add"
     \/ job[n].pc = "remove" /\ event[n].type = "deleted"
  /\ job[n].todo = {}
  /\ job' = [job EXCEPT ![n] = Idle]
  /\ Outbox!Deliver(n)
  /\ UNCHANGED <<dbVars, event, nextEvent, tries, redisVars, clock, owed, expiries>>

\* HandleFeedEvent returns nil.
HandlerOk(n) ==
  /\ \/ job[n].pc = "add"
     \/ job[n].pc = "remove" /\ event[n].type = "deleted"
  /\ job[n].todo = {} /\ ~job[n].bad
  /\ job' = [job EXCEPT ![n] = Idle]
  /\ Outbox!Deliver(n)
  /\ UNCHANGED <<dbVars, event, nextEvent, tries, redisVars, clock, owed, expiries>>

\* Every recipient was tried and one write failed: an error is returned.
HandlerError(n) ==
  /\ job[n].pc \in {"add", "remove"}
  /\ job[n].todo = {} /\ job[n].bad
  /\ job' = [job EXCEPT ![n] = Idle]
  /\ UNCHANGED <<dbVars, outboxVars, redisVars, clock, owed, expiries>>

\* A read or a rebuild fails, the deadline passes or the process dies, at any
\* point: the event stays pending and the timelines stay as they are.
Abort(j) ==
  /\ job[j] # Idle
  /\ job' = [job EXCEPT ![j] = Idle]
  /\ UNCHANGED <<dbVars, outboxVars, redisVars, clock, owed, expiries>>

\* The row of a handled event is deleted, or its attempts are used up.
Complete(n) ==
  /\ job[n] = Idle
  /\ Outbox!Finish(n)
  /\ UNCHANGED <<dbVars, event, nextEvent, tries, job, redisVars, clock, owed, expiries>>

DeadLetter(n) ==
  /\ job[n] = Idle
  /\ tries[n] = MaxTries
  /\ Outbox!Park(n)
  /\ UNCHANGED <<dbVars, event, nextEvent, tries, job, redisVars, clock, owed, expiries>>

-----------------------------------------------------------------------------
(* Rebuilds (RefreshTimeline).                                             *)

\* GetFeed finds u's timeline empty; one rebuild per user at a time.
LazyRefresh(u) ==
  /\ u \in Readers
  /\ timeline[u] = {}
  /\ job[u] = Idle
  /\ \E t \in Now : clock' = t /\ job' = [job EXCEPT ![u] = RebuildJob(u, t)]
  /\ UNCHANGED <<dbVars, outboxVars, redisVars, owed, expiries>>

ReadFollowing(j) ==
  /\ job[j].pc = "follow"
  /\ \E A \in Authors(job[j].who) :
       job' = [job EXCEPT ![j].pc = "load", ![j].authors = A]
  /\ UNCHANGED <<dbVars, outboxVars, redisVars, clock, owed, expiries>>

LoadPosts(j) ==
  /\ job[j].pc = "load"
  /\ \E S \in Trimmed(Readable(job[j].authors, job[j].who), MaxItems) :
       job' = [job EXCEPT ![j].pc = "replace", ![j].authors = {}, ![j].snap = S]
  /\ UNCHANGED <<dbVars, outboxVars, redisVars, clock, owed, expiries>>

\* Mutant: what fan-out wrote in the instant of the cutoff goes.
SurvivorsStrictly(u, snap, cutoff) ==
  snap \cup {p \in timeline[u] : written[u][p] > cutoff}

\* Entries the replace script leaves in u's timeline: the snapshot and what
\* fan-out wrote at or after the cutoff.
Survivors(u, snap, cutoff) ==
  snap \cup {p \in timeline[u] : written[u][p] # 0 /\ written[u][p] >= cutoff}

\* ReplacePosts, one Lua script; then the rebuild's caller goes on.
Replace(j) ==
  /\ job[j].pc = "replace"
  /\ \E K \in Trimmed(Survivors(job[j].who, job[j].snap, job[j].t0), MaxItems) :
       timeline' = [timeline EXCEPT ![job[j].who] = K]
  /\ job' = [job EXCEPT ![j] = Idle]
  /\ IF j \in EventIds THEN Outbox!Deliver(j) ELSE UNCHANGED <<status, delivered>>
  /\ UNCHANGED <<dbVars, event, nextEvent, tries, written, clock, owed, expiries>>

\* The timeline's TTL (days) runs out, and the markers' with it.
Expire(u) ==
  /\ expiries < MaxExpiries
  /\ timeline[u] # {}
  /\ expiries' = expiries + 1
  /\ timeline' = [timeline EXCEPT ![u] = {}]
  /\ written' = [written EXCEPT ![u] = [p \in Posts |-> 0]]
  /\ owed' = [p \in Posts |-> owed[p] \ {u}]
  /\ UNCHANGED <<dbVars, outboxVars, job, clock>>

-----------------------------------------------------------------------------
Mutate ==
  \/ \E p \in Posts, vis \in Visibilities : CreatePost(p, vis) \/ UpdatePost(p, vis)
  \/ \E p \in Posts : DeletePost(p)
  \/ \E e \in Pairs : Follow(e[1], e[2]) \/ Unfollow(e[1], e[2])

Rebuild(j) == ReadFollowing(j) \/ LoadPosts(j) \/ Replace(j)

\* The steps of a handler that need nothing but time.
Handle(n) ==
  \/ \E u \in Users : Stamp(n, u) \/ RemoveEntry(n, u)
  \/ AddPost(n) \/ RemoveMarker(n) \/ KeepForAuthor(n)
  \/ HandlerOk(n) \/ HandlerError(n)
  \/ Rebuild(n)

Next ==
  \/ Mutate
  \/ \E n \in EventIds :
       \/ StartHandler(n) \/ Handle(n) \/ Complete(n) \/ DeadLetter(n)
       \/ \E u \in Users : WriteFails(n, u)
  \/ \E u \in Users : LazyRefresh(u) \/ Rebuild(u) \/ Expire(u)
  \/ \E j \in JobIds : Abort(j)

Spec == Init /\ [][Next]_vars

\* The consumer loop keeps claiming, handlers keep running, handled rows get
\* deleted.  Readers and users do as they please.
Fairness ==
  \A n \in EventIds :
    /\ WF_vars(StartHandler(n))
    /\ WF_vars(Handle(n))
    /\ WF_vars(Complete(n))
    /\ WF_vars(DeadLetter(n))

FairSpec == Spec /\ Fairness

-----------------------------------------------------------------------------
(* No fan-out is lost to a rebuild, a retry or a crash: once a post's      *)
(* created event has been handled, the post is in the timeline of its      *)
(* author and of everyone who followed the author when it was written and  *)
(* has not unfollowed since, however many rebuilds of these timelines      *)
(* started before, during or after the fan-out.  (The post must not have   *)
(* been edited or deleted, expiry drops a timeline with all it holds, and  *)
(* MaxItems must leave room for every post.  Nothing is promised, from     *)
(* then on, to a follower who has followed more than FollowingCap users,   *)
(* or of an author with more than FollowerCap followers: a rebuild leaves  *)
(* out the authors beyond the cap, and their posts with them.)             *)
NoFanoutLost ==
  \A n \in delivered :
    event[n].type = "created" =>
      \A u \in owed[event[n].post] : event[n].post \in timeline[u]

(* A post that has been private all along is in no timeline but its        *)
(* author's.                                                               *)
NeverSharedStaysPrivate ==
  \A u \in Users, p \in Posts :
    p \in timeline[u] => Author[p] = u \/ "shared" \in seen[p]

GivenUp(p) ==
  \E n \in EventIds : /\ status[n] = "parked"
                      /\ event[n].type = "created"
                      /\ event[n].post = p

(* A post reaches everyone it is owed to, unless its event is              *)
(* dead-lettered.                                                          *)
FanoutArrives ==
  \A p \in Posts, u \in Users :
    (u \in owed[p]) ~> (u \notin owed[p] \/ p \in timeline[u] \/ GivenUp(p))

-----------------------------------------------------------------------------
(* What the repository says of the timelines once nothing is in flight.    *)
Quiet ==
  /\ \A n \in EventIds : status[n] \in {"absent", "done"}
  /\ \A j \in JobIds : job[j] = Idle

(* "follow changes rebuild the follower's timeline from their current      *)
(* follow graph": every post u may see is in u's timeline when all events  *)
(* have been handled.                                                      *)
FollowsBackfilled ==
  Quiet => \A u \in Users : timeline[u] # {} =>
             Readable(Following(u) \cup {u}, u) \subseteq timeline[u]
=============================================================================
