------------------------- MODULE Timelines_proofs -------------------------
(***************************************************************************)
(* Three results about FeedTimeline, for any users, posts, events, servers *)
(* and bounds: every variable keeps its type, a post that was never shared *)
(* is on no timeline but its author's, and, as long as a timeline has room *)
(* for all posts, a fan-out that was handled stays on every timeline it    *)
(* was owed to.  Nothing is assumed of the caps on followers and followed: *)
(* owed are those whom neither can leave out.                              *)
(*                                                                         *)
(* WellFormed: a job is about an event that exists, and an event never     *)
(* changes once it is written.  Private: whatever is on its way to a       *)
(* timeline, be it a recipient of a fan-out or a post in the snapshot of a *)
(* rebuild, may be there.  Kept: a marker is not older than its post, and  *)
(* a rebuild has found the post or began before the post was written.      *)
(* Together they make the cutoff of ReplacePosts safe: what it drops has   *)
(* a marker older than the rebuild, so it is older than the rebuild too,   *)
(* and the rebuild has found it.                                           *)
(*                                                                         *)
(* What runs beside the feed comes after.  A walk of cmdReindex has tried  *)
(* whatever lies above its cursor and may be sent, and what is on its way  *)
(* to the catalog is due there, unless an author's own call overtook it.   *)
(* What a server stamps on its events is a generation of the namespace     *)
(* that was made, and its reason fits its state but while a probe stores   *)
(* the two.                                                                *)
(* A page that continues below a row leaves what was shown above its       *)
(* cursor and what was not below it; one at an offset has shown the rows   *)
(* of which fewer than the offset are before them, as long as none is put  *)
(* before them or taken away.                                              *)
(***************************************************************************)
EXTENDS MCTimelines, Sequences, FiniteSetTheorems, NaturalsInduction, WellFoundedInduction,
        TLAPS

-----------------------------------------------------------------------------
(* What a job may hold.                                                    *)
Fanning(x) == x.pc \in {"add", "remove"}
Rebuilding(x) == x.pc \in {"follow", "load", "replace"}

JobFits(j, x) ==
  /\ x.at # NoUser => x.at \in x.todo
  /\ Fanning(x) => j \in EventIds /\ event[j] \in PostEvent
  /\ Rebuilding(x) => /\ x.who \in Users /\ x.t0 <= clock
                      /\ j \in EventIds => event[j].type = "follow"
  /\ (x.pc # "idle" /\ j \in EventIds) => status[j] # "absent"

(* An event is written once, before anybody handles it.                    *)
EventsFit ==
  \A n \in EventIds :
    /\ (status[n] = "absent") <=> (n >= nextEvent)
    /\ status[n] = "absent" => event[n] = NoEvent /\ n \notin delivered
    /\ event[n] \in PostEvent => post[event[n].post] # "none"

WellFormed ==
  /\ TypeOK
  /\ \A j \in JobIds : JobFits(j, job[j])
  /\ EventsFit

-----------------------------------------------------------------------------
Shared(p) == "shared" \in seen[p]

(* Where a post may go.                                                    *)
Admitted(u, p) == Author[p] = u \/ Shared(p)

Private ==
  /\ \A p \in Posts : /\ post[p] = "shared" => Shared(p)
                      /\ post[p] = "none" => seen[p] = {}
  /\ \A n \in EventIds :
       (event[n] \in PostEvent /\ event[n].vis = "shared") => Shared(event[n].post)
  /\ \A n \in EventIds :
       job[n].pc = "add" => \A u \in job[n].todo : Admitted(u, event[n].post)
  /\ \A j \in JobIds : \A p \in job[j].snap : Admitted(job[j].who, p)
  /\ NeverSharedStaysPrivate

-----------------------------------------------------------------------------
Creates(n, p) == event[n] \in PostEvent /\ event[n].type = "created" /\ event[n].post = p

(* A post somebody is owed was written and never touched since.            *)
Owing(p) ==
  owed[p] # {} =>
    /\ post[p] \in Visibilities
    /\ \A n \in EventIds : (event[n] \in PostEvent /\ event[n].post = p) =>
         event[n].type = "created" /\ event[n].vis = post[p]
    /\ owed[p] \subseteq
         {Author[p]} \cup IF post[p] = "shared" THEN Certain(Author[p]) ELSE {}

Born == \A p \in Posts : post[p] # "none" => 1 <= birth[p] /\ birth[p] <= clock

(* A rebuild finds the post, or began before it was written.               *)
Finds(x, p) ==
  \/ x.pc = "follow"
  \/ x.pc = "load" /\ Author[p] \in x.authors
  \/ x.pc = "replace" /\ p \in x.snap
  \/ x.t0 <= birth[p]

RebuildsFind ==
  \A p \in Posts, j \in JobIds :
    (Rebuilding(job[j]) /\ job[j].who \in owed[p]) => Finds(job[j], p)

(* The post is there and its marker protects it from those that do not.    *)
Fanned(u, p) == p \in timeline[u] /\ birth[p] <= written[u][p]

(* The fan-out has come to u.                                              *)
Reached(n, u) ==
  n \in delivered \/ (job[n].pc = "add" /\ u \notin job[n].todo /\ ~job[n].bad)

StampsLate ==
  \A n \in EventIds :
    (job[n].pc = "add" /\ job[n].at # NoUser) => birth[event[n].post] <= job[n].stamp

RemovesOthers == \A n \in EventIds : job[n].pc = "remove" => event[n].type # "created"

Arrived ==
  \A n \in EventIds, p \in Posts :
    Creates(n, p) => \A u \in owed[p] : Reached(n, u) => Fanned(u, p)

Kept ==
  /\ Born /\ RebuildsFind /\ StampsLate /\ RemovesOthers /\ Arrived
  /\ \A p \in Posts : Owing(p)

-----------------------------------------------------------------------------
(* Facts about the types.                                                  *)

(* The fields an event has, by its type.                                   *)
LEMMA EventFields ==
  ASSUME TypeOK, NEW n \in EventIds
  PROVE  /\ event[n] \in PostEvent => /\ event[n].post \in Posts
                                      /\ event[n].vis \in Visibilities
                                      /\ event[n].type \in {"created", "changed", "deleted"}
         /\ event[n].type \in {"created", "changed", "deleted"} => event[n] \in PostEvent
         /\ event[n].type = "follow" => event[n] \in FollowEvent /\ event[n].actor \in Users
BY DEF TypeOK, PostEvent, FollowEvent, NoEvent

(* A job that does nothing fits everywhere.                                *)
LEMMA IdleFits ==
  /\ Idle \in Job /\ Idle.pc = "idle" /\ Idle.at = NoUser /\ Idle.todo = {} /\ Idle.snap = {}
  /\ \A j \in JobIds : JobFits(j, Idle)
<1>1. /\ Idle \in Job /\ Idle.pc = "idle" /\ Idle.at = NoUser
      /\ Idle.todo = {} /\ Idle.snap = {}
  BY DEF Idle, Job, Pcs
<1>2. QED
  BY <1>1 DEF JobFits, Fanning, Rebuilding

(* A job moves within its type, and the others stay.                       *)
LEMMA JobMoves ==
  ASSUME TypeOK, NEW j \in JobIds, NEW x \in Job, job' = [job EXCEPT ![j] = x]
  PROVE  /\ job' \in [JobIds -> Job] /\ job'[j] = x
         /\ \A i \in JobIds : i # j => job'[i] = job[i]
BY DEF TypeOK

(* What is left after trimming, in general and if there is room for all.   *)
LEMMA TrimmedSubset == \A S, n : \A K \in Trimmed(S, n) : K \subseteq S
BY DEF Trimmed

LEMMA TrimmedWhole ==
  ASSUME NEW S, IsFiniteSet(S), NEW n \in Nat, Cardinality(S) <= n, NEW K \in Trimmed(S, n)
  PROVE  K = S
<1>1. K \subseteq S /\ Cardinality(K) = Cardinality(S)
  BY DEF Trimmed
<1>2. QED
  BY <1>1, FS_Subset

-----------------------------------------------------------------------------
(* WellFormed is kept by a step of one job ...                             *)
LEMMA StepKeeps ==
  ASSUME WellFormed, NEW j \in JobIds, NEW x \in Job, JobFits(j, job[j])',
         job' = [job EXCEPT ![j] = x],
         UNCHANGED <<dbVars, event, nextEvent, owed, expiries>>,
         clock' \in Nat, clock <= clock',
         status' \in [EventIds -> {"absent", "pending", "parked", "done"}],
         delivered' \subseteq EventIds, tries' \in [EventIds -> 0..MaxTries],
         \A n \in EventIds : /\ (status'[n] = "absent") <=> (status[n] = "absent")
                             /\ status[n] = "absent" => n \notin delivered',
         timeline' \in [Users -> SUBSET Posts], written' \in [Users -> [Posts -> Nat]]
  PROVE  WellFormed'
<1>1. /\ job' \in [JobIds -> Job] /\ job'[j] = x
      /\ \A i \in JobIds : i # j => job'[i] = job[i]
  BY JobMoves DEF WellFormed
<1>2. TypeOK'
  BY <1>1 DEF WellFormed, TypeOK, dbVars
<1>3. EventsFit'
  BY DEF WellFormed, EventsFit, dbVars
<1>4. ASSUME NEW i \in JobIds, i # j PROVE JobFits(i, job[i])'
  <2>1. JobFits(i, job[i]) /\ job'[i] = job[i] /\ job[i] \in Job
    BY <1>1, <1>4 DEF WellFormed, TypeOK
  <2>2. job[i].t0 \in Nat /\ clock \in Nat
    BY <2>1 DEF Job, WellFormed, TypeOK
  <2>3. QED
    BY <2>1, <2>2 DEF JobFits
<1>5. QED
  BY <1>1, <1>2, <1>3, <1>4 DEF WellFormed

(* ... by one that touches nothing but the job ...                         *)
LEMMA QuietKeeps ==
  ASSUME WellFormed, NEW j \in JobIds, NEW x \in Job, JobFits(j, x),
         job' = [job EXCEPT ![j] = x],
         UNCHANGED <<dbVars, outboxVars, redisVars, clock, owed, expiries>>
  PROVE  WellFormed'
<1>1. JobFits(j, job[j])'
  <2>1. job'[j] = x
    BY DEF WellFormed, TypeOK
  <2>2. QED
    BY <2>1 DEF JobFits, outboxVars
<1>2. /\ clock' \in Nat /\ clock <= clock'
      /\ status' \in [EventIds -> {"absent", "pending", "parked", "done"}]
      /\ delivered' \subseteq EventIds /\ tries' \in [EventIds -> 0..MaxTries]
      /\ timeline' \in [Users -> SUBSET Posts] /\ written' \in [Users -> [Posts -> Nat]]
  BY DEF WellFormed, TypeOK, outboxVars, redisVars
<1>3. \A n \in EventIds :
        status'[n] = status[n] /\ (status[n] = "absent" => n \notin delivered')
  BY DEF WellFormed, EventsFit, outboxVars
<1>4. UNCHANGED <<dbVars, event, nextEvent, owed, expiries>>
  BY DEF outboxVars
<1>5. QED
  BY <1>1, <1>2, <1>3, <1>4, StepKeeps

(* ... and by a mutation with the event it publishes.                      *)
LEMMA EnqueueKeeps ==
  ASSUME WellFormed, NEW e \in PostEvent \cup FollowEvent, Enqueue(e),
         UNCHANGED <<job, redisVars, clock, expiries>>,
         post' \in [Posts -> PostStates], birth' \in [Posts -> Nat],
         seen' \in [Posts -> SUBSET Visibilities],
         follows' \subseteq Users \X Users, owed' \in [Posts -> SUBSET Users],
         \A p \in Posts : post[p] # "none" => post'[p] # "none",
         e \in PostEvent => post'[e.post] # "none"
  PROVE  WellFormed'
<1>1. nextEvent \in EventIds /\ status[nextEvent] = "absent"
  BY DEF Enqueue, Outbox!Publish
<1>2. /\ event' \in [EventIds -> PostEvent \cup FollowEvent \cup {NoEvent}]
      /\ event'[nextEvent] = e
      /\ \A n \in EventIds : n # nextEvent => event'[n] = event[n]
  BY <1>1 DEF Enqueue, WellFormed, TypeOK
<1>3. /\ status' \in [EventIds -> {"absent", "pending", "parked", "done"}]
      /\ status'[nextEvent] = "pending"
      /\ \A n \in EventIds : n # nextEvent => status'[n] = status[n]
      /\ delivered' = delivered /\ nextEvent' = nextEvent + 1 /\ tries' = tries
  BY <1>1 DEF Enqueue, Outbox!Publish, WellFormed, TypeOK
<1>4. nextEvent \in Nat \ {0} /\ EventIds \subseteq Nat
  BY DEF WellFormed, TypeOK, EventIds
<1>5. TypeOK'
  BY <1>2, <1>3, <1>4 DEF WellFormed, TypeOK, redisVars
<1>6. EventsFit'
  <2> SUFFICES ASSUME NEW n \in EventIds
               PROVE  /\ (status'[n] = "absent") <=> (n >= nextEvent')
                      /\ status'[n] = "absent" => event'[n] = NoEvent /\ n \notin delivered'
                      /\ event'[n] \in PostEvent => post'[event'[n].post] # "none"
    BY DEF EventsFit
  <2>1. CASE n = nextEvent
    BY <1>2, <1>3, <1>4, <2>1
  <2>2. CASE n # nextEvent
    <3>1. event[n] \in PostEvent => event[n].post \in Posts
      BY EventFields DEF WellFormed
    <3>2. QED
      BY <1>2, <1>3, <1>4, <2>2, <3>1 DEF WellFormed, EventsFit
  <2>3. QED
    BY <2>1, <2>2
<1>7. ASSUME NEW i \in JobIds PROVE JobFits(i, job[i])'
  <2>1. JobFits(i, job[i]) /\ job'[i] = job[i]
    BY DEF WellFormed
  <2>2. CASE i = nextEvent
    <3>1. ~Fanning(job[i]) /\ ~Rebuilding(job[i])
      BY <1>1, <2>1, <2>2 DEF JobFits, Fanning, Rebuilding
    <3>2. QED
      BY <1>3, <2>1, <2>2, <3>1 DEF JobFits, Fanning, Rebuilding
  <2>3. CASE i # nextEvent
    BY <1>2, <1>3, <2>1, <2>3 DEF JobFits
  <2>4. QED
    BY <2>2, <2>3
<1>8. QED
  BY <1>5, <1>6, <1>7 DEF WellFormed

-----------------------------------------------------------------------------
(* Initially nothing is handled and nothing is stored.                     *)
LEMMA InitWellFormed == Init => WellFormed
<1> SUFFICES ASSUME Init PROVE WellFormed
  OBVIOUS
<1>1. status = [n \in EventIds |-> "absent"] /\ delivered = {}
  BY DEF Init, Outbox!Init
<1>2. TypeOK
  BY <1>1, IdleFits, PairsAssumption, BoundsAssumption DEF Init, TypeOK, PostStates
<1>3. \A j \in JobIds : JobFits(j, job[j])
  BY IdleFits DEF Init
<1>4. EventsFit
  <2>1. NoEvent \notin PostEvent
    BY DEF NoEvent, PostEvent
  <2>2. \A n \in EventIds : n >= 1
    BY DEF EventIds
  <2>3. QED
    BY <1>1, <2>1, <2>2 DEF Init, EventsFit
<1>5. QED
  BY <1>2, <1>3, <1>4 DEF WellFormed

(* The mutations.                                                          *)
LEMMA CreateWellFormed ==
  ASSUME WellFormed, NEW p \in Posts, NEW vis \in Visibilities, CreatePost(p, vis)
  PROVE  WellFormed'
<1> DEFINE e == PostPayload("created", p, vis)
<1>1. e \in PostEvent \cup FollowEvent /\ e.post = p
  BY DEF PostPayload, PostEvent
<1>2. /\ post' \in [Posts -> PostStates] /\ birth' \in [Posts -> Nat]
      /\ seen' \in [Posts -> SUBSET Visibilities]
      /\ post'[p] = vis /\ vis # "none"
      /\ \A q \in Posts : q # p => post'[q] = post[q]
  BY DEF CreatePost, WellFormed, TypeOK, PostStates, Visibilities
<1>3. follows' \subseteq Users \X Users /\ owed' \in [Posts -> SUBSET Users]
  BY AuthorAssumption DEF CreatePost, WellFormed, TypeOK, Certain, Followers
<1>4. Enqueue(e) /\ UNCHANGED <<job, redisVars, clock, expiries>>
  BY DEF CreatePost
<1> HIDE DEF e
<1>5. QED
  BY <1>1, <1>2, <1>3, <1>4, EnqueueKeeps

(* An edit, a change of visibility included.                               *)
LEMMA UpdateWellFormed ==
  ASSUME WellFormed, NEW p \in Posts, NEW vis \in Visibilities, UpdatePost(p, vis)
  PROVE  WellFormed'
<1> DEFINE e == PostPayload("changed", p, vis)
<1>1. e \in PostEvent \cup FollowEvent /\ e.post = p
  BY DEF PostPayload, PostEvent
<1>2. /\ post' \in [Posts -> PostStates] /\ birth' \in [Posts -> Nat]
      /\ seen' \in [Posts -> SUBSET Visibilities]
      /\ post'[p] = vis /\ vis # "none"
      /\ \A q \in Posts : q # p => post'[q] = post[q]
  BY DEF UpdatePost, WellFormed, TypeOK, PostStates, Visibilities
<1>3. follows' \subseteq Users \X Users /\ owed' \in [Posts -> SUBSET Users]
  BY DEF UpdatePost, WellFormed, TypeOK
<1>4. /\ UNCHANGED outboxVars \/ Enqueue(e)
      /\ UNCHANGED <<job, redisVars, clock, expiries>>
  BY DEF UpdatePost
<1> HIDE DEF e
<1>5. CASE Enqueue(e)
  BY <1>1, <1>2, <1>3, <1>4, <1>5, EnqueueKeeps
<1>6. CASE UNCHANGED outboxVars
  <2>1. TypeOK'
    BY <1>2, <1>3, <1>4, <1>6 DEF WellFormed, TypeOK, outboxVars, redisVars
  <2>2. EventsFit'
    BY <1>2, <1>6, EventFields DEF WellFormed, EventsFit, outboxVars
  <2>3. \A j \in JobIds : JobFits(j, job[j])'
    BY <1>4, <1>6 DEF WellFormed, JobFits, outboxVars
  <2>4. QED
    BY <2>1, <2>2, <2>3 DEF WellFormed
<1>7. QED
  BY <1>4, <1>5, <1>6

(* A deletion.                                                             *)
LEMMA DeleteWellFormed ==
  ASSUME WellFormed, NEW p \in Posts, DeletePost(p)
  PROVE  WellFormed'
<1> DEFINE e == PostPayload("deleted", p, "private")
<1>1. e \in PostEvent \cup FollowEvent /\ e.post = p
  BY DEF PostPayload, PostEvent, Visibilities
<1>2. /\ post' \in [Posts -> PostStates] /\ birth' \in [Posts -> Nat]
      /\ seen' \in [Posts -> SUBSET Visibilities] /\ post'[p] = "deleted"
      /\ \A q \in Posts : q # p => post'[q] = post[q]
  BY DEF DeletePost, WellFormed, TypeOK, PostStates
<1>3. follows' \subseteq Users \X Users /\ owed' \in [Posts -> SUBSET Users]
  BY DEF DeletePost, WellFormed, TypeOK
<1>4. Enqueue(e) /\ UNCHANGED <<job, redisVars, clock, expiries>>
  BY DEF DeletePost
<1> HIDE DEF e
<1>5. QED
  BY <1>1, <1>2, <1>3, <1>4, EnqueueKeeps

(* Following and unfollowing.                                              *)
LEMMA FollowWellFormed ==
  ASSUME WellFormed, NEW u \in Users, NEW v \in Users, Follow(u, v) \/ Unfollow(u, v)
  PROVE  WellFormed'
<1> DEFINE e == [type |-> "follow", actor |-> u]
<1>1. e \in PostEvent \cup FollowEvent /\ e \notin PostEvent
  BY DEF FollowEvent, PostEvent
<1>2. follows' \subseteq Users \X Users /\ owed' \in [Posts -> SUBSET Users]
  BY DEF Follow, Unfollow, StillOwed, WellFormed, TypeOK
<1>3. Enqueue(e) /\ UNCHANGED <<post, birth, seen, job, redisVars, clock, expiries>>
  BY DEF Follow, Unfollow
<1> HIDE DEF e
<1>4. QED
  BY <1>1, <1>2, <1>3, EnqueueKeeps DEF WellFormed, TypeOK

-----------------------------------------------------------------------------
(* What a fan-out and a rebuild have in hand.                              *)
LEMMA JobHolds ==
  ASSUME WellFormed, NEW j \in JobIds
  PROVE  /\ job[j] \in Job /\ job[j].todo \subseteq Users /\ job[j].snap \subseteq Posts
         /\ job[j].at # NoUser => job[j].at \in job[j].todo /\ job[j].at \in Users
         /\ job[j].stamp \in Nat /\ job[j].t0 \in Nat
         /\ Fanning(job[j]) => /\ j \in EventIds /\ event[j] \in PostEvent
                               /\ event[j].post \in Posts /\ event[j].type # "follow"
         /\ Rebuilding(job[j]) => /\ job[j].who \in Users /\ job[j].t0 <= clock
                                  /\ j \in EventIds => event[j].type = "follow"
<1>1. job[j] \in Job /\ JobFits(j, job[j])
  BY DEF WellFormed, TypeOK
<1>2. Fanning(job[j]) => /\ j \in EventIds /\ event[j] \in PostEvent
                         /\ event[j].post \in Posts /\ event[j].type # "follow"
  BY <1>1, EventFields DEF JobFits, WellFormed
<1>3. /\ job[j].todo \subseteq Users /\ job[j].snap \subseteq Posts
      /\ job[j].stamp \in Nat /\ job[j].t0 \in Nat
  BY <1>1 DEF Job
<1>4. QED
  BY <1>1, <1>2, <1>3 DEF JobFits

(* The clock stands or moves on.                                           *)
LEMMA NowLater == TypeOK => \A t \in Now : t \in Nat /\ clock <= t
BY DEF TypeOK, Now

(* A handler starts with the recipients its event asks for.                *)
LEMMA StartWellFormed ==
  ASSUME WellFormed, NEW n \in EventIds, StartHandler(n)
  PROVE  /\ WellFormed'
         /\ \/ /\ job'[n].pc \in {"add", "remove"} /\ clock' = clock
               /\ event[n] \in PostEvent
            \/ /\ job'[n].pc = "follow" /\ job'[n].snap = {}
<1>1. n \in JobIds /\ status[n] = "pending" /\ TypeOK
  BY DEF StartHandler, JobIds, WellFormed
<1>2. tries' \in [EventIds -> 0..MaxTries]
  BY <1>1, BoundsAssumption DEF StartHandler, TypeOK
<1>3. /\ UNCHANGED <<dbVars, event, nextEvent, owed, expiries>> /\ status' = status
      /\ status' \in [EventIds -> {"absent", "pending", "parked", "done"}]
      /\ delivered' \subseteq EventIds
      /\ \A m \in EventIds : status[m] = "absent" => m \notin delivered'
      /\ timeline' \in [Users -> SUBSET Posts] /\ written' \in [Users -> [Posts -> Nat]]
  BY DEF StartHandler, WellFormed, TypeOK, EventsFit, redisVars
<1>4. ASSUME NEW kind \in {"add", "remove"}, NEW R \in SUBSET Users,
             event[n] \in PostEvent, clock' = clock,
             job' = [job EXCEPT ![n] = FanJob(kind, R)]
      PROVE  WellFormed' /\ job'[n].pc = kind
  <2> DEFINE x == FanJob(kind, R)
  <2>1. x \in Job /\ x.pc = kind /\ x.at = NoUser
    BY DEF FanJob, Idle, Job, Pcs
  <2> HIDE DEF x
  <2>2. job'[n] = x /\ JobFits(n, job[n])'
    <3>1. job'[n] = x
      BY <1>1, <1>4 DEF TypeOK, x
    <3>2. QED
      BY <1>1, <1>3, <1>4, <2>1, <3>1 DEF JobFits, Fanning, Rebuilding
  <2>3. WellFormed'
    <3>1. job' = [job EXCEPT ![n] = x] /\ clock' \in Nat /\ clock <= clock'
      BY <1>1, <1>4 DEF TypeOK, x
    <3>2. QED
      BY <1>1, <1>2, <1>3, <2>1, <2>2, <3>1, StepKeeps
  <2>4. QED
    BY <2>1, <2>2, <2>3
<1>5. ASSUME NEW t \in Now, event[n].type = "follow", clock' = t,
             job' = [job EXCEPT ![n] = RebuildJob(event[n].actor, t)]
      PROVE  WellFormed' /\ job'[n].pc = "follow" /\ job'[n].snap = {}
  <2> DEFINE x == RebuildJob(event[n].actor, t)
  <2>1. t \in Nat /\ clock <= t /\ event[n].actor \in Users
    BY <1>1, <1>5, NowLater, EventFields
  <2>2. /\ x \in Job /\ x.pc = "follow" /\ x.at = NoUser /\ x.snap = {}
        /\ x.who = event[n].actor /\ x.t0 = t
    BY <2>1 DEF RebuildJob, Idle, Job, Pcs
  <2> HIDE DEF x
  <2>3. job'[n] = x /\ JobFits(n, job[n])'
    <3>1. job'[n] = x
      BY <1>1, <1>5 DEF TypeOK, x
    <3>2. QED
      BY <1>1, <1>3, <1>5, <2>1, <2>2, <3>1 DEF JobFits, Fanning, Rebuilding
  <2>4. WellFormed'
    <3>1. job' = [job EXCEPT ![n] = x] /\ clock' \in Nat /\ clock <= clock'
      BY <1>5, <2>1 DEF x
    <3>2. QED
      BY <1>1, <1>2, <1>3, <2>2, <2>3, <3>1, StepKeeps
  <2>5. QED
    BY <2>2, <2>3, <2>4
<1>6. \A u \in Users : \A R \in Recipients(u) : R \subseteq Users
  BY DEF Recipients, Trimmed, Followers
<1>7. event[n] \in PostEvent => Author[event[n].post] \in Users
  BY <1>1, EventFields, AuthorAssumption
<1>8. QED
  BY <1>1, <1>4, <1>5, <1>6, <1>7, EventFields DEF StartHandler

(* AddPost reads the clock before it runs the script.                      *)
LEMMA StampWellFormed ==
  ASSUME WellFormed, NEW n \in EventIds, NEW u \in Users, Stamp(n, u)
  PROVE  WellFormed'
<1> DEFINE x == [job[n] EXCEPT !.at = u, !.stamp = clock]
<1>1. n \in JobIds /\ job[n] \in Job /\ JobFits(n, job[n]) /\ clock \in Nat
  BY DEF JobIds, WellFormed, TypeOK
<1>2. /\ x \in Job /\ x.pc = job[n].pc /\ x.at = u /\ x.todo = job[n].todo
      /\ x.who = job[n].who /\ x.t0 = job[n].t0
  BY <1>1 DEF Job
<1>3. job' = [job EXCEPT ![n] = x] /\ u \in job[n].todo
  BY DEF Stamp
<1> HIDE DEF x
<1>4. JobFits(n, x)
  BY <1>1, <1>2, <1>3 DEF JobFits, Fanning, Rebuilding
<1>5. QED
  BY <1>1, <1>2, <1>3, <1>4, QuietKeeps DEF Stamp

(* A recipient is done: the job goes on with the others.                   *)
LEMMA RecipientDone ==
  ASSUME WellFormed, NEW n \in EventIds, Fanning(job[n]), NEW u, NEW b \in BOOLEAN
  PROVE  LET x == [job[n] EXCEPT !.at = NoUser, !.todo = job[n].todo \ {u}, !.bad = b]
         IN  x \in Job /\ JobFits(n, x)
<1> DEFINE x == [job[n] EXCEPT !.at = NoUser, !.todo = job[n].todo \ {u}, !.bad = b]
<1>1. n \in JobIds /\ job[n] \in Job /\ JobFits(n, job[n])
  BY DEF JobIds, WellFormed, TypeOK
<1>2. x \in Job /\ x.pc = job[n].pc /\ x.at = NoUser
  BY <1>1 DEF Job
<1> HIDE DEF x
<1>3. JobFits(n, x)
  BY <1>1, <1>2 DEF JobFits, Fanning, Rebuilding
<1>4. QED
  BY <1>2, <1>3 DEF x

(* What the scripts leave of the markers is a table of markers.            *)
LEMMA MarkersTyped ==
  ASSUME NEW w \in [Posts -> Nat], NEW v \in TrimMarkers(w)
  PROVE  v \in [Posts -> Nat]
BY DEF TrimMarkers

(* What most steps of a handler leave as it is.                            *)
Unsettled ==
  /\ UNCHANGED <<dbVars, event, nextEvent, owed, expiries>>
  /\ UNCHANGED <<status, delivered, tries, clock>>

(* A step of a job that writes one timeline keeps the types.               *)
LEMMA WriteKeeps ==
  ASSUME WellFormed, Unsettled, NEW j \in JobIds, NEW x \in Job, JobFits(j, x),
         job' = [job EXCEPT ![j] = x],
         timeline' \in [Users -> SUBSET Posts], written' \in [Users -> [Posts -> Nat]]
  PROVE  WellFormed'
<1>1. JobFits(j, job[j])'
  <2>1. job'[j] = x
    BY DEF WellFormed, TypeOK
  <2>2. QED
    BY <2>1 DEF JobFits, Unsettled
<1>2. /\ clock' \in Nat /\ clock <= clock'
      /\ status' \in [EventIds -> {"absent", "pending", "parked", "done"}]
      /\ delivered' \subseteq EventIds /\ tries' \in [EventIds -> 0..MaxTries]
  BY DEF WellFormed, TypeOK, Unsettled
<1>3. \A n \in EventIds :
        status'[n] = status[n] /\ (status[n] = "absent" => n \notin delivered')
  BY DEF WellFormed, EventsFit, Unsettled
<1>4. QED
  BY <1>1, <1>2, <1>3, StepKeeps DEF Unsettled

(* AddPost.                                                                *)
LEMMA AddWellFormed ==
  ASSUME WellFormed, NEW n \in EventIds, AddPost(n)
  PROVE  WellFormed'
<1> DEFINE u == job[n].at
           p == event[n].post
           x == [job[n] EXCEPT !.at = NoUser, !.todo = job[n].todo \ {u}, !.bad = job[n].bad]
<1>1. n \in JobIds /\ Fanning(job[n])
  BY DEF AddPost, JobIds, Fanning
<1>2. job[n] \in Job /\ u \in Users /\ p \in Posts /\ job[n].stamp \in Nat
  BY <1>1, JobHolds DEF AddPost
<1>3. x \in Job /\ JobFits(n, x)
  BY <1>1, <1>2, RecipientDone DEF Job
<1>4. job' = [job EXCEPT ![n] = x]
  BY <1>1, <1>2 DEF AddPost, WellFormed, TypeOK, Job
<1>5. timeline' \in [Users -> SUBSET Posts]
  BY <1>2, TrimmedSubset DEF AddPost, WellFormed, TypeOK
<1>6. written' \in [Users -> [Posts -> Nat]]
  <2>1. [written[u] EXCEPT ![p] = job[n].stamp] \in [Posts -> Nat]
    BY <1>2 DEF WellFormed, TypeOK
  <2>2. PICK w \in TrimMarkers([written[u] EXCEPT ![p] = job[n].stamp]) :
               written' = [written EXCEPT ![u] = w]
    BY DEF AddPost
  <2>3. w \in [Posts -> Nat]
    BY <2>1, MarkersTyped
  <2>4. QED
    BY <1>2, <2>2, <2>3 DEF WellFormed, TypeOK
<1>7. Unsettled
  BY DEF AddPost, Unsettled, outboxVars
<1> HIDE DEF x
<1>8. QED
  BY <1>1, <1>3, <1>4, <1>5, <1>6, <1>7, WriteKeeps

(* RemovePost, the entry.                                                  *)
LEMMA RemoveEntryWellFormed ==
  ASSUME WellFormed, NEW n \in EventIds, NEW u \in Users, RemoveEntry(n, u)
  PROVE  WellFormed'
<1> DEFINE x == [job[n] EXCEPT !.at = u]
<1>1. n \in JobIds /\ job[n] \in Job /\ JobFits(n, job[n])
  BY DEF JobIds, WellFormed, TypeOK
<1>2. x \in Job /\ x.pc = job[n].pc /\ x.at = u /\ x.todo = job[n].todo
  BY <1>1 DEF Job
<1>3. job' = [job EXCEPT ![n] = x] /\ u \in job[n].todo /\ job[n].pc = "remove"
  BY DEF RemoveEntry
<1>4. /\ timeline' \in [Users -> SUBSET Posts] /\ written' \in [Users -> [Posts -> Nat]]
      /\ Unsettled
  BY DEF RemoveEntry, WellFormed, TypeOK, Unsettled, outboxVars
<1> HIDE DEF x
<1>5. JobFits(n, x)
  BY <1>1, <1>2, <1>3 DEF JobFits, Fanning, Rebuilding
<1>6. QED
  BY <1>1, <1>2, <1>3, <1>4, <1>5, WriteKeeps

(* RemovePost, the marker.                                                 *)
LEMMA RemoveMarkerWellFormed ==
  ASSUME WellFormed, NEW n \in EventIds, RemoveMarker(n)
  PROVE  WellFormed'
<1> DEFINE u == job[n].at
           p == event[n].post
           x == [job[n] EXCEPT !.at = NoUser, !.todo = job[n].todo \ {u}, !.bad = job[n].bad]
<1>1. n \in JobIds /\ Fanning(job[n])
  BY DEF RemoveMarker, JobIds, Fanning
<1>2. job[n] \in Job /\ u \in Users /\ p \in Posts
  BY <1>1, JobHolds DEF RemoveMarker
<1>3. x \in Job /\ JobFits(n, x)
  BY <1>1, <1>2, RecipientDone DEF Job
<1>4. job' = [job EXCEPT ![n] = x]
  BY <1>1, <1>2 DEF RemoveMarker, WellFormed, TypeOK, Job
<1>5. /\ timeline' \in [Users -> SUBSET Posts] /\ written' \in [Users -> [Posts -> Nat]]
      /\ Unsettled
  BY <1>2 DEF RemoveMarker, WellFormed, TypeOK, Unsettled, outboxVars
<1> HIDE DEF x
<1>6. QED
  BY <1>1, <1>3, <1>4, <1>5, WriteKeeps

(* A write that fails.                                                     *)
LEMMA FailsWellFormed ==
  ASSUME WellFormed, NEW n \in EventIds, NEW u \in Users, WriteFails(n, u)
  PROVE  WellFormed'
<1> DEFINE x == [job[n] EXCEPT !.at = NoUser, !.todo = job[n].todo \ {u}, !.bad = TRUE]
<1>1. n \in JobIds /\ Fanning(job[n])
  BY DEF WriteFails, JobIds, Fanning
<1>2. x \in Job /\ JobFits(n, x)
  BY <1>1, RecipientDone
<1>3. job' = [job EXCEPT ![n] = x]
  BY DEF WriteFails
<1> HIDE DEF x
<1>4. QED
  BY <1>1, <1>2, <1>3, QuietKeeps DEF WriteFails

(* The author keeps a post that is no longer shared.                       *)
LEMMA KeepWellFormed ==
  ASSUME WellFormed, NEW n \in EventIds, KeepForAuthor(n)
  PROVE  WellFormed'
<1> DEFINE x == FanJob("add", {Author[event[n].post]})
<1>1. n \in JobIds /\ Fanning(job[n])
  BY DEF KeepForAuthor, JobIds, Fanning
<1>2. JobFits(n, job[n]) /\ Author[event[n].post] \in Users
  BY <1>1, JobHolds, AuthorAssumption DEF WellFormed
<1>3. x \in Job /\ x.pc = "add" /\ x.at = NoUser
  BY <1>2 DEF FanJob, Idle, Job, Pcs
<1>4. job' = [job EXCEPT ![n] = x]
  BY DEF KeepForAuthor
<1> HIDE DEF x
<1>5. JobFits(n, x)
  BY <1>1, <1>2, <1>3 DEF JobFits, Fanning, Rebuilding
<1>6. QED
  BY <1>1, <1>3, <1>4, <1>5, QuietKeeps DEF KeepForAuthor

(* A job that ends, and whether its event counts as handled.               *)
LEMMA EndsWellFormed ==
  ASSUME WellFormed, NEW j \in JobIds, job' = [job EXCEPT ![j] = Idle],
         UNCHANGED <<dbVars, event, nextEvent, tries, clock, owed, expiries, written>>,
         timeline' \in [Users -> SUBSET Posts],
         UNCHANGED <<status, delivered>> \/ (j \in EventIds /\ Outbox!Deliver(j))
  PROVE  WellFormed'
<1>1. JobFits(j, job[j])'
  <2>1. job'[j] = Idle
    BY DEF WellFormed, TypeOK
  <2>2. QED
    BY <2>1, IdleFits DEF JobFits, Fanning, Rebuilding
<1>2. /\ clock' \in Nat /\ clock <= clock' /\ tries' \in [EventIds -> 0..MaxTries]
      /\ written' \in [Users -> [Posts -> Nat]]
  BY DEF WellFormed, TypeOK
<1>3. /\ status' \in [EventIds -> {"absent", "pending", "parked", "done"}]
      /\ delivered' \subseteq EventIds
      /\ \A n \in EventIds :
        status'[n] = status[n] /\ (status[n] = "absent" => n \notin delivered')
  BY DEF WellFormed, TypeOK, EventsFit, Outbox!Deliver
<1>4. QED
  BY <1>1, <1>2, <1>3, IdleFits, StepKeeps

(* A handler that succeeds.                                                *)
LEMMA OkWellFormed ==
  ASSUME WellFormed, NEW n \in EventIds, HandlerOk(n)
  PROVE  WellFormed'
BY EndsWellFormed DEF HandlerOk, JobIds, redisVars, WellFormed, TypeOK

(* A handler or a rebuild that ends early.                                 *)
LEMMA AbortWellFormed ==
  ASSUME WellFormed, NEW j \in JobIds, Abort(j) \/ HandlerError(j)
  PROVE  WellFormed'
BY EndsWellFormed DEF Abort, HandlerError, redisVars, outboxVars, WellFormed, TypeOK

(* The row of an event goes, or is put aside.                              *)
LEMMA SettleWellFormed ==
  ASSUME WellFormed, NEW n \in EventIds, Complete(n) \/ DeadLetter(n)
  PROVE  WellFormed'
<1>1. /\ status[n] # "absent"
      /\ status' = [status EXCEPT ![n] = "done"] \/ status' = [status EXCEPT ![n] = "parked"]
      /\ delivered' = delivered
  BY DEF Complete, DeadLetter, Outbox!Finish, Outbox!Park
<1>2. UNCHANGED <<dbVars, event, nextEvent, tries, job, redisVars, clock, owed, expiries>>
  BY DEF Complete, DeadLetter
<1>3. /\ status' \in [EventIds -> {"absent", "pending", "parked", "done"}]
      /\ \A m \in EventIds : (status'[m] = "absent") <=> (status[m] = "absent")
  BY <1>1 DEF WellFormed, TypeOK
<1>4. TypeOK'
  BY <1>1, <1>2, <1>3 DEF WellFormed, TypeOK, dbVars, redisVars
<1>5. EventsFit'
  BY <1>1, <1>2, <1>3 DEF WellFormed, EventsFit, dbVars
<1>6. ASSUME NEW j \in JobIds PROVE JobFits(j, job[j])'
  BY <1>2, <1>3 DEF WellFormed, JobFits
<1>7. QED
  BY <1>4, <1>5, <1>6 DEF WellFormed

-----------------------------------------------------------------------------
(* A reader starts a rebuild of his own.                                   *)
LEMMA LazyWellFormed ==
  ASSUME WellFormed, NEW u \in Users, LazyRefresh(u)
  PROVE  WellFormed' /\ job'[u].pc = "follow" /\ job'[u].snap = {}
<1>1. PICK t \in Now : clock' = t /\ job' = [job EXCEPT ![u] = RebuildJob(u, t)]
  BY DEF LazyRefresh
<1> DEFINE x == RebuildJob(u, t)
<1>2. u \in JobIds /\ u \notin EventIds
  BY IdsAssumption DEF JobIds, EventIds
<1>3. t \in Nat /\ clock <= t
  BY NowLater DEF WellFormed
<1>4. /\ x \in Job /\ x.pc = "follow" /\ x.at = NoUser /\ x.snap = {} /\ x.who = u /\ x.t0 = t
  BY <1>3 DEF RebuildJob, Idle, Job, Pcs
<1> HIDE DEF x
<1>5. job' = [job EXCEPT ![u] = x] /\ job'[u] = x
  BY <1>1, <1>2 DEF x, WellFormed, TypeOK
<1>6. JobFits(u, job[u])'
  BY <1>1, <1>2, <1>3, <1>4, <1>5 DEF JobFits, Fanning, Rebuilding
<1>7. /\ UNCHANGED <<dbVars, event, nextEvent, owed, expiries>> /\ status' = status
      /\ status' \in [EventIds -> {"absent", "pending", "parked", "done"}]
      /\ delivered' \subseteq EventIds /\ tries' \in [EventIds -> 0..MaxTries]
      /\ \A m \in EventIds : status[m] = "absent" => m \notin delivered'
      /\ timeline' \in [Users -> SUBSET Posts] /\ written' \in [Users -> [Posts -> Nat]]
  BY DEF LazyRefresh, WellFormed, TypeOK, EventsFit, redisVars, outboxVars
<1>8. WellFormed'
  BY <1>1, <1>2, <1>3, <1>4, <1>5, <1>6, <1>7, StepKeeps
<1>9. QED
  BY <1>4, <1>5, <1>8

(* A rebuild goes on to its next stage.                                    *)
LEMMA RebuildStep ==
  ASSUME WellFormed, NEW j \in JobIds, Rebuilding(job[j]), NEW x \in Job, Rebuilding(x),
         x.at = job[j].at, x.todo = job[j].todo, x.who = job[j].who, x.t0 = job[j].t0
  PROVE  JobFits(j, x)
<1>1. JobFits(j, job[j])
  BY DEF WellFormed
<1>2. QED
  BY <1>1 DEF JobFits, Fanning, Rebuilding

(* A rebuild reads whom the reader follows.                                *)
LEMMA ReadFollowingWellFormed ==
  ASSUME WellFormed, NEW j \in JobIds, ReadFollowing(j)
  PROVE  WellFormed'
<1> PICK A \in Authors(job[j].who) :
           job' = [job EXCEPT ![j].pc = "load", ![j].authors = A]
  BY DEF ReadFollowing
<1> DEFINE x == [job[j] EXCEPT !.pc = "load", !.authors = A]
<1>1. Rebuilding(job[j])
  BY DEF ReadFollowing, Rebuilding
<1>2. job[j] \in Job /\ job[j].who \in Users
  BY <1>1, JobHolds
<1>3. /\ x \in Job /\ x.pc = "load" /\ x.at = job[j].at /\ x.todo = job[j].todo
      /\ x.who = job[j].who /\ x.t0 = job[j].t0
  BY <1>2 DEF Job, Pcs, Authors, Trimmed, Following
<1>4. job' = [job EXCEPT ![j] = x]
  OBVIOUS
<1> HIDE DEF x
<1>5. JobFits(j, x)
  BY <1>1, <1>3, RebuildStep DEF Rebuilding
<1>6. QED
  BY <1>3, <1>4, <1>5, QuietKeeps DEF ReadFollowing

(* A rebuild loads the posts of those authors.                             *)
LEMMA LoadWellFormed ==
  ASSUME WellFormed, NEW j \in JobIds, LoadPosts(j)
  PROVE  WellFormed'
<1>1. PICK S \in Trimmed(Readable(job[j].authors, job[j].who), MaxItems) :
             job' = [job EXCEPT ![j].pc = "replace", ![j].authors = {}, ![j].snap = S]
  BY DEF LoadPosts
<1> DEFINE x == [job[j] EXCEPT !.pc = "replace", !.authors = {}, !.snap = S]
<1>2. Rebuilding(job[j])
  BY DEF LoadPosts, Rebuilding
<1>3. job[j] \in Job /\ S \subseteq Posts
  BY <1>2, JobHolds, TrimmedSubset DEF Readable
<1>4. /\ x \in Job /\ x.pc = "replace" /\ x.at = job[j].at /\ x.todo = job[j].todo
      /\ x.who = job[j].who /\ x.t0 = job[j].t0
  BY <1>3 DEF Job, Pcs
<1>5. job' = [job EXCEPT ![j] = x]
  BY <1>1
<1> HIDE DEF x
<1>6. JobFits(j, x)
  BY <1>2, <1>4, RebuildStep DEF Rebuilding
<1>7. QED
  BY <1>4, <1>5, <1>6, QuietKeeps DEF LoadPosts

(* A rebuild replaces the timeline.                                        *)
LEMMA ReplaceWellFormed ==
  ASSUME WellFormed, NEW j \in JobIds, Replace(j)
  PROVE  WellFormed'
<1>1. job[j].who \in Users /\ job[j].snap \subseteq Posts
  BY JobHolds DEF Replace, Rebuilding
<1>2. timeline' \in [Users -> SUBSET Posts]
  BY <1>1, TrimmedSubset DEF Replace, Survivors, WellFormed, TypeOK
<1>3. QED
  BY <1>2, EndsWellFormed DEF Replace

(* A key expires.                                                          *)
LEMMA ExpireWellFormed ==
  ASSUME WellFormed, NEW u \in Users, Expire(u)
  PROVE  WellFormed'
<1>1. TypeOK'
  BY BoundsAssumption DEF Expire, WellFormed, TypeOK, dbVars, outboxVars
<1>2. EventsFit'
  BY DEF Expire, WellFormed, EventsFit, dbVars, outboxVars
<1>3. \A j \in JobIds : JobFits(j, job[j])'
  BY DEF Expire, WellFormed, JobFits, outboxVars
<1>4. QED
  BY <1>1, <1>2, <1>3 DEF WellFormed

-----------------------------------------------------------------------------
(* Next, action by action: a formula that every action implies holds of    *)
(* every step.                                                             *)
Acts ==
  \/ \E p \in Posts, vis \in Visibilities : CreatePost(p, vis) \/ UpdatePost(p, vis)
  \/ \E p \in Posts : DeletePost(p)
  \/ \E u, v \in Users : Follow(u, v) \/ Unfollow(u, v)
  \/ \E n \in EventIds : \/ StartHandler(n) \/ AddPost(n) \/ RemoveMarker(n)
                         \/ KeepForAuthor(n) \/ HandlerOk(n) \/ Complete(n) \/ DeadLetter(n)
                         \/ \E u \in Users :
                               Stamp(n, u) \/ RemoveEntry(n, u) \/ WriteFails(n, u)
  \/ \E j \in JobIds : \/ ReadFollowing(j) \/ LoadPosts(j) \/ Replace(j)
                       \/ Abort(j) \/ HandlerError(j)
  \/ \E u \in Users : LazyRefresh(u) \/ Expire(u)

(* The actions as the lemmas take them.                                    *)
LEMMA NextActs == Next => Acts
<1>1. EventIds \subseteq JobIds /\ Users \subseteq JobIds
  BY DEF JobIds
<1>2. \A e \in Pairs : e[1] \in Users /\ e[2] \in Users
  BY PairsAssumption
<1>3. Mutate => Acts
  BY <1>2 DEF Mutate, Acts
<1>4. \A j \in JobIds : Rebuild(j) => Acts
  BY DEF Rebuild, Acts
<1>5. \A n \in EventIds : Handle(n) => Acts
  BY <1>1, <1>4 DEF Handle, Acts
<1>6. QED
  BY <1>1, <1>3, <1>4, <1>5 DEF Next, Acts

(* WellFormed is inductive.                                                *)
LEMMA NextWellFormed == WellFormed /\ [Next]_vars => WellFormed'
<1> SUFFICES ASSUME WellFormed, [Next]_vars PROVE WellFormed'
  OBVIOUS
<1>1. CASE UNCHANGED vars
  <2>1. UNCHANGED <<dbVars, outboxVars, redisVars, job, clock, owed, expiries>>
    BY <1>1 DEF vars
  <2>2. TypeOK' /\ EventsFit'
    BY <2>1 DEF WellFormed, TypeOK, EventsFit, dbVars, outboxVars, redisVars
  <2>3. \A j \in JobIds : JobFits(j, job[j])'
    BY <2>1 DEF WellFormed, JobFits, outboxVars
  <2>4. QED
    BY <2>2, <2>3 DEF WellFormed
<1>2. CASE Acts
  BY <1>2, CreateWellFormed, UpdateWellFormed, DeleteWellFormed, FollowWellFormed,
     StartWellFormed, StampWellFormed, AddWellFormed, RemoveEntryWellFormed,
     RemoveMarkerWellFormed, FailsWellFormed, KeepWellFormed, OkWellFormed,
     AbortWellFormed, SettleWellFormed, LazyWellFormed, ReadFollowingWellFormed,
     LoadWellFormed, ReplaceWellFormed, ExpireWellFormed
     DEF Acts
<1>3. QED
  BY <1>1, <1>2, NextActs

(* TypeOK holds of every behaviour, for any users, posts, events and       *)
(* bounds (FanoutWorker, PreparedTimelineRefresher, RedisTimelineStore).   *)
THEOREM TypeCorrect == Spec => []TypeOK
<1>1. Spec => []WellFormed
  BY InitWellFormed, NextWellFormed, PTL DEF Spec
<1>2. WellFormed => TypeOK
  BY DEF WellFormed
<1>3. QED
  BY <1>1, <1>2, PTL

-----------------------------------------------------------------------------
(* NeverSharedStaysPrivate.                                                *)
LEMMA InitPrivate == Init => Private
<1> SUFFICES ASSUME Init PROVE Private
  OBVIOUS
<1>1. \A n \in EventIds : event[n] \notin PostEvent
  BY DEF Init, NoEvent, PostEvent
<1>2. QED
  BY <1>1, IdleFits DEF Init, Private, NeverSharedStaysPrivate, JobIds

(* A post once shared stays one that was.                                  *)
LEMMA AdmittedStays ==
  ASSUME \A p \in Posts : seen[p] \subseteq seen'[p]
  PROVE  \A p \in Posts, u \in Users : Admitted(u, p) => Admitted(u, p)'
BY DEF Admitted, Shared

(* A step of one job that leaves the database and the outbox keeps         *)
(* Private, if the job it moves and the timelines hold admitted posts.     *)
LEMMA JobPrivate ==
  ASSUME WellFormed, Private, NEW j \in JobIds, NEW x \in Job,
         job' = [job EXCEPT ![j] = x], UNCHANGED <<dbVars, event>>,
         x.pc = "add" => \A u \in x.todo : Admitted(u, event[j].post),
         \A p \in x.snap : Admitted(x.who, p),
         \A u \in Users : \A p \in timeline'[u] : Admitted(u, p)
  PROVE  Private'
<1>1. /\ job'[j] = x /\ \A i \in JobIds : i # j => job'[i] = job[i]
  BY JobMoves DEF WellFormed
<1>2. seen' = seen /\ post' = post /\ event' = event
  BY DEF dbVars
<1>3. \A n \in EventIds :
        job'[n].pc = "add" => \A u \in job'[n].todo : Admitted(u, event[n].post)
  BY <1>1 DEF Private, JobIds
<1>4. \A i \in JobIds : \A p \in job'[i].snap : Admitted(job'[i].who, p)
  BY <1>1 DEF Private
<1>5. QED
  BY <1>2, <1>3, <1>4 DEF Private, Admitted, Shared, NeverSharedStaysPrivate

(* A mutation and the event it publishes.                                  *)
LEMMA EnqueuePrivate ==
  ASSUME WellFormed, Private, NEW e \in PostEvent \cup FollowEvent, Enqueue(e),
         UNCHANGED <<job, redisVars>>,
         \A p \in Posts : /\ seen[p] \subseteq seen'[p]
                          /\ post'[p] = "shared" => "shared" \in seen'[p]
                          /\ post'[p] = "none" => seen'[p] = {},
         (e \in PostEvent /\ e.vis = "shared") => "shared" \in seen'[e.post]
  PROVE  Private'
<1>1. nextEvent \in EventIds /\ status[nextEvent] = "absent"
  BY DEF Enqueue, Outbox!Publish
<1>2. /\ event'[nextEvent] = e
      /\ \A n \in EventIds : n # nextEvent => event'[n] = event[n]
  BY <1>1 DEF Enqueue, WellFormed, TypeOK
<1>3. \A p \in Posts, u \in Users : Admitted(u, p) => Admitted(u, p)'
  BY AdmittedStays
<1>4. \A n \in EventIds :
        (event'[n] \in PostEvent /\ event'[n].vis = "shared") =>
           "shared" \in seen'[event'[n].post]
  BY <1>2, EventFields DEF Private, Shared, WellFormed
<1>5. ASSUME NEW n \in EventIds, job'[n].pc = "add", NEW u \in job'[n].todo
      PROVE  Admitted(u, event[n].post)'
  <2>1. n \in JobIds /\ job'[n] = job[n]
    BY DEF JobIds
  <2>2. JobFits(n, job[n]) /\ status[n] # "absent"
    BY <2>1, <1>5 DEF WellFormed, JobFits
  <2>3. event'[n] = event[n] /\ event[n].post \in Posts /\ u \in Users
    BY <1>1, <1>2, <1>5, <2>1, <2>2, JobHolds DEF Fanning
  <2>4. Admitted(u, event[n].post)
    BY <1>5, <2>1 DEF Private
  <2>5. QED
    BY <2>3, <2>4, <1>3
<1>6. ASSUME NEW j \in JobIds, NEW p \in job'[j].snap
      PROVE  Admitted(job[j].who, p)'
  <2>1. p \in Posts /\ job'[j] = job[j] /\ Admitted(job[j].who, p)
    BY <1>6, JobHolds DEF Private
  <2>2. QED
    BY <2>1 DEF Admitted, Shared
<1>7. NeverSharedStaysPrivate'
  BY DEF Private, NeverSharedStaysPrivate, redisVars, WellFormed, TypeOK
<1>8. QED
  BY <1>4, <1>5, <1>6, <1>7 DEF Private, Shared

(* A mutation of a post.                                                   *)
LEMMA MutatePrivate ==
  ASSUME WellFormed, Private, NEW p \in Posts, NEW vis \in Visibilities,
         CreatePost(p, vis) \/ UpdatePost(p, vis) \/ DeletePost(p)
  PROVE  Private'
<1>1. UNCHANGED <<job, redisVars>>
  BY DEF CreatePost, UpdatePost, DeletePost
<1>2. /\ \A q \in Posts : /\ seen[q] \subseteq seen'[q]
                          /\ post'[q] = "shared" => "shared" \in seen'[q]
                          /\ post'[q] = "none" => seen'[q] = {}
      /\ ~DeletePost(p) => (vis = "shared" => "shared" \in seen'[p])
  BY DEF CreatePost, UpdatePost, DeletePost, WellFormed, TypeOK, Private, Shared, Visibilities
<1>3. \/ Enqueue(PostPayload("created", p, vis)) /\ ~DeletePost(p)
      \/ Enqueue(PostPayload("changed", p, vis)) /\ ~DeletePost(p)
      \/ Enqueue(PostPayload("deleted", p, "private"))
      \/ UNCHANGED outboxVars
  BY DEF CreatePost, UpdatePost, DeletePost, Visibilities, WellFormed, TypeOK
<1>4. ASSUME NEW type \in {"created", "changed", "deleted"}, NEW v \in Visibilities,
             Enqueue(PostPayload(type, p, v)), v = "shared" => "shared" \in seen'[p]
      PROVE  Private'
  <2> DEFINE e == PostPayload(type, p, v)
  <2>1. e \in PostEvent /\ e.post = p /\ e.vis = v
    BY DEF PostPayload, PostEvent
  <2> HIDE DEF e
  <2>2. Enqueue(e)
    BY <1>4 DEF e
  <2>3. QED
    BY <1>1, <1>2, <1>4, <2>1, <2>2, EnqueuePrivate
<1>5. CASE UNCHANGED outboxVars
  <2>1. \A q \in Posts, u \in Users : Admitted(u, q) => Admitted(u, q)'
    BY <1>2, AdmittedStays
  <2>2. \A n \in EventIds : /\ event'[n] = event[n]
                            /\ event[n] \in PostEvent => event[n].post \in Posts
    BY <1>5, EventFields DEF outboxVars, WellFormed
  <2>3. ASSUME NEW n \in EventIds, job'[n].pc = "add", NEW u \in job'[n].todo
        PROVE  Admitted(u, event[n].post)'
    <3>1. n \in JobIds /\ job'[n] = job[n]
      BY <1>1 DEF JobIds
    <3>2. event[n].post \in Posts /\ u \in Users /\ Admitted(u, event[n].post)
      BY <2>3, <3>1, JobHolds DEF Private, Fanning
    <3>3. QED
      BY <2>1, <2>2, <3>2
  <2>4. ASSUME NEW j \in JobIds, NEW q \in job'[j].snap
        PROVE  Admitted(job[j].who, q)'
    <3>1. q \in Posts /\ job'[j] = job[j] /\ Admitted(job[j].who, q)
      BY <1>1, <2>4, JobHolds DEF Private
    <3>2. QED
      BY <1>2, <3>1 DEF Admitted, Shared
  <2>5. NeverSharedStaysPrivate'
    BY <1>1, <1>2 DEF Private, NeverSharedStaysPrivate, redisVars, WellFormed, TypeOK
  <2>6. QED
    BY <1>2, <2>2, <2>3, <2>4, <2>5 DEF Private, Shared
<1>6. QED
  BY <1>2, <1>3, <1>4, <1>5 DEF Visibilities

(* Following changes nothing that is on its way.                           *)
LEMMA FollowPrivate ==
  ASSUME WellFormed, Private, NEW u \in Users, NEW v \in Users, Follow(u, v) \/ Unfollow(u, v)
  PROVE  Private'
<1> DEFINE e == [type |-> "follow", actor |-> u]
<1>1. e \in FollowEvent /\ e \notin PostEvent
  BY DEF FollowEvent, PostEvent
<1>2. Enqueue(e) /\ UNCHANGED <<post, seen, job, redisVars>>
  BY DEF Follow, Unfollow
<1> HIDE DEF e
<1>3. QED
  BY <1>1, <1>2, EnqueuePrivate DEF Private, Shared

(* A handler begins: only the event of a post that was shared sends it to  *)
(* anybody but its author.                                                 *)
LEMMA StartPrivate ==
  ASSUME WellFormed, Private, NEW n \in EventIds, StartHandler(n)
  PROVE  Private'
<1>1. n \in JobIds /\ UNCHANGED <<dbVars, event>> /\ timeline' = timeline
  BY DEF StartHandler, JobIds, redisVars
<1>2. \A u \in Users : \A p \in timeline'[u] : Admitted(u, p)
  BY <1>1 DEF Private, NeverSharedStaysPrivate, Admitted, Shared, WellFormed, TypeOK
<1>3. ASSUME NEW kind \in {"add", "remove"}, NEW R \in SUBSET Users,
             job' = [job EXCEPT ![n] = FanJob(kind, R)],
             kind = "add" => \A u \in R : Admitted(u, event[n].post)
      PROVE  Private'
  <2> DEFINE x == FanJob(kind, R)
  <2>1. x \in Job /\ x.pc = kind /\ x.todo = R /\ x.snap = {}
    BY DEF FanJob, Idle, Job, Pcs
  <2>2. job' = [job EXCEPT ![n] = x]
    BY <1>3
  <2> HIDE DEF x
  <2>3. QED
    BY <1>1, <1>2, <1>3, <2>1, <2>2, JobPrivate
<1>4. ASSUME NEW u \in Users, NEW t \in Nat, job' = [job EXCEPT ![n] = RebuildJob(u, t)]
      PROVE  Private'
  <2> DEFINE x == RebuildJob(u, t)
  <2>1. x \in Job /\ x.pc = "follow" /\ x.snap = {}
    BY DEF RebuildJob, Idle, Job, Pcs
  <2>2. job' = [job EXCEPT ![n] = x]
    BY <1>4
  <2> HIDE DEF x
  <2>3. QED
    BY <1>1, <1>2, <2>1, <2>2, JobPrivate
<1>5. /\ \A u \in Users : \A R \in Recipients(u) : R \subseteq Users
      /\ \A t \in Now : t \in Nat
  BY NowLater DEF Recipients, Trimmed, Followers, WellFormed
<1>6. event[n] \in PostEvent =>
        /\ event[n].vis = "shared" => Shared(event[n].post)
        /\ Author[event[n].post] \in Users
        /\ Admitted(Author[event[n].post], event[n].post)
  BY EventFields, AuthorAssumption DEF Private, Admitted, WellFormed
<1>7. event[n].type = "follow" => event[n].actor \in Users
  BY EventFields DEF WellFormed
<1>8. CASE \E R \in Recipients(Author[event[n].post]) :
             /\ event[n].type \in {"created", "changed"} /\ event[n].vis = "shared"
             /\ job' = [job EXCEPT ![n] = FanJob("add", R)]
  <2>1. event[n] \in PostEvent
    BY <1>8, EventFields DEF WellFormed
  <2>2. \A u \in Users : Admitted(u, event[n].post)
    BY <1>6, <1>8, <2>1 DEF Admitted
  <2>3. QED
    BY <1>3, <1>5, <1>6, <1>8, <2>1, <2>2
<1>9. CASE /\ event[n].type = "created"
           /\ job' = [job EXCEPT ![n] = FanJob("add", {Author[event[n].post]})]
  <2>1. event[n] \in PostEvent
    BY <1>9, EventFields DEF WellFormed
  <2>2. QED
    BY <1>3, <1>6, <1>9, <2>1
<1>10. CASE \E R \in Recipients(Author[event[n].post]) :
             /\ event[n].type \in {"deleted", "changed"}
             /\ job' = [job EXCEPT ![n] = FanJob("remove", R)]
  <2>1. event[n] \in PostEvent
    BY <1>10, EventFields DEF WellFormed
  <2>2. QED
    BY <1>3, <1>5, <1>6, <1>10, <2>1
<1>11. CASE \E t \in Now : /\ event[n].type = "follow"
                           /\ job' = [job EXCEPT ![n] = RebuildJob(event[n].actor, t)]
  BY <1>4, <1>5, <1>7, <1>11
<1>12. QED
  BY <1>8, <1>9, <1>10, <1>11 DEF StartHandler

(* A handler goes on; AddPost stores what its job admits.                  *)
LEMMA HandlePrivate ==
  ASSUME WellFormed, Private, NEW n \in EventIds, NEW u \in Users,
         \/ Stamp(n, u) \/ AddPost(n) \/ RemoveEntry(n, u) \/ RemoveMarker(n)
         \/ WriteFails(n, u) \/ KeepForAuthor(n)
  PROVE  Private'
<1>1. /\ n \in JobIds /\ job[n] \in Job /\ Fanning(job[n]) /\ UNCHANGED <<dbVars, event>>
      /\ job[n].todo \subseteq Users
  BY JobHolds DEF JobIds, Stamp, AddPost, RemoveEntry, RemoveMarker, WriteFails,
     KeepForAuthor, Fanning, outboxVars
<1>2. \A v \in Users : \A p \in timeline'[v] : Admitted(v, p)
  <2>1. CASE AddPost(n)
    <3>1. /\ job[n].at \in Users /\ event[n].post \in Posts
          /\ Admitted(job[n].at, event[n].post)
      BY <1>1, <2>1, JobHolds DEF AddPost, Private
    <3>2. PICK K \in Trimmed(timeline[job[n].at] \cup {event[n].post}, MaxItems) :
                 timeline' = [timeline EXCEPT ![job[n].at] = K]
      BY <2>1 DEF AddPost
    <3>3. K \subseteq timeline[job[n].at] \cup {event[n].post}
      BY <3>2, TrimmedSubset
    <3>4. QED
      BY <3>1, <3>2, <3>3
         DEF Private, NeverSharedStaysPrivate, Admitted, Shared, WellFormed, TypeOK
  <2>2. CASE ~AddPost(n)
    <3>1. \/ timeline' = timeline
          \/ timeline' = [timeline EXCEPT ![u] = timeline[u] \ {event[n].post}]
      BY <2>2 DEF Stamp, RemoveEntry, RemoveMarker, WriteFails, KeepForAuthor, redisVars
    <3>2. timeline \in [Users -> SUBSET Posts]
      BY DEF WellFormed, TypeOK
    <3>3. \A v \in Users : timeline'[v] \subseteq timeline[v]
      BY <3>1, <3>2
    <3>4. QED
      BY <3>3 DEF Private, NeverSharedStaysPrivate, Admitted, Shared, WellFormed, TypeOK
  <2>3. QED
    BY <2>1, <2>2
<1>3. CASE ~KeepForAuthor(n)
  <2>1. PICK x : /\ job' = [job EXCEPT ![n] = x] /\ x \in Job
                 /\ x.pc = job[n].pc /\ x.todo \subseteq job[n].todo
                 /\ x.snap = job[n].snap /\ x.who = job[n].who
    <3>1. \/ job' = [job EXCEPT ![n] = [job[n] EXCEPT !.at = u, !.stamp = clock]]
          \/ job' = [job EXCEPT ![n] = [job[n] EXCEPT !.at = u]]
          \/ job' = [job EXCEPT ![n] = [job[n] EXCEPT !.at = NoUser,
                                                     !.todo = job[n].todo \ {job[n].at}]]
          \/ job' = [job EXCEPT ![n] = [job[n] EXCEPT !.at = NoUser,
                                                     !.todo = job[n].todo \ {u}, !.bad = TRUE]]
      BY <1>3 DEF Stamp, AddPost, RemoveEntry, RemoveMarker, WriteFails
    <3>2. clock \in Nat
      BY DEF WellFormed, TypeOK
    <3>3. ASSUME NEW x \in Job, job' = [job EXCEPT ![n] = x], x.pc = job[n].pc,
                 x.todo \subseteq job[n].todo, x.snap = job[n].snap, x.who = job[n].who
          PROVE  \E y : /\ job' = [job EXCEPT ![n] = y] /\ y \in Job
                        /\ y.pc = job[n].pc /\ y.todo \subseteq job[n].todo
                        /\ y.snap = job[n].snap /\ y.who = job[n].who
      BY <3>3
    <3>4. /\ [job[n] EXCEPT !.at = u, !.stamp = clock] \in Job
          /\ [job[n] EXCEPT !.at = u] \in Job
          /\ [job[n] EXCEPT !.at = NoUser, !.todo = job[n].todo \ {job[n].at}] \in Job
          /\ [job[n] EXCEPT !.at = NoUser, !.todo = job[n].todo \ {u}, !.bad = TRUE] \in Job
      BY <1>1, <3>2 DEF Job
    <3>5. CASE job' = [job EXCEPT ![n] = [job[n] EXCEPT !.at = u, !.stamp = clock]]
      BY <1>1, <3>3, <3>4, <3>5 DEF Job
    <3>6. CASE job' = [job EXCEPT ![n] = [job[n] EXCEPT !.at = u]]
      BY <1>1, <3>3, <3>4, <3>6 DEF Job
    <3>7. CASE job' = [job EXCEPT ![n] = [job[n] EXCEPT !.at = NoUser,
                                                        !.todo = job[n].todo \ {job[n].at}]]
      BY <1>1, <3>3, <3>4, <3>7 DEF Job
    <3>8. CASE job' = [job EXCEPT ![n] = [job[n] EXCEPT !.at = NoUser,
                                                        !.todo = job[n].todo \ {u}, !.bad = TRUE]]
      BY <1>1, <3>3, <3>4, <3>8 DEF Job
    <3>9. QED
      BY <3>1, <3>5, <3>6, <3>7, <3>8
  <2>2. QED
    BY <1>1, <1>2, <2>1, JobPrivate DEF Private
<1>4. CASE KeepForAuthor(n)
  <2> DEFINE x == FanJob("add", {Author[event[n].post]})
  <2>1. Author[event[n].post] \in Users
    BY <1>1, JobHolds, AuthorAssumption
  <2>2. x \in Job /\ x.todo = {Author[event[n].post]} /\ x.snap = {}
    BY <2>1 DEF FanJob, Idle, Job, Pcs
  <2>3. job' = [job EXCEPT ![n] = x]
    BY <1>4 DEF KeepForAuthor
  <2>4. \A v \in x.todo : Admitted(v, event[n].post)
    BY <2>2 DEF Admitted
  <2> HIDE DEF x
  <2>5. QED
    BY <1>1, <1>2, <2>2, <2>3, <2>4, JobPrivate
<1>5. QED
  BY <1>3, <1>4

(* A rebuild goes on, or a job ends; Replace stores what its job read and  *)
(* what was there.                                                         *)
LEMMA RebuildPrivate ==
  ASSUME WellFormed, Private, NEW j \in JobIds,
         \/ ReadFollowing(j) \/ LoadPosts(j) \/ Replace(j)
         \/ Abort(j) \/ HandlerError(j) \/ HandlerOk(j)
  PROVE  Private'
<1>1. job[j] \in Job /\ job[j].snap \subseteq Posts /\ UNCHANGED <<dbVars, event>>
  BY JobHolds DEF ReadFollowing, LoadPosts, Replace, Abort, HandlerError, HandlerOk, outboxVars
<1>2. \A u \in Users : \A p \in timeline'[u] : Admitted(u, p)
  <2>1. CASE Replace(j)
    <3> DEFINE who == job[j].who
    <3>1. who \in Users /\ \A p \in job[j].snap : Admitted(who, p)
      BY <2>1, JobHolds DEF Replace, Rebuilding, Private
    <3>2. PICK K \in Trimmed(Survivors(who, job[j].snap, job[j].t0), MaxItems) :
                 timeline' = [timeline EXCEPT ![who] = K]
      BY <2>1 DEF Replace
    <3>3. K \subseteq job[j].snap \cup timeline[who]
      BY <3>2, TrimmedSubset DEF Survivors
    <3>4. QED
      BY <3>1, <3>2, <3>3
         DEF Private, NeverSharedStaysPrivate, Admitted, Shared, WellFormed, TypeOK
  <2>2. CASE ~Replace(j)
    <3>1. timeline' = timeline
      BY <2>2 DEF ReadFollowing, LoadPosts, Abort, HandlerError, HandlerOk, redisVars
    <3>2. QED
      BY <3>1 DEF Private, NeverSharedStaysPrivate, Admitted, Shared, WellFormed, TypeOK
  <2>3. QED
    BY <2>1, <2>2
<1>3. CASE job' = [job EXCEPT ![j] = Idle]
  BY <1>1, <1>2, <1>3, IdleFits, JobPrivate
<1>4. CASE ReadFollowing(j)
  <2> PICK A \in Authors(job[j].who) :
             job' = [job EXCEPT ![j].pc = "load", ![j].authors = A]
    BY <1>4 DEF ReadFollowing
  <2> DEFINE x == [job[j] EXCEPT !.pc = "load", !.authors = A]
  <2>1. job[j].who \in Users
    BY <1>4, JobHolds DEF ReadFollowing, Rebuilding
  <2>2. x \in Job /\ x.pc = "load" /\ x.snap = job[j].snap /\ x.who = job[j].who
    BY <1>1, <2>1 DEF Job, Pcs, Authors, Trimmed, Following
  <2>3. job' = [job EXCEPT ![j] = x]
    OBVIOUS
  <2> HIDE DEF x
  <2>4. QED
    BY <1>1, <1>2, <2>2, <2>3, JobPrivate DEF Private
<1>5. CASE LoadPosts(j)
  <2>1. PICK S \in Trimmed(Readable(job[j].authors, job[j].who), MaxItems) :
               job' = [job EXCEPT ![j].pc = "replace", ![j].authors = {}, ![j].snap = S]
    BY <1>5 DEF LoadPosts
  <2> DEFINE x == [job[j] EXCEPT !.pc = "replace", !.authors = {}, !.snap = S]
  <2>2. S \subseteq Readable(job[j].authors, job[j].who)
    BY TrimmedSubset
  <2>3. x \in Job /\ x.pc = "replace" /\ x.snap = S /\ x.who = job[j].who
    BY <1>1, <2>2 DEF Job, Pcs, Readable
  <2>4. \A p \in S : Admitted(job[j].who, p)
    BY <2>2 DEF Readable, Private, Admitted
  <2>5. job' = [job EXCEPT ![j] = x]
    BY <2>1
  <2> HIDE DEF x
  <2>6. QED
    BY <1>1, <1>2, <2>3, <2>4, <2>5, JobPrivate
<1>6. QED
  BY <1>3, <1>4, <1>5 DEF Replace, Abort, HandlerError, HandlerOk

(* A rebuild starts with nothing.                                          *)
LEMMA LazyPrivate ==
  ASSUME WellFormed, Private, NEW u \in Users, LazyRefresh(u)
  PROVE  Private'
<1>1. PICK t \in Now : job' = [job EXCEPT ![u] = RebuildJob(u, t)]
  BY DEF LazyRefresh
<1> DEFINE x == RebuildJob(u, t)
<1>2. x \in Job /\ x.pc = "follow" /\ x.snap = {} /\ u \in JobIds
  BY NowLater DEF RebuildJob, Idle, Job, Pcs, JobIds, WellFormed
<1>3. /\ job' = [job EXCEPT ![u] = x] /\ UNCHANGED <<dbVars, event>> /\ timeline' = timeline
  BY <1>1 DEF LazyRefresh, outboxVars, redisVars
<1> HIDE DEF x
<1>4. \A v \in Users : \A p \in timeline'[v] : Admitted(v, p)
  BY <1>3
     DEF Private, NeverSharedStaysPrivate, Admitted, Shared, WellFormed, TypeOK
<1>5. QED
  BY <1>2, <1>3, <1>4, JobPrivate

(* A step that leaves database, events and jobs, and adds to no timeline.  *)
LEMMA RestPrivate ==
  ASSUME WellFormed, Private, UNCHANGED <<dbVars, event, job>>,
         \A u \in Users : timeline'[u] \subseteq timeline[u]
  PROVE  Private'
BY DEF Private, NeverSharedStaysPrivate, Admitted, Shared, dbVars

(* Private is inductive, given WellFormed.                                 *)
LEMMA NextPrivate == WellFormed /\ Private /\ [Next]_vars => Private'
<1> SUFFICES ASSUME WellFormed, Private, [Next]_vars PROVE Private'
  OBVIOUS
<1>1. CASE UNCHANGED vars
  BY <1>1, RestPrivate DEF vars, outboxVars, redisVars
<1>2. ASSUME NEW u \in Users, Expire(u) PROVE Private'
  BY <1>2, RestPrivate DEF Expire, outboxVars, WellFormed, TypeOK
<1>3. ASSUME NEW n \in EventIds, Complete(n) \/ DeadLetter(n) PROVE Private'
  BY <1>3, RestPrivate DEF Complete, DeadLetter, redisVars
<1>4. CASE Acts
  <2>1. EventIds \subseteq JobIds
    BY DEF JobIds
  <2>2. ASSUME NEW n \in EventIds, AddPost(n) \/ RemoveMarker(n) \/ KeepForAuthor(n)
        PROVE  Private'
    <3>1. job[n].todo \subseteq Users /\ (~KeepForAuthor(n) => job[n].at \in Users)
      BY <2>1, <2>2, JobHolds DEF AddPost, RemoveMarker
    <3>2. \E u \in Users : TRUE
      <4>1. KeepForAuthor(n) => Author[event[n].post] \in Users
        BY <2>1, JobHolds, AuthorAssumption DEF KeepForAuthor, Fanning
      <4>2. QED
        BY <2>2, <3>1, <4>1
    <3>3. QED
      BY <2>2, <3>2, HandlePrivate
  <2>3. \E v \in Visibilities : TRUE
    BY DEF Visibilities
  <2>4. ASSUME NEW p \in Posts, DeletePost(p) PROVE Private'
    BY <2>3, <2>4, MutatePrivate
  <2>5. ASSUME NEW n \in EventIds, HandlerOk(n) PROVE Private'
    BY <2>1, <2>5, RebuildPrivate
  <2>6. QED
    BY <1>2, <1>3, <1>4, <2>2, <2>4, <2>5, MutatePrivate, FollowPrivate, StartPrivate,
       HandlePrivate, RebuildPrivate, LazyPrivate DEF Acts
<1>5. QED
  BY <1>1, <1>4, NextActs

(* NeverSharedStaysPrivate holds of every behaviour, for any number of     *)
(* users, posts, events, concurrent handlers, rebuilds and expiries: a     *)
(* post that was private all along reaches nobody's timeline but its       *)
(* author's (HandleFeedEvent, RefreshTimeline, ReplacePosts).              *)
THEOREM PrivateStaysPrivate == Spec => []NeverSharedStaysPrivate
<1>1. Spec => []WellFormed
  BY InitWellFormed, NextWellFormed, PTL DEF Spec
<1>2. Spec => []Private
  BY <1>1, InitPrivate, NextPrivate, PTL DEF Spec
<1>3. Private => NeverSharedStaysPrivate
  BY DEF Private
<1>4. QED
  BY <1>2, <1>3, PTL

-----------------------------------------------------------------------------
(* NoFanoutLost.                                                           *)

(* Timelines have room for every post.                                     *)
Room == Cardinality(Posts) <= MaxItems

(* With room for all posts nothing is trimmed from a timeline ...          *)
LEMMA NothingTrimmed ==
  ASSUME Room
  PROVE  \A S \in SUBSET Posts : \A K \in Trimmed(S, MaxItems) : K = S
<1>1. \A S \in SUBSET Posts : IsFiniteSet(S) /\ Cardinality(S) \in Nat
                              /\ Cardinality(S) <= Cardinality(Posts)
  BY FiniteAssumption, FS_Subset, FS_CardinalityType
<1>2. MaxItems \in Nat /\ Cardinality(Posts) \in Nat
  BY BoundsAssumption, <1>1
<1>3. ASSUME NEW S \in SUBSET Posts, NEW K \in Trimmed(S, MaxItems) PROVE K = S
  <2>1. Cardinality(S) <= MaxItems
    BY <1>1, <1>2 DEF Room
  <2>2. QED
    BY <1>1, <1>2, <2>1, TrimmedWhole
<1>4. QED
  BY <1>3

(* ... nor from the markers.                                               *)
LEMMA NoMarkerTrimmed ==
  ASSUME Room, NEW w \in [Posts -> Nat], NEW v \in TrimMarkers(w)
  PROVE  v = w
<1>1. PICK K \in Trimmed(Marked(w), MaxItems) :
           v = [p \in Posts |-> IF p \in K THEN w[p] ELSE 0]
  BY DEF TrimMarkers
<1>2. K = Marked(w)
  BY <1>1, NothingTrimmed DEF Marked
<1>3. QED
  BY <1>1, <1>2 DEF Marked

(* A list that is not longer than its cap is read whole, so the fan-outs   *)
(* of an author find the followers no cap can leave out, and the rebuilds  *)
(* of those followers find the author.                                     *)
LEMMA CertainFound ==
  ASSUME NEW u \in Users
  PROVE  /\ Certain(u) \subseteq Users
         /\ \A R \in Recipients(u) : R \subseteq Users /\ u \in R /\ Certain(u) \subseteq R
         /\ \A A \in Authors(u) :
              A \subseteq Users /\ u \in A /\ \A v \in Users : u \in Certain(v) => v \in A
<1>1. \A F \in SUBSET Users : IsFiniteSet(F) /\ Cardinality(F) \in Nat
  BY FiniteAssumption, FS_Subset, FS_CardinalityType
<1>2. FollowerCap \in Nat /\ FollowingCap \in Nat
  BY BoundsAssumption
<1>3. \A v \in Users : Followers(v) \in SUBSET Users /\ Following(v) \in SUBSET Users
  BY DEF Followers, Following
<1>4. ASSUME NEW F \in Trimmed(Followers(u), FollowerCap)
      PROVE  F \subseteq Users /\ Certain(u) \subseteq F
  <2>1. F \subseteq Followers(u)
    BY DEF Trimmed
  <2>2. Cardinality(Followers(u)) <= FollowerCap => F = Followers(u)
    BY <1>1, <1>2, <1>3, TrimmedWhole
  <2>3. QED
    BY <1>3, <2>1, <2>2 DEF Certain
<1>5. ASSUME NEW F \in Trimmed(Following(u), FollowingCap)
      PROVE  F \subseteq Users /\ \A v \in Users : u \in Certain(v) => v \in F
  <2>1. F \subseteq Following(u)
    BY DEF Trimmed
  <2>2. Cardinality(Following(u)) <= FollowingCap => F = Following(u)
    BY <1>1, <1>2, <1>3, TrimmedWhole
  <2>3. \A v \in Users : u \in Certain(v) =>
          v \in Following(u) /\ Cardinality(Following(u)) <= FollowingCap
    BY DEF Certain, Followers, Following
  <2>4. QED
    BY <1>3, <2>1, <2>2, <2>3
<1>6. Certain(u) \subseteq Users
  BY <1>3 DEF Certain
<1>7. QED
  BY <1>4, <1>5, <1>6 DEF Recipients, Authors

(* They are the same as long as the graph is.                              *)
LEMMA SameCertain ==
  ASSUME UNCHANGED follows
  PROVE  \A u : Certain(u)' = Certain(u)
BY DEF Certain, Followers, Following

(* Nobody is owed anything at first.                                       *)
LEMMA InitKept == Init => Kept
<1> SUFFICES ASSUME Init PROVE Kept
  OBVIOUS
<1>1. \A n \in EventIds : event[n] \notin PostEvent
  BY DEF Init, NoEvent, PostEvent
<1>2. \A j \in JobIds : job[j] = Idle /\ job[j].pc = "idle"
  BY IdleFits DEF Init
<1>3. QED
  BY <1>1, <1>2 DEF Init, Kept, Born, RebuildsFind, StampsLate, RemovesOthers, Arrived,
                    Creates,
     Owing, Rebuilding, JobIds

(* A step of one job keeps Kept, if a rebuild finds what it is to find, a  *)
(* marker is stamped late enough, nothing that arrived goes, and a job     *)
(* reaches nobody without leaving the post there.                          *)
LEMMA JobKept ==
  ASSUME WellFormed, Kept, NEW j \in JobIds, NEW x \in Job, job' = [job EXCEPT ![j] = x],
         UNCHANGED <<dbVars, event, owed>>, clock' \in Nat, clock <= clock',
         \A p \in Posts : (Rebuilding(x) /\ x.who \in owed[p]) => Finds(x, p),
         (x.pc = "add" /\ x.at # NoUser) => birth[event[j].post] <= x.stamp,
         x.pc = "remove" => event[j].type # "created",
         \A p \in Posts : \A u \in owed[p] : Fanned(u, p) => Fanned(u, p)',
         \A n \in EventIds : n # j => (n \in delivered' => n \in delivered),
         \A p \in Posts : Creates(j, p) =>
           \A u \in owed[p] :
             (j \in delivered' \/ (x.pc = "add" /\ u \notin x.todo /\ ~x.bad))
               => Reached(j, u) \/ Fanned(u, p)'
  PROVE  Kept'
<1>1. /\ job'[j] = x /\ \A i \in JobIds : i # j => job'[i] = job[i]
      /\ EventIds \subseteq JobIds
  BY JobMoves DEF WellFormed, JobIds
<1>2. UNCHANGED <<post, birth, follows>>
  BY DEF dbVars
<1>3. Born'
  BY <1>2 DEF Kept, Born, WellFormed, TypeOK
<1>4. RebuildsFind'
  BY <1>1, <1>2 DEF Kept, RebuildsFind, Finds, Rebuilding
<1>5. StampsLate' /\ RemovesOthers'
  BY <1>1, <1>2 DEF Kept, StampsLate, RemovesOthers
<1>6. \A p \in Posts : Owing(p)'
  BY <1>2, SameCertain DEF Kept, Owing
<1>7. Arrived'
  <2> SUFFICES ASSUME NEW n \in EventIds, NEW p \in Posts, Creates(n, p),
                      NEW u \in owed[p], Reached(n, u)'
               PROVE  Fanned(u, p)'
    BY DEF Arrived, Creates
  <2>1. CASE n = j
    <3>1. Reached(j, u) \/ Fanned(u, p)'
      BY <1>1, <2>1 DEF Reached
    <3>2. QED
      BY <2>1, <3>1 DEF Kept, Arrived
  <2>2. CASE n # j
    <3>1. Reached(n, u)
      BY <1>1, <2>2 DEF Reached
    <3>2. QED
      BY <3>1 DEF Kept, Arrived
  <2>3. QED
    BY <2>1, <2>2
<1>8. QED
  BY <1>3, <1>4, <1>5, <1>6, <1>7 DEF Kept

(* What an event does to the others: nothing.                              *)
LEMMA OneEventMore ==
  ASSUME WellFormed, NEW e, Enqueue(e), UNCHANGED job
  PROVE  /\ nextEvent \in EventIds /\ event'[nextEvent] = e
         /\ \A n \in EventIds : n # nextEvent => event'[n] = event[n]
         /\ delivered' = delivered /\ nextEvent \notin delivered
         /\ job[nextEvent].pc = "idle"
<1>1. nextEvent \in EventIds /\ status[nextEvent] = "absent" /\ delivered' = delivered
  BY DEF Enqueue, Outbox!Publish
<1>2. nextEvent \in JobIds /\ JobFits(nextEvent, job[nextEvent])
  BY <1>1 DEF JobIds, WellFormed
<1>3. QED
  BY <1>1, <1>2 DEF Enqueue, WellFormed, TypeOK, EventsFit, JobFits

(* What a mutation may do to a post it is not about: take back some of     *)
(* what is owed, until only readers who may see the post are left.         *)
Spared(q) ==
  /\ post'[q] = post[q] /\ birth'[q] = birth[q] /\ owed'[q] \subseteq owed[q]
  /\ owed'[q] \subseteq
       {Author[q]} \cup (IF post[q] = "shared" THEN Certain(Author[q])' ELSE {})

\* And to a post it is about: nothing under way has stamped it, or misses it.
Renewed(p) ==
  /\ post'[p] # "none" => 1 <= birth'[p] /\ birth'[p] <= clock
  /\ Owing(p)'
  /\ \A j \in JobIds :
       (Rebuilding(job[j]) /\ job[j].who \in owed'[p]) => job[j].t0 <= birth'[p]
  /\ \A n \in EventIds :
       (event[n] \in PostEvent /\ event[n].post = p) => birth'[p] = birth[p]
  /\ \A n \in EventIds : (Creates(n, p)' /\ owed'[p] # {}) =>
       n \notin delivered /\ job[n].pc = "idle"

(* A mutation of the posts in P, or of the follow graph.                   *)
LEMMA MutationKept ==
  ASSUME WellFormed, Kept, NEW P \in SUBSET Posts,
         UNCHANGED <<job, redisVars, clock, delivered>>,
         \A n \in EventIds :
           \/ event'[n] = event[n]
           \/ /\ n \notin delivered /\ job[n].pc = "idle"
              /\ event'[n] \in PostEvent => event'[n].post \in P,
         \A q \in Posts \ P : Spared(q),
         \A p \in P : Renewed(p)
  PROVE  Kept'
<1>1. \A n \in EventIds : event[n] \in PostEvent => event[n].post \in Posts
  BY EventFields DEF WellFormed
<1>2. \A n \in EventIds : n \in JobIds
  BY DEF JobIds
<1> USE DEF Spared, Renewed
<1>3. Born'
  BY DEF Kept, Born
<1>4. RebuildsFind'
  <2> SUFFICES ASSUME NEW p \in Posts, NEW j \in JobIds,
                      Rebuilding(job[j]), job[j].who \in owed'[p]
               PROVE  Finds(job[j], p)'
    BY DEF RebuildsFind, Rebuilding
  <2>1. CASE p \in P
    BY <2>1 DEF Finds
  <2>2. CASE p \notin P
    BY <2>2 DEF Kept, RebuildsFind, Finds
  <2>3. QED
    BY <2>1, <2>2
<1>5. StampsLate' /\ RemovesOthers'
  <2>1. ASSUME NEW n \in EventIds, Fanning(job[n])
        PROVE  /\ event'[n] = event[n] /\ event[n] \in PostEvent
               /\ birth'[event[n].post] = birth[event[n].post]
    <3>1. event[n] \in PostEvent /\ event'[n] = event[n]
      BY <1>2, <2>1, JobHolds DEF Fanning
    <3>2. QED
      BY <1>1, <3>1
  <2>2. QED
    BY <2>1 DEF Kept, StampsLate, RemovesOthers, Fanning
<1>6. ASSUME NEW p \in Posts PROVE Owing(p)'
  <2>1. CASE p \notin P
    <3>1. \A n \in EventIds :
            (event'[n] \in PostEvent /\ event'[n].post = p) => event'[n] = event[n]
      BY <2>1
    <3>2. Owing(p) /\ post'[p] = post[p] /\ owed'[p] \subseteq owed[p]
      BY <2>1 DEF Kept
    <3>3. owed'[p] \subseteq
            {Author[p]} \cup (IF post[p] = "shared" THEN Certain(Author[p])' ELSE {})
      BY <2>1
    <3>4. owed'[p] # {} => owed[p] # {}
      BY <3>2
    <3>5. QED
      BY <3>1, <3>2, <3>3, <3>4 DEF Owing
  <2>2. QED
    BY <2>1
<1>7. Arrived'
  <2> SUFFICES ASSUME NEW n \in EventIds, NEW p \in Posts, Creates(n, p)',
                      NEW u \in owed'[p], Reached(n, u)'
               PROVE  Fanned(u, p)'
    BY DEF Arrived
  <2>1. CASE p \in P
    BY <2>1 DEF Reached
  <2>2. CASE p \notin P
    <3>1. event'[n] = event[n] /\ birth'[p] = birth[p] /\ u \in owed[p]
      BY <2>2 DEF Creates
    <3>2. Creates(n, p) /\ Reached(n, u)
      BY <3>1 DEF Creates, Reached
    <3>3. QED
      BY <3>1, <3>2 DEF Kept, Arrived, Fanned, redisVars
  <2>3. QED
    BY <2>1, <2>2
<1>8. QED
  BY <1>3, <1>4, <1>5, <1>6, <1>7 DEF Kept

(* A new post is owed to its readers, and no rebuild can be late for it.   *)
LEMMA CreateKept ==
  ASSUME WellFormed, Kept, NEW p \in Posts, NEW vis \in Visibilities, CreatePost(p, vis)
  PROVE  Kept'
<1> DEFINE e == PostPayload("created", p, vis)
<1>1. e \in PostEvent /\ e.post = p /\ e.vis = vis /\ e.type = "created"
  BY DEF PostPayload, PostEvent
<1>2. Enqueue(e) /\ UNCHANGED <<follows, job, redisVars, clock, expiries>>
  BY DEF CreatePost
<1> HIDE DEF e
<1>3. /\ nextEvent \in EventIds /\ event'[nextEvent] = e
      /\ \A n \in EventIds : n # nextEvent => event'[n] = event[n]
      /\ delivered' = delivered /\ nextEvent \notin delivered /\ job[nextEvent].pc = "idle"
  BY <1>2, OneEventMore
<1>4. \A n \in EventIds : event[n] \in PostEvent => event[n].post # p
  BY DEF CreatePost, WellFormed, EventsFit
<1>5. /\ post'[p] = vis /\ birth'[p] = clock
      /\ owed'[p] = {Author[p]} \cup (IF vis = "shared" THEN Certain(Author[p]) ELSE {})
      /\ \A q \in Posts \ {p} :
           post'[q] = post[q] /\ birth'[q] = birth[q] /\ owed'[q] = owed[q]
  BY DEF CreatePost, WellFormed, TypeOK
<1>6. clock \in Nat \ {0}
  BY DEF WellFormed, TypeOK
<1>7. \A u : Certain(u)' = Certain(u)
  BY <1>2, SameCertain
<1>8. Owing(p)'
  BY <1>1, <1>3, <1>4, <1>5, <1>7 DEF Owing
<1>9. \A q \in Posts \ {p} : owed'[q] \subseteq
        {Author[q]} \cup (IF post[q] = "shared" THEN Certain(Author[q])' ELSE {})
  BY <1>5, <1>7 DEF Kept, Owing
<1>10. \A j \in JobIds : Rebuilding(job[j]) => job[j].t0 <= birth'[p]
  BY <1>5, JobHolds
<1>11. \A n \in EventIds : Creates(n, p)' => n \notin delivered /\ job[n].pc = "idle"
  BY <1>3, <1>4 DEF Creates
<1>12. \A n \in EventIds :
         \/ event'[n] = event[n]
         \/ /\ n \notin delivered /\ job[n].pc = "idle"
            /\ event'[n] \in PostEvent => event'[n].post \in {p}
  BY <1>1, <1>3
<1>13. QED
  <2> DEFINE P == {p}
  <2>1. P \in SUBSET Posts /\ \A q : q \in P <=> q = p
    OBVIOUS
  <2> HIDE DEF P
  <2>2. \A n \in EventIds :
          \/ event'[n] = event[n]
          \/ /\ n \notin delivered /\ job[n].pc = "idle"
             /\ event'[n] \in PostEvent => event'[n].post \in P
    BY <1>12, <2>1
  <2>3. \A q \in Posts \ P : Spared(q)
    BY <1>5, <1>9, <2>1 DEF Spared
  <2>4. Renewed(p)
    BY <1>4, <1>5, <1>6, <1>8, <1>10, <1>11 DEF Renewed
  <2>5. \A q \in P : Renewed(q)
    BY <2>1, <2>4
  <2>6. QED
    BY <1>2, <1>3, <2>1, <2>2, <2>3, <2>5, MutationKept

(* A post that was changed or deleted is owed to nobody.                   *)
LEMMA ChangeKept ==
  ASSUME WellFormed, Kept, NEW p \in Posts, NEW vis \in Visibilities,
         UpdatePost(p, vis) \/ DeletePost(p)
  PROVE  Kept'
<1>1. UNCHANGED <<birth, follows, job, redisVars, clock>>
  BY DEF UpdatePost, DeletePost
<1>2. /\ owed'[p] = {}
      /\ \A q \in Posts \ {p} : post'[q] = post[q] /\ owed'[q] = owed[q]
  BY DEF UpdatePost, DeletePost, WellFormed, TypeOK
<1>3. /\ delivered' = delivered
      /\ \A n \in EventIds :
           \/ event'[n] = event[n]
           \/ /\ n \notin delivered /\ job[n].pc = "idle"
              /\ event'[n] \in PostEvent => event'[n].post \in {p}
  <2>1. \/ UNCHANGED outboxVars
        \/ Enqueue(PostPayload("changed", p, vis))
        \/ Enqueue(PostPayload("deleted", p, "private"))
    BY DEF UpdatePost, DeletePost
  <2>2. ASSUME NEW e, e.post = p, Enqueue(e)
        PROVE  /\ delivered' = delivered
               /\ \A n \in EventIds :
                    \/ event'[n] = event[n]
                    \/ /\ n \notin delivered /\ job[n].pc = "idle"
                       /\ event'[n] \in PostEvent => event'[n].post \in {p}
    <3>1. /\ event'[nextEvent] = e /\ delivered' = delivered
          /\ \A n \in EventIds : n # nextEvent => event'[n] = event[n]
          /\ nextEvent \notin delivered /\ job[nextEvent].pc = "idle"
      BY <1>1, <2>2, OneEventMore
    <3>2. QED
      BY <2>2, <3>1
  <2>3. \A type, v : PostPayload(type, p, v).post = p
    BY DEF PostPayload
  <2>4. QED
    BY <2>1, <2>2, <2>3 DEF outboxVars
<1>4. post[p] # "none" /\ clock \in Nat
  BY DEF UpdatePost, DeletePost, Visibilities, WellFormed, TypeOK
<1>5. 1 <= birth'[p] /\ birth'[p] <= clock /\ Owing(p)'
  BY <1>1, <1>2, <1>4 DEF Kept, Born, Owing
<1>6. \A q \in Posts \ {p} : owed'[q] \subseteq
        {Author[q]} \cup (IF post[q] = "shared" THEN Certain(Author[q])' ELSE {})
  <2>1. \A u : Certain(u)' = Certain(u)
    BY <1>1, SameCertain
  <2>2. QED
    BY <1>2, <2>1 DEF Kept, Owing
<1>7. QED
  <2> DEFINE P == {p}
  <2>1. P \in SUBSET Posts /\ \A q : q \in P <=> q = p
    OBVIOUS
  <2> HIDE DEF P
  <2>2. \A n \in EventIds :
          \/ event'[n] = event[n]
          \/ /\ n \notin delivered /\ job[n].pc = "idle"
             /\ event'[n] \in PostEvent => event'[n].post \in P
    BY <1>3, <2>1
  <2>3. \A q \in Posts \ P : Spared(q)
    BY <1>1, <1>2, <1>6, <2>1 DEF Spared
  <2>4. Renewed(p)
    BY <1>1, <1>2, <1>5 DEF Renewed
  <2>5. \A q \in P : Renewed(q)
    BY <2>1, <2>4
  <2>6. QED
    BY <1>1, <1>3, <2>1, <2>2, <2>3, <2>5, MutationKept

(* Who follows later is owed nothing, who unfollows is owed no more.       *)
LEMMA FollowKept ==
  ASSUME WellFormed, Kept, NEW u \in Users, NEW v \in Users, Follow(u, v) \/ Unfollow(u, v)
  PROVE  Kept'
<1> DEFINE e == [type |-> "follow", actor |-> u]
<1>1. e \notin PostEvent
  BY DEF PostEvent
<1>2. Enqueue(e) /\ UNCHANGED <<post, birth, job, redisVars, clock>>
  BY DEF Follow, Unfollow
<1> HIDE DEF e
<1>3. /\ delivered' = delivered
      /\ \A n \in EventIds :
           \/ event'[n] = event[n]
           \/ /\ n \notin delivered /\ job[n].pc = "idle"
              /\ event'[n] \in PostEvent => event'[n].post \in {}
  BY <1>1, <1>2, OneEventMore
<1>4. \A q \in Posts : owed'[q] = owed[q] \cap ({Author[q]} \cup Certain(Author[q])')
  BY DEF Follow, Unfollow, StillOwed
<1>5. \A q \in Posts : owed'[q] \subseteq owed[q] /\ Owing(q)
  BY <1>4 DEF Kept
<1>6. \A q \in Posts : owed'[q] \subseteq
        {Author[q]} \cup (IF post[q] = "shared" THEN Certain(Author[q])' ELSE {})
  BY <1>4, <1>5 DEF Owing
<1>7. QED
  <2> DEFINE P == {}
  <2>1. P \in SUBSET Posts /\ Posts \ P = Posts /\ \A p \in P : FALSE
    OBVIOUS
  <2> HIDE DEF P
  <2>2. \A n \in EventIds :
           \/ event'[n] = event[n]
           \/ /\ n \notin delivered /\ job[n].pc = "idle"
              /\ event'[n] \in PostEvent => event'[n].post \in P
    BY <1>3
  <2>3. \A q \in Posts \ P : Spared(q)
    BY <1>2, <1>5, <1>6, <2>1 DEF Spared
  <2>4. \A p \in P : Renewed(p)
    BY <2>1
  <2>5. QED
    BY <1>2, <1>3, <2>1, <2>2, <2>3, <2>4, MutationKept

(* A job that is no fan-out of a created post asks little of JobKept.      *)
LEMMA OtherJobKept ==
  ASSUME WellFormed, Kept, NEW j \in JobIds, NEW x \in Job, job' = [job EXCEPT ![j] = x],
         UNCHANGED <<dbVars, event, owed, delivered>>, clock' \in Nat, clock <= clock',
         \A p \in Posts : (Rebuilding(x) /\ x.who \in owed[p]) => Finds(x, p),
         x.pc # "add", x.pc = "remove" => event[j].type # "created",
         \A p \in Posts : \A u \in owed[p] : Fanned(u, p) => Fanned(u, p)'
  PROVE  Kept'
<1>1. \A p \in Posts : Creates(j, p) => \A u \in owed[p] : j \in delivered' => Reached(j, u)
  BY DEF Reached
<1>2. QED
  BY <1>1, JobKept

(* A handler begins; who is owed a created post is among its recipients.   *)
LEMMA StartKept ==
  ASSUME WellFormed, Kept, NEW n \in EventIds, StartHandler(n)
  PROVE  Kept'
<1>1. /\ n \in JobIds /\ UNCHANGED <<dbVars, event, owed, delivered>>
      /\ timeline' = timeline /\ written' = written
  BY DEF StartHandler, JobIds, redisVars
<1>2. \A p \in Posts : \A u \in owed[p] : Fanned(u, p) => Fanned(u, p)'
  BY <1>1 DEF Fanned, dbVars
<1>3. ASSUME NEW R \in SUBSET Users, clock' = clock,
             job' = [job EXCEPT ![n] = FanJob("add", R)],
             \A p \in Posts : Creates(n, p) => owed[p] \subseteq R
      PROVE  Kept'
  <2> DEFINE x == FanJob("add", R)
  <2>1. x \in Job /\ x.pc = "add" /\ x.at = NoUser /\ x.todo = R /\ ~Rebuilding(x)
    BY DEF FanJob, Idle, Job, Pcs, Rebuilding
  <2>2. job' = [job EXCEPT ![n] = x]
    BY <1>3
  <2> HIDE DEF x
  <2>3. \A p \in Posts : Creates(n, p) =>
          \A u \in owed[p] :
            (n \in delivered' \/ (x.pc = "add" /\ u \notin x.todo /\ ~x.bad)) => Reached(n, u)
    BY <1>1, <1>3, <2>1 DEF Reached
  <2>4. clock' \in Nat /\ clock <= clock'
    BY <1>3 DEF WellFormed, TypeOK
  <2>5. QED
    BY <1>1, <1>2, <2>1, <2>2, <2>3, <2>4, JobKept
<1>4. ASSUME NEW R \in SUBSET Users, clock' = clock, event[n].type # "created",
             job' = [job EXCEPT ![n] = FanJob("remove", R)]
      PROVE  Kept'
  <2> DEFINE x == FanJob("remove", R)
  <2>1. x \in Job /\ x.pc = "remove" /\ ~Rebuilding(x)
    BY DEF FanJob, Idle, Job, Pcs, Rebuilding
  <2>2. job' = [job EXCEPT ![n] = x] /\ clock' \in Nat /\ clock <= clock'
    BY <1>4 DEF WellFormed, TypeOK
  <2> HIDE DEF x
  <2>3. QED
    BY <1>1, <1>2, <1>4, <2>1, <2>2, OtherJobKept
<1>5. ASSUME NEW u \in Users, NEW t \in Now, clock' = t,
             job' = [job EXCEPT ![n] = RebuildJob(u, t)]
      PROVE  Kept'
  <2> DEFINE x == RebuildJob(u, t)
  <2>1. t \in Nat /\ clock <= t
    BY NowLater DEF WellFormed
  <2>2. x \in Job /\ x.pc = "follow"
    BY <2>1 DEF RebuildJob, Idle, Job, Pcs
  <2>3. job' = [job EXCEPT ![n] = x] /\ \A p \in Posts : Finds(x, p)
    BY <1>5, <2>2 DEF Finds
  <2> HIDE DEF x
  <2>4. QED
    BY <1>1, <1>2, <1>5, <2>1, <2>2, <2>3, OtherJobKept
<1>6. /\ event[n] \in PostEvent => /\ event[n].post \in Posts
                                   /\ Author[event[n].post] \in Users
                                   /\ event[n].vis \in Visibilities
      /\ event[n].type \in {"created", "changed", "deleted"} => event[n] \in PostEvent
      /\ event[n].type = "follow" => event[n].actor \in Users
  BY EventFields, AuthorAssumption DEF WellFormed
<1>7. \A u \in Users : \A R \in Recipients(u) :
        R \in SUBSET Users /\ {u} \cup Certain(u) \subseteq R
  BY CertainFound
<1>8. ASSUME NEW p \in Posts, Creates(n, p)
      PROVE  owed[p] \subseteq
               {Author[p]} \cup (IF event[n].vis = "shared" THEN Certain(Author[p]) ELSE {})
  BY <1>8 DEF Creates, Kept, Owing
<1>9. CASE \E R \in Recipients(Author[event[n].post]) :
             /\ event[n].type \in {"created", "changed"} /\ clock' = clock
             /\ event[n].vis = "shared" /\ job' = [job EXCEPT ![n] = FanJob("add", R)]
  <2>1. PICK R \in Recipients(Author[event[n].post]) :
               job' = [job EXCEPT ![n] = FanJob("add", R)]
    BY <1>9
  <2>2. /\ {Author[event[n].post]} \cup Certain(Author[event[n].post]) \subseteq R
        /\ R \in SUBSET Users
    BY <1>6, <1>7, <1>9
  <2>3. \A p \in Posts : Creates(n, p) => owed[p] \subseteq R
    BY <1>8, <1>9, <2>2 DEF Creates
  <2>4. QED
    BY <1>3, <1>9, <2>1, <2>2, <2>3
<1>10. CASE /\ event[n].type = "created" /\ event[n].vis = "private" /\ clock' = clock
            /\ job' = [job EXCEPT ![n] = FanJob("add", {Author[event[n].post]})]
  <2>1. {Author[event[n].post]} \in SUBSET Users
    BY <1>6, <1>10
  <2>2. \A p \in Posts : Creates(n, p) => owed[p] \subseteq {Author[event[n].post]}
    BY <1>8, <1>10 DEF Creates
  <2>3. QED
    BY <1>3, <1>10, <2>1, <2>2
<1>11. CASE \E R \in Recipients(Author[event[n].post]) :
              /\ event[n].type \in {"deleted", "changed"} /\ clock' = clock
              /\ job' = [job EXCEPT ![n] = FanJob("remove", R)]
  <2>1. PICK R \in Recipients(Author[event[n].post]) :
               job' = [job EXCEPT ![n] = FanJob("remove", R)]
    BY <1>11
  <2>2. event[n].type # "created" /\ clock' = clock /\ R \in SUBSET Users
    BY <1>6, <1>7, <1>11
  <2>3. QED
    BY <1>4, <2>1, <2>2
<1>12. CASE \E t \in Now : /\ event[n].type = "follow" /\ clock' = t
                           /\ job' = [job EXCEPT ![n] = RebuildJob(event[n].actor, t)]
  BY <1>5, <1>6, <1>12
<1>13. QED
  BY <1>9, <1>10, <1>11, <1>12 DEF StartHandler

(* AddPost writes entry and marker at once, the marker with a time after   *)
(* the post was written.                                                   *)
LEMMA AddKept ==
  ASSUME Room, WellFormed, Kept, NEW n \in EventIds, AddPost(n)
  PROVE  Kept'
<1>1. /\ n \in JobIds /\ job[n].pc = "add" /\ job[n].at # NoUser
      /\ UNCHANGED <<dbVars, event, owed, delivered, clock>>
  BY DEF AddPost, JobIds, outboxVars
<1>2. /\ job[n] \in Job /\ job[n].at \in Users
      /\ event[n].post \in Posts /\ job[n].stamp \in Nat
      /\ birth[event[n].post] <= job[n].stamp
  BY <1>1, JobHolds DEF Fanning, Kept, StampsLate
<1>3. PICK u \in Users, p \in Posts : u = job[n].at /\ p = event[n].post
  BY <1>2
<1> DEFINE x == [job[n] EXCEPT !.at = NoUser, !.todo = job[n].todo \ {u}]
<1>4. /\ x \in Job /\ x.pc = "add" /\ x.at = NoUser /\ x.todo = job[n].todo \ {u}
      /\ x.bad = job[n].bad /\ ~Rebuilding(x)
  BY <1>1, <1>2 DEF Job, Rebuilding
<1>5. job' = [job EXCEPT ![n] = x]
  BY <1>3 DEF AddPost
<1>6. /\ timeline[u] \cup {p} \in SUBSET Posts
      /\ [written[u] EXCEPT ![p] = job[n].stamp] \in [Posts -> Nat]
  BY <1>2 DEF WellFormed, TypeOK
<1>7. /\ timeline' = [timeline EXCEPT ![u] = timeline[u] \cup {p}]
      /\ written' = [written EXCEPT ![u] = [written[u] EXCEPT ![p] = job[n].stamp]]
  BY <1>3, <1>6, NothingTrimmed, NoMarkerTrimmed DEF AddPost
<1>8. Fanned(u, p)'
  BY <1>3, <1>1, <1>2, <1>7 DEF Fanned, dbVars, WellFormed, TypeOK
<1>9. \A q \in Posts : \A v \in owed[q] : Fanned(v, q) => Fanned(v, q)'
  <2> SUFFICES ASSUME NEW q \in Posts, NEW v \in owed[q], Fanned(v, q) PROVE Fanned(v, q)'
    OBVIOUS
  <2>1. v \in Users
    BY DEF WellFormed, TypeOK
  <2>2. CASE v = u /\ q = p
    BY <1>8, <2>2
  <2>3. CASE ~(v = u /\ q = p)
    BY <1>1, <1>2, <1>7, <2>1, <2>3 DEF Fanned, dbVars, WellFormed, TypeOK
  <2>4. QED
    BY <2>2, <2>3
<1> HIDE DEF x
<1>10. \A q \in Posts : Creates(n, q) =>
        \A v \in owed[q] :
          (n \in delivered' \/ (x.pc = "add" /\ v \notin x.todo /\ ~x.bad))
            => Reached(n, v) \/ Fanned(v, q)'
  BY <1>3, <1>1, <1>4, <1>8 DEF Reached, Creates
<1>11. clock' \in Nat /\ clock <= clock'
  BY <1>1 DEF WellFormed, TypeOK
<1>12. QED
  BY <1>1, <1>4, <1>5, <1>9, <1>10, <1>11, JobKept

(* The other steps of a fan-out.                                           *)
LEMMA StampKept ==
  ASSUME WellFormed, Kept, NEW n \in EventIds, NEW u \in Users, Stamp(n, u)
  PROVE  Kept'
<1> DEFINE x == [job[n] EXCEPT !.at = u, !.stamp = clock]
<1>1. /\ n \in JobIds /\ job[n].pc = "add" /\ job[n] \in Job
      /\ UNCHANGED <<dbVars, event, owed, delivered, clock, timeline, written>>
      /\ clock' \in Nat /\ clock <= clock'
  BY DEF Stamp, JobIds, outboxVars, redisVars, WellFormed, TypeOK
<1>2. /\ x \in Job /\ x.pc = "add" /\ x.stamp = clock /\ x.todo = job[n].todo
      /\ x.bad = job[n].bad /\ ~Rebuilding(x)
  BY <1>1 DEF Job, Rebuilding, WellFormed, TypeOK
<1>3. job' = [job EXCEPT ![n] = x]
  BY DEF Stamp
<1> HIDE DEF x
<1>4. birth[event[n].post] <= x.stamp
  <2>1. event[n] \in PostEvent /\ event[n].post \in Posts
    BY <1>1, JobHolds DEF Fanning
  <2>2. QED
    BY <1>2, <2>1 DEF Kept, Born, WellFormed, EventsFit
<1>5. \A q \in Posts : \A v \in owed[q] : Fanned(v, q) => Fanned(v, q)'
  BY <1>1 DEF Fanned, dbVars
<1>6. \A q \in Posts : Creates(n, q) =>
        \A v \in owed[q] :
          (n \in delivered' \/ (x.pc = "add" /\ v \notin x.todo /\ ~x.bad)) => Reached(n, v)
  BY <1>1, <1>2 DEF Reached
<1>7. QED
  BY <1>1, <1>2, <1>3, <1>4, <1>5, <1>6, JobKept

(* A write that fails is remembered, and the event is not delivered.       *)
LEMMA FailsKept ==
  ASSUME WellFormed, Kept, NEW n \in EventIds, NEW u \in Users, WriteFails(n, u)
  PROVE  Kept'
<1> DEFINE x == [job[n] EXCEPT !.at = NoUser, !.todo = job[n].todo \ {u}, !.bad = TRUE]
<1>1. /\ n \in JobIds /\ Fanning(job[n]) /\ job[n] \in Job
      /\ UNCHANGED <<dbVars, event, owed, delivered, clock, timeline, written>>
      /\ clock' \in Nat /\ clock <= clock'
  BY DEF WriteFails, Fanning, JobIds, outboxVars, redisVars, WellFormed, TypeOK
<1>2. x \in Job /\ x.pc = job[n].pc /\ x.at = NoUser /\ x.bad /\ ~Rebuilding(x)
  BY <1>1 DEF Job, Fanning, Rebuilding
<1>3. job' = [job EXCEPT ![n] = x]
  BY DEF WriteFails
<1> HIDE DEF x
<1>4. \A q \in Posts : \A v \in owed[q] : Fanned(v, q) => Fanned(v, q)'
  BY <1>1 DEF Fanned, dbVars
<1>5. x.pc = "remove" => event[n].type # "created"
  BY <1>2 DEF Kept, RemovesOthers
<1>6. \A q \in Posts : Creates(n, q) =>
        \A v \in owed[q] :
          (n \in delivered' \/ (x.pc = "add" /\ v \notin x.todo /\ ~x.bad)) => Reached(n, v)
  BY <1>1, <1>2 DEF Reached
<1>7. QED
  BY <1>1, <1>2, <1>3, <1>4, <1>5, <1>6, JobKept

(* What is removed was changed or deleted, and so is owed to nobody.       *)
LEMMA RemoveKept ==
  ASSUME WellFormed, Kept, NEW n \in EventIds, NEW u \in Users,
         RemoveEntry(n, u) \/ RemoveMarker(n)
  PROVE  Kept'
<1>1. /\ n \in JobIds /\ job[n].pc = "remove" /\ job[n] \in Job
      /\ UNCHANGED <<dbVars, event, owed, delivered>> /\ clock' = clock
      /\ clock' \in Nat /\ clock <= clock'
  BY DEF RemoveEntry, RemoveMarker, JobIds, outboxVars, WellFormed, TypeOK
<1>2. PICK x : job' = [job EXCEPT ![n] = x] /\ x \in Job /\ x.pc = "remove"
  <2>1. CASE RemoveEntry(n, u)
    <3>1. [job[n] EXCEPT !.at = u] \in Job /\ [job[n] EXCEPT !.at = u].pc = "remove"
      BY <1>1 DEF Job
    <3>2. QED
      BY <2>1, <3>1 DEF RemoveEntry
  <2>2. CASE RemoveMarker(n)
    <3> DEFINE y == [[job[n] EXCEPT !.at = NoUser] EXCEPT !.todo = job[n].todo \ {job[n].at}]
    <3>1. y \in Job /\ y.pc = "remove"
      BY <1>1 DEF Job
    <3>2. job' = [job EXCEPT ![n] = y]
      BY <2>2, <1>1 DEF RemoveMarker, WellFormed, TypeOK
    <3>3. QED
      BY <3>1, <3>2
  <2>3. QED
    BY <2>1, <2>2
<1>3. event[n] \in PostEvent /\ event[n].post \in Posts /\ event[n].type # "created"
  BY <1>1, JobHolds DEF Fanning, Kept, RemovesOthers
<1>4. owed[event[n].post] = {}
  BY <1>3 DEF Kept, Owing
<1>5. ASSUME NEW q \in Posts, q # event[n].post, NEW v \in Users
      PROVE  (q \in timeline[v] => q \in timeline'[v]) /\ written'[v][q] = written[v][q]
  <2>1. CASE RemoveEntry(n, u)
    <3>1. /\ written' = written
          /\ timeline' = [timeline EXCEPT ![u] = timeline[u] \ {event[n].post}]
      BY <2>1 DEF RemoveEntry
    <3>2. QED
      BY <1>5, <3>1 DEF WellFormed, TypeOK
  <2>2. CASE RemoveMarker(n)
    <3>1. /\ timeline' = timeline
          /\ written' = [written EXCEPT ![job[n].at] =
                           [written[job[n].at] EXCEPT ![event[n].post] = 0]]
      BY <2>2 DEF RemoveMarker
    <3>2. QED
      BY <1>5, <3>1 DEF WellFormed, TypeOK
  <2>3. QED
    BY <2>1, <2>2
<1>6. \A q \in Posts : \A v \in owed[q] : Fanned(v, q) => Fanned(v, q)'
  <2> SUFFICES ASSUME NEW q \in Posts, NEW v \in owed[q], Fanned(v, q) PROVE Fanned(v, q)'
    OBVIOUS
  <2>1. q # event[n].post /\ v \in Users
    BY <1>4 DEF WellFormed, TypeOK
  <2>2. q \in timeline'[v] /\ written'[v][q] = written[v][q]
    BY <1>5, <2>1 DEF Fanned
  <2>3. QED
    BY <1>1, <2>2 DEF Fanned, dbVars
<1>7. QED
  BY <1>1, <1>2, <1>3, <1>6, OtherJobKept DEF Rebuilding

(* The author keeps the post: nobody is owed it any more.                  *)
LEMMA AuthorKept ==
  ASSUME WellFormed, Kept, NEW n \in EventIds, KeepForAuthor(n)
  PROVE  Kept'
<1> DEFINE x == FanJob("add", {Author[event[n].post]})
<1>1. /\ n \in JobIds /\ event[n].type = "changed" /\ job[n].pc = "remove"
      /\ UNCHANGED <<dbVars, event, owed, delivered, timeline, written>>
      /\ clock' \in Nat /\ clock <= clock'
  BY DEF KeepForAuthor, JobIds, outboxVars, redisVars, WellFormed, TypeOK
<1>2. Author[event[n].post] \in Users
  BY <1>1, JobHolds, AuthorAssumption DEF Fanning
<1>3. x \in Job /\ x.pc = "add" /\ x.at = NoUser
  BY <1>2 DEF FanJob, Idle, Job, Pcs
<1>4. job' = [job EXCEPT ![n] = x]
  BY DEF KeepForAuthor
<1> HIDE DEF x
<1>5. \A q \in Posts : \A v \in owed[q] : Fanned(v, q) => Fanned(v, q)'
  BY <1>1 DEF Fanned, dbVars
<1>6. \A q \in Posts : ~Creates(n, q)
  BY <1>1 DEF Creates
<1>7. QED
  BY <1>1, <1>3, <1>4, <1>5, <1>6, JobKept DEF Rebuilding

(* A job ends.  Only a fan-out with nothing left to do, and nothing gone   *)
(* wrong, makes a created event count as handled.                          *)
LEMMA EndKept ==
  ASSUME WellFormed, Kept, NEW j \in JobIds, job' = [job EXCEPT ![j] = Idle],
         UNCHANGED <<dbVars, event, owed, clock>>,
         delivered' \subseteq delivered \cup {j},
         \A p \in Posts : \A u \in owed[p] : Fanned(u, p) => Fanned(u, p)',
         \/ j \notin delivered' \/ j \in delivered
         \/ event[j].type # "created"
         \/ job[j].pc = "add" /\ job[j].todo = {} /\ ~job[j].bad
  PROVE  Kept'
<1>1. Idle \in Job /\ Idle.pc = "idle"
  BY IdleFits
<1>2. clock' \in Nat /\ clock <= clock'
  BY DEF WellFormed, TypeOK
<1>3. \A p \in Posts : Creates(j, p) =>
        \A u \in owed[p] : j \in delivered' => Reached(j, u)
  BY DEF Reached, Creates
<1>4. QED
  BY <1>1, <1>2, <1>3, JobKept DEF Rebuilding

(* A handler that succeeds.                                                *)
LEMMA OkKept ==
  ASSUME WellFormed, Kept, NEW n \in EventIds, HandlerOk(n)
  PROVE  Kept'
<1>1. /\ n \in JobIds /\ job' = [job EXCEPT ![n] = Idle]
      /\ delivered' \subseteq delivered \cup {n}
  BY DEF HandlerOk, JobIds, Outbox!Deliver
<1>2. /\ UNCHANGED <<dbVars, event, owed, clock>>
      /\ \A p \in Posts : \A u \in owed[p] : Fanned(u, p) => Fanned(u, p)'
  BY DEF HandlerOk, Fanned, dbVars, redisVars
<1>3. event[n].type # "created" \/ (job[n].pc = "add" /\ job[n].todo = {} /\ ~job[n].bad)
  BY DEF HandlerOk
<1>4. QED
  BY <1>1, <1>2, <1>3, EndKept

(* A handler or a rebuild that ends early.                                 *)
LEMMA AbortKept ==
  ASSUME WellFormed, Kept, NEW j \in JobIds, Abort(j) \/ HandlerError(j)
  PROVE  Kept'
<1>1. /\ job' = [job EXCEPT ![j] = Idle] /\ delivered' = delivered
      /\ UNCHANGED <<dbVars, event, owed, clock>>
      /\ \A p \in Posts : \A u \in owed[p] : Fanned(u, p) => Fanned(u, p)'
  BY DEF Abort, HandlerError, outboxVars, redisVars, Fanned, dbVars
<1>2. QED
  BY <1>1, EndKept

(* The replace script spares what the rebuild did not read if its marker   *)
(* is not older than the rebuild.                                          *)
LEMMA ReplaceKept ==
  ASSUME Room, WellFormed, Kept, NEW j \in JobIds, Replace(j)
  PROVE  Kept'
<1>1. /\ job[j].pc = "replace" /\ job' = [job EXCEPT ![j] = Idle]
      /\ UNCHANGED <<dbVars, event, owed, clock, written>>
  BY DEF Replace
<1>2. /\ job[j].who \in Users /\ job[j].snap \subseteq Posts /\ job[j].t0 \in Nat
      /\ j \in EventIds => event[j].type = "follow"
  BY <1>1, JobHolds DEF Rebuilding
<1>3. delivered' = delivered \/ (j \in EventIds /\ delivered' = delivered \cup {j})
  BY DEF Replace, Outbox!Deliver
<1>4. PICK who \in Users : who = job[j].who
  BY <1>2
<1>5. Survivors(who, job[j].snap, job[j].t0) \in SUBSET Posts
  BY <1>2 DEF Survivors, WellFormed, TypeOK
<1>6. timeline' = [timeline EXCEPT ![who] = Survivors(who, job[j].snap, job[j].t0)]
  BY <1>4, <1>5, NothingTrimmed DEF Replace
<1>7. \A p \in Posts : \A u \in owed[p] : Fanned(u, p) => Fanned(u, p)'
  <2> SUFFICES ASSUME NEW p \in Posts, NEW u \in owed[p], Fanned(u, p) PROVE Fanned(u, p)'
    OBVIOUS
  <2>1. u \in Users
    BY DEF WellFormed, TypeOK
  <2>2. written'[u][p] = written[u][p] /\ birth'[p] = birth[p]
    BY <1>1 DEF dbVars
  <2>3. CASE u # who
    BY <1>4, <1>6, <2>1, <2>2, <2>3 DEF Fanned, WellFormed, TypeOK
  <2>4. CASE u = who
    <3>1. p \in job[j].snap \/ job[j].t0 <= birth[p]
      BY <1>1, <1>4, <2>4 DEF Kept, RebuildsFind, Finds, Rebuilding
    <3>2. 1 <= birth[p] /\ birth[p] \in Nat /\ written[u][p] \in Nat
      BY <2>1 DEF Kept, Owing, Born, Visibilities, WellFormed, TypeOK
    <3>3. p \in timeline[u] /\ birth[p] <= written[u][p]
      BY DEF Fanned
    <3>4. p \in Survivors(who, job[j].snap, job[j].t0)
      BY <1>2, <2>4, <3>1, <3>2, <3>3 DEF Survivors
    <3>5. QED
      BY <1>6, <2>1, <2>2, <2>4, <3>3, <3>4 DEF Fanned, WellFormed, TypeOK
  <2>5. QED
    BY <2>3, <2>4
<1>8. QED
  BY <1>1, <1>2, <1>3, <1>7, EndKept

(* A rebuild that reads the graph while the post is owed finds its author  *)
(* there, and the post when it reads the posts.                            *)
LEMMA ReadFollowingKept ==
  ASSUME WellFormed, Kept, NEW j \in JobIds, ReadFollowing(j)
  PROVE  Kept'
<1> PICK A \in Authors(job[j].who) :
           job' = [job EXCEPT ![j].pc = "load", ![j].authors = A]
  BY DEF ReadFollowing
<1> DEFINE x == [job[j] EXCEPT !.pc = "load", !.authors = A]
<1>1. /\ UNCHANGED <<dbVars, event, owed, delivered, timeline, written>> /\ clock' = clock
      /\ clock' \in Nat /\ clock <= clock'
  BY DEF ReadFollowing, outboxVars, redisVars, WellFormed, TypeOK
<1>2. job[j] \in Job /\ job[j].who \in Users
  BY JobHolds DEF ReadFollowing, Rebuilding
<1>3. /\ A \subseteq Users /\ job[j].who \in A
      /\ \A v \in Users : job[j].who \in Certain(v) => v \in A
  BY <1>2, CertainFound
<1>4. /\ x \in Job /\ x.pc = "load" /\ x.who = job[j].who /\ x.authors = A
      /\ job' = [job EXCEPT ![j] = x]
  BY <1>2, <1>3 DEF Job, Pcs
<1> HIDE DEF x
<1>5. ASSUME NEW p \in Posts, x.who \in owed[p] PROVE Finds(x, p)
  <2>1. Author[p] \in Users /\ (x.who = Author[p] \/ x.who \in Certain(Author[p]))
    BY <1>5, AuthorAssumption DEF Kept, Owing
  <2>2. Author[p] \in x.authors
    BY <1>3, <1>4, <2>1
  <2>3. QED
    BY <1>4, <2>2 DEF Finds
<1>6. \A q \in Posts : \A v \in owed[q] : Fanned(v, q) => Fanned(v, q)'
  BY <1>1 DEF Fanned, dbVars
<1>7. QED
  BY <1>1, <1>4, <1>5, <1>6, OtherJobKept

(* What a rebuild loads contains the posts owed by those authors.          *)
LEMMA LoadKept ==
  ASSUME Room, WellFormed, Kept, NEW j \in JobIds, LoadPosts(j)
  PROVE  Kept'
<1>1. /\ UNCHANGED <<dbVars, event, owed, delivered, timeline, written>> /\ clock' = clock
      /\ clock' \in Nat /\ clock <= clock'
  BY DEF LoadPosts, outboxVars, redisVars, WellFormed, TypeOK
<1>2. PICK S \in Trimmed(Readable(job[j].authors, job[j].who), MaxItems) :
             job' = [job EXCEPT ![j].pc = "replace", ![j].authors = {}, ![j].snap = S]
  BY DEF LoadPosts
<1>3. S = Readable(job[j].authors, job[j].who) /\ S \subseteq Posts
  BY <1>2, NothingTrimmed DEF Readable
<1> DEFINE x == [job[j] EXCEPT !.pc = "replace", !.authors = {}, !.snap = S]
<1>4. job[j] \in Job /\ job[j].pc = "load"
  BY JobHolds DEF LoadPosts
<1>5. /\ x \in Job /\ x.pc = "replace" /\ x.who = job[j].who /\ x.snap = S /\ x.t0 = job[j].t0
  BY <1>3, <1>4 DEF Job, Pcs
<1>6. job' = [job EXCEPT ![j] = x]
  BY <1>2
<1> HIDE DEF x
<1>7. ASSUME NEW p \in Posts, x.who \in owed[p] PROVE Finds(x, p)
  <2>1. Finds(job[j], p)
    BY <1>4, <1>5, <1>7 DEF Kept, RebuildsFind, Rebuilding
  <2>2. CASE job[j].t0 <= birth[p]
    BY <1>5, <2>2 DEF Finds
  <2>3. CASE Author[p] \in job[j].authors
    <3>1. post[p] = "shared" \/ (post[p] = "private" /\ Author[p] = job[j].who)
      BY <1>5, <1>7 DEF Kept, Owing, Visibilities
    <3>2. p \in S
      BY <1>3, <2>3, <3>1 DEF Readable
    <3>3. QED
      BY <1>5, <3>2 DEF Finds
  <2>4. QED
    BY <1>4, <2>1, <2>2, <2>3 DEF Finds
<1>8. \A q \in Posts : \A v \in owed[q] : Fanned(v, q) => Fanned(v, q)'
  BY <1>1 DEF Fanned, dbVars
<1>9. QED
  BY <1>1, <1>5, <1>6, <1>7, <1>8, OtherJobKept

(* A reader starts a rebuild of his own.                                   *)
LEMMA LazyKept ==
  ASSUME WellFormed, Kept, NEW u \in Users, LazyRefresh(u)
  PROVE  Kept'
<1>1. PICK t \in Now : clock' = t /\ job' = [job EXCEPT ![u] = RebuildJob(u, t)]
  BY DEF LazyRefresh
<1> DEFINE x == RebuildJob(u, t)
<1>2. t \in Nat /\ clock <= t /\ u \in JobIds
  BY NowLater DEF WellFormed, JobIds
<1>3. x \in Job /\ x.pc = "follow"
  BY <1>2 DEF RebuildJob, Idle, Job, Pcs
<1>4. /\ job' = [job EXCEPT ![u] = x] /\ \A p \in Posts : Finds(x, p)
      /\ UNCHANGED <<dbVars, event, owed, delivered, timeline, written>>
  BY <1>1, <1>3 DEF LazyRefresh, outboxVars, redisVars, Finds
<1> HIDE DEF x
<1>5. \A q \in Posts : \A v \in owed[q] : Fanned(v, q) => Fanned(v, q)'
  BY <1>4 DEF Fanned, dbVars
<1>6. QED
  BY <1>1, <1>2, <1>3, <1>4, <1>5, OtherJobKept

(* An expired timeline is owed nothing any more, and a settled event needs *)
(* no more handling.                                                       *)
LEMMA RestKept ==
  ASSUME WellFormed, Kept, UNCHANGED <<dbVars, event, job, clock, delivered>>,
         \A p \in Posts : owed'[p] \subseteq owed[p],
         \A p \in Posts : \A u \in owed'[p] : Fanned(u, p) => Fanned(u, p)'
  PROVE  Kept'
<1>1. Born' /\ StampsLate' /\ RemovesOthers'
  BY DEF Kept, Born, StampsLate, RemovesOthers, dbVars
<1>2. RebuildsFind'
  BY DEF Kept, RebuildsFind, Finds, Rebuilding, dbVars
<1>3. ASSUME NEW p \in Posts PROVE Owing(p)'
  <2>1. Owing(p) /\ owed'[p] \subseteq owed[p] /\ (owed'[p] # {} => owed[p] # {})
    BY DEF Kept
  <2>2. post' = post /\ event' = event /\ \A u : Certain(u)' = Certain(u)
    BY SameCertain DEF dbVars
  <2>3. QED
    BY <2>1, <2>2 DEF Owing
<1>4. Arrived'
  BY DEF Kept, Arrived, Creates, Reached
<1>5. QED
  BY <1>1, <1>2, <1>3, <1>4 DEF Kept

(* Kept is inductive, given room and WellFormed.                           *)
LEMMA NextKept == Room /\ WellFormed /\ Kept /\ [Next]_vars => Kept'
<1> SUFFICES ASSUME Room, WellFormed, Kept, [Next]_vars PROVE Kept'
  OBVIOUS
<1>1. CASE UNCHANGED vars
  BY <1>1, RestKept DEF vars, dbVars, outboxVars, redisVars, Fanned
<1>2. ASSUME NEW u \in Users, Expire(u) PROVE Kept'
  <2>1. \A p \in Posts : owed'[p] = owed[p] \ {u} /\ owed[p] \subseteq Users
    BY <1>2 DEF Expire, WellFormed, TypeOK
  <2>2. \A v \in Users : v # u => timeline'[v] = timeline[v] /\ written'[v] = written[v]
    BY <1>2 DEF Expire, WellFormed, TypeOK
  <2>3. UNCHANGED <<dbVars, event, job, clock, delivered>>
    BY <1>2 DEF Expire, outboxVars
  <2>4. \A p \in Posts : \A v \in owed'[p] : Fanned(v, p) => Fanned(v, p)'
    BY <2>1, <2>2, <2>3 DEF Fanned, dbVars
  <2>5. QED
    BY <2>1, <2>3, <2>4, RestKept
<1>3. ASSUME NEW n \in EventIds, Complete(n) \/ DeadLetter(n) PROVE Kept'
  <2>1. UNCHANGED <<dbVars, event, job, clock, delivered, owed, timeline, written>>
    BY <1>3 DEF Complete, DeadLetter, Outbox!Finish, Outbox!Park, redisVars
  <2>2. \A p \in Posts : \A v \in owed'[p] : Fanned(v, p) => Fanned(v, p)'
    BY <2>1 DEF Fanned, dbVars
  <2>3. QED
    BY <2>1, <2>2, RestKept
<1>4. CASE Acts
  <2>1. ASSUME NEW n \in EventIds, RemoveMarker(n) PROVE Kept'
    <3>1. job[n].at \in Users
      BY <2>1, JobHolds DEF RemoveMarker, JobIds
    <3>2. QED
      BY <2>1, <3>1, RemoveKept
  <2>2. ASSUME NEW p \in Posts, DeletePost(p) PROVE Kept'
    <3>1. "shared" \in Visibilities
      BY DEF Visibilities
    <3>2. QED
      BY <2>2, <3>1, ChangeKept
  <2>3. QED
    BY <1>2, <1>3, <1>4, <2>1, <2>2, CreateKept, ChangeKept, FollowKept, StartKept, StampKept,
       AddKept, RemoveKept, FailsKept, AuthorKept, OkKept, AbortKept, ReplaceKept,
       ReadFollowingKept, LoadKept, LazyKept DEF Acts
<1>5. QED
  BY <1>1, <1>4, NextActs

(* NoFanoutLost holds of every behaviour whose timelines have room for     *)
(* every post, for any number of users, posts, handlers, rebuilds,         *)
(* retries, crashes and expiries, and for any caps: the markers and the    *)
(* cutoff of ReplacePosts keep every handled fan-out for the author and    *)
(* for the followers that neither cap can leave out.                       *)
THEOREM FanoutsSurvive ==
  ASSUME Cardinality(Posts) <= MaxItems
  PROVE  Spec => []NoFanoutLost
<1>1. Room
  BY DEF Room
<1>2. Spec => []WellFormed
  BY InitWellFormed, NextWellFormed, PTL DEF Spec
<1>3. WellFormed /\ Kept /\ [Next]_vars => Kept'
  BY <1>1, NextKept
<1>4. Spec => []Kept
  BY <1>2, <1>3, InitKept, PTL DEF Spec
<1>5. WellFormed /\ Kept => NoFanoutLost
  <2> SUFFICES ASSUME WellFormed, Kept, NEW n \in delivered, event[n].type = "created",
                      NEW u \in owed[event[n].post]
               PROVE  event[n].post \in timeline[u]
    BY DEF NoFanoutLost
  <2>1. n \in EventIds /\ event[n] \in PostEvent /\ event[n].post \in Posts
    BY EventFields DEF WellFormed, TypeOK
  <2>2. Creates(n, event[n].post) /\ Reached(n, u)
    BY <2>1 DEF Creates, Reached
  <2>3. QED
    BY <2>1, <2>2 DEF Kept, Arrived, Fanned
<1>6. QED
  BY <1>2, <1>4, <1>5, PTL

-----------------------------------------------------------------------------
(* The part "fanout" of the run goes as FeedTimeline says.                 *)
LEMMA FanoutApart == part = "fanout" /\ MCSpec => Spec /\ [](part = "fanout")
<1>1. part = "fanout" /\ MCInit => Init
  BY DEF MCInit
<1>2. /\ part = "fanout"
      /\ [MCNext]_<<part, vars, listVars, reindexVars, codohueVars, faults>>
      => [Next]_vars /\ (part = "fanout")'
  BY DEF MCNext
<1>3. QED
  BY <1>1, <1>2, PTL DEF MCSpec, Spec

(* No other part has a fan-out to keep.                                    *)
LEMMA OtherParts == ~(part = "fanout") /\ MCSpec => [](~(part = "fanout"))
<1>1. /\ ~(part = "fanout")
      /\ [MCNext]_<<part, vars, listVars, reindexVars, codohueVars, faults>>
      => (~(part = "fanout"))'
  BY DEF MCNext
<1>2. QED
  BY <1>1, PTL DEF MCSpec

(* FanoutsKept holds of every behaviour of the run, at any size whose      *)
(* timelines have room for every post.                                     *)
THEOREM FanoutsKeptThere ==
  ASSUME Cardinality(Posts) <= MaxItems
  PROVE  MCSpec => []FanoutsKept
<1>1. Spec => []NoFanoutLost
  BY FanoutsSurvive
<1>2. NoFanoutLost \/ ~(part = "fanout") => FanoutsKept
  BY DEF FanoutsKept
<1>3. QED
  BY <1>1, <1>2, FanoutApart, OtherParts, PTL

-----------------------------------------------------------------------------
(* The catalog's repair (Reindexing), beside authors and a server's own    *)
(* calls.  What the command holds has its type.                            *)
Items == [text : Nat, tags : Nat]
WalkTyped ==
  /\ posts \in [Rows -> [state : {"none", "public", "hidden", "deleted"}, item : Items]]
  /\ catalog \in [Rows -> Items]
  /\ calls \subseteq [post : Rows, item : Items]
  /\ run \in [pc : {"ready", "read", "tag", "send", "done", "stopped", "error"},
              limit : Nat, since : Nat, dry : BOOLEAN, cursor : Nat,
              page : SUBSET Rows, text : [Rows -> Items]]
  /\ sent \subseteq Rows /\ failed \subseteq Rows
  /\ moved \subseteq Rows /\ blurred \subseteq Rows
  /\ edits \in Nat

OnPage == run.pc \in {"tag", "send"}
Tried == sent \cup failed

\* Where the walk is: a post is sent once, and the page is below the cursor.
WalkAt ==
  /\ run.pc = "ready" => Tried = {} /\ run.cursor = Reindex!Top
  /\ run.pc = "read" => \A p \in Tried : p >= run.cursor
  /\ OnPage => /\ run.page # {} /\ \A p \in Tried \ run.page : p >= run.cursor
               /\ \A p \in run.page : p < run.cursor
  /\ run.pc = "done" => failed = {}
  /\ run.pc = "stopped" => Cardinality(sent) = run.limit

\* What the walk has come past and may send was tried.
Behind(p) ==
  \/ run.pc = "read" /\ p >= run.cursor
  \/ OnPage /\ p \notin run.page /\ \E q \in run.page : p > q
  \/ run.pc = "done"
NoneSkipped ==
  \A p \in Rows \ moved : /\ run.pc # "ready" => posts[p].state = "public"
                          /\ (Behind(p) /\ p >= run.since) => p \in Tried

\* What Codohue should hold of a post; what is on its way there is that.
Due(p) == IF posts[p].state = "deleted" THEN Reindex!NoItem ELSE posts[p].item
CallsDue == \A c \in calls : c.post \notin blurred => c.item = Due(c.post)
PageDue ==
  OnPage => \A p \in run.page \ (Tried \cup blurred) :
    /\ posts[p].state = "public"
    /\ run.text[p].text = posts[p].item.text
    /\ run.pc = "send" => run.text[p].tags = posts[p].item.tags
CatalogDue ==
  \A p \in Rows \ blurred :
    (Reindex!Settled(p) /\ ((p \in sent /\ ~run.dry) \/ posts[p].state = "deleted"))
      => catalog[p] = Due(p)

ReindexInv ==
  WalkTyped /\ WalkAt /\ NoneSkipped /\ CallsDue /\ PageDue /\ CatalogDue

-----------------------------------------------------------------------------
(* Reindexing has its own copy of FiniteSets.                              *)
LEMMA SameCardinality == \A S : Reindex!Cardinality(S) = Cardinality(S)
BY Zenon DEF Cardinality, Reindex!Cardinality

LEMMA HasLowest ==
  ASSUME NEW S, S \subseteq Nat, S # {}
  PROVE  Reindex!Lowest(S) \in S /\ \A x \in S : Reindex!Lowest(S) <= x
<1>1. PICK a \in S : \A b \in S : ~(<<b, a>> \in OpToRel(<, Nat))
  BY NatLessThanWellFounded, WFMin, Zenon
<1>2. \A b \in S : ~(b < a)
  BY <1>1, Zenon DEF OpToRel
<1>3. \A b \in S : a <= b
  BY <1>2
<1>4. QED
  BY <1>3 DEF Reindex!Lowest

\* The one with the fewest above it has none above it.
LEMMA HasHighest ==
  ASSUME NEW S, S \subseteq Nat, S # {}, IsFiniteSet(S)
  PROVE  Reindex!Highest(S) \in S /\ \A x \in S : Reindex!Highest(S) >= x
<1> DEFINE Above(x) == {y \in S : y > x}
           Counts == {Cardinality(Above(x)) : x \in S}
<1>1. \A x \in S : IsFiniteSet(Above(x)) /\ Cardinality(Above(x)) \in Nat
  BY FS_Subset, FS_CardinalityType
<1>2. Counts \subseteq Nat /\ Counts # {}
  BY <1>1
<1>3. PICK n \in Counts : \A m \in Counts : n <= m
  BY <1>2, HasLowest
<1>4. PICK a \in S : n = Cardinality(Above(a))
  BY <1>3
<1>5. \A b \in S : b <= a
  <2> SUFFICES ASSUME NEW b \in S, b > a PROVE FALSE
    OBVIOUS
  <2>1. Above(b) \subseteq Above(a) /\ b \in Above(a) /\ b \notin Above(b)
    <3>1. b \in Nat /\ ~(b > b)
      OBVIOUS
    <3>2. \A y \in S : y > b => y > a
      OBVIOUS
    <3>3. Above(b) \subseteq Above(a)
      BY <3>2
    <3>4. QED
      BY <3>1, <3>3
  <2>2. Cardinality(Above(b)) <= Cardinality(Above(a)) /\ Cardinality(Above(b)) # Cardinality(Above(a))
    <3> HIDE DEF Above
    <3>1. QED
      BY <1>1, <2>1, FS_Subset
  <2>3. Cardinality(Above(b)) \in Counts
    OBVIOUS
  <2>4. QED
    <3> HIDE DEF Above, Counts
    <3>1. QED
      BY <1>1, <1>3, <1>4, <2>2, <2>3
<1>6. QED
  BY <1>5 DEF Reindex!Highest

LEMMA TopIsAbove ==
  ASSUME IsFiniteSet(Rows), Rows \subseteq Nat
  PROVE  \A p \in Rows : p < Reindex!Top
<1> SUFFICES ASSUME NEW p \in Rows PROVE p < Reindex!Top
  OBVIOUS
<1> DEFINE h == Reindex!Highest(Rows)
<1>1. h \in Rows /\ \A x \in Rows : x <= h
  BY HasHighest
<1> HIDE DEF h
<1>2. \E q \in Rows : \A x \in Rows : x <= q
  BY <1>1
<1> DEFINE q == CHOOSE y \in Rows : \A x \in Rows : x <= y
<1>3. q \in Rows /\ \A x \in Rows : x <= q
  BY <1>2
<1>4. Reindex!Top = 1 + q
  BY DEF Reindex!Top
<1> HIDE DEF q
<1>5. QED
  BY <1>3, <1>4

(* A page has no gap, and is empty only if there is nothing left.          *)
LEMMA PageIsTop ==
  ASSUME IsFiniteSet(Rows), Rows \subseteq Nat, PageSize \in Nat \ {0}, NEW c,
         NEW page, page = Reindex!GetDiscoverWithCursor(c, PageSize)
  PROVE  /\ \A p \in page : p \in Rows /\ posts[p].state = "public" /\ p < c
         /\ \A p \in Rows \ page : (posts[p].state = "public" /\ p < c) =>
              page # {} /\ \A q \in page : p < q
<1> DEFINE below == {p \in Rows : Reindex!Public(p) /\ p < c}
           Above(x) == {y \in below : y > x}
<1>0. \A p \in Rows : p \in below <=> posts[p].state = "public" /\ p < c
  BY DEF Reindex!Public
<1>1. page = {p \in below : Cardinality(Above(p)) < PageSize}
  <2>1. page = {p \in below : Reindex!Cardinality(Above(p)) < PageSize}
    BY DEF Reindex!GetDiscoverWithCursor
  <2>2. \A p : Reindex!Cardinality(Above(p)) = Cardinality(Above(p))
    BY SameCardinality
  <2> HIDE DEF Above, below
  <2>3. QED
    BY <2>1, <2>2
<1>2. below \subseteq Nat /\ IsFiniteSet(below)
  BY FS_Subset
<1>3. \A x : IsFiniteSet(Above(x)) /\ Cardinality(Above(x)) \in Nat
  BY <1>2, FS_Subset, FS_CardinalityType
<1>4. ASSUME NEW p \in below \ page, NEW q \in page PROVE p < q
  <2> SUFFICES ASSUME ~(p < q) PROVE FALSE
    OBVIOUS
  <2>1. p \in Nat /\ q \in below /\ Cardinality(Above(q)) < PageSize
        /\ ~(Cardinality(Above(p)) < PageSize) /\ \A y \in below : y \in Nat
    BY <1>1, <1>2
  <2>0. Above(p) \subseteq Above(q)
    <3>1. \A y \in below : y > p => y > q
      BY <2>1
    <3>2. QED
      BY <3>1
  <2>2. Cardinality(Above(p)) <= Cardinality(Above(q))
    BY <1>3, <2>0, FS_Subset
  <2>3. QED
    <3> HIDE DEF Above
    <3>1. QED
      BY <1>3, <2>1, <2>2
<1>5. ASSUME NEW p \in below PROVE page # {}
  <2> DEFINE h == Reindex!Highest(below)
  <2>1. h \in below /\ \A x \in below : h >= x
    BY <1>2, <1>5, HasHighest
  <2> HIDE DEF h
  <2>2. \A x \in below : ~(x > h)
    BY <1>2, <2>1
  <2>3. Cardinality(Above(h)) = 0
    BY <2>2, FS_EmptySet
  <2>4. QED
    BY <1>1, <2>1, <2>3
<1>6. page \subseteq below /\ below \subseteq Rows
  BY <1>1
<1> HIDE DEF below
<1>7. QED
  BY <1>0, <1>4, <1>5, <1>6

-----------------------------------------------------------------------------
RunTyped ==
  [pc : {"ready", "read", "tag", "send", "done", "stopped", "error"},
   limit : Nat, since : Nat, dry : BOOLEAN, cursor : Nat,
   page : SUBSET Rows, text : [Rows -> Items]]

(* The table, the catalog and the history stay: only the walk goes on.     *)
LEMMA WalkMoves ==
  ASSUME ReindexInv, run' \in RunTyped, WalkAt', NoneSkipped', PageDue',
         run'.dry = run.dry \/ sent = {},
         moved' \subseteq Rows,
         UNCHANGED <<posts, catalog, calls, sent, failed, blurred, edits>>
  PROVE  ReindexInv'
BY DEF ReindexInv, WalkTyped, RunTyped, CallsDue, CatalogDue, Due, Reindex!Settled

(* A run that ends in an error promises less.                              *)
LEMMA ErrorKeeps ==
  ASSUME ReindexInv, run' = [run EXCEPT !.pc = "error"], moved' \subseteq Rows,
         \A p \in Rows \ moved' : posts[p].state = "public",
         UNCHANGED <<posts, catalog, calls, sent, failed, blurred, edits>>
  PROVE  ReindexInv'
<1>1. run \in RunTyped
  BY DEF ReindexInv, WalkTyped, RunTyped
<1>2. run' \in RunTyped /\ run'.pc = "error" /\ run'.dry = run.dry
  BY <1>1 DEF RunTyped
<1>3. WalkAt' /\ PageDue'
  BY <1>2 DEF WalkAt, PageDue, OnPage
<1>4. NoneSkipped'
  BY <1>2 DEF NoneSkipped, Behind, OnPage
<1>5. QED
  BY <1>2, <1>3, <1>4, WalkMoves

LEMMA StartKeeps ==
  ASSUME IsFiniteSet(Rows), Rows \subseteq Nat, ReindexInv, Reindex!Start
  PROVE  ReindexInv'
<1>1. /\ run.pc = "ready" /\ moved' = {p \in Rows : posts[p].state # "public"}
      /\ UNCHANGED <<posts, catalog, calls, sent, failed, blurred, edits>>
      /\ sent = {} /\ failed = {} /\ run \in RunTyped /\ run.cursor = Reindex!Top
  BY DEF Reindex!Start, Reindex!At, Reindex!Public, Reindex!table, Reindex!outcome, ReindexInv, WalkAt,
         Tried, WalkTyped, RunTyped
<1>2. moved' \subseteq Rows /\ \A p \in Rows \ moved' : posts[p].state = "public"
  BY <1>1
<1>3. CASE run' = [run EXCEPT !.pc = "error"]
  BY <1>1, <1>2, <1>3, ErrorKeeps
<1>4. ASSUME NEW l \in {Reindex!NoLimit, 1}, NEW n \in {0} \cup Rows, NEW d \in BOOLEAN,
             run' = [run EXCEPT !.pc = "read", !.limit = l, !.since = n, !.dry = d]
      PROVE  ReindexInv'
  <2>1. /\ run' \in RunTyped /\ run'.pc = "read" /\ run'.cursor = Reindex!Top
    <3>1. l \in Nat /\ n \in Nat
      BY DEF Reindex!NoLimit
    <3>2. QED
      BY <1>1, <1>4, <3>1 DEF RunTyped
  <2>2. WalkAt' /\ PageDue'
    BY <1>1, <2>1 DEF WalkAt, PageDue, OnPage, Tried
  <2>3. \A p \in Rows : p < Reindex!Top /\ ~(p >= Reindex!Top)
    <3>1. Reindex!Top \in Nat
      BY <1>1 DEF RunTyped
    <3>2. QED
      BY <3>1, TopIsAbove
  <2>4. NoneSkipped'
    BY <1>1, <1>2, <2>1, <2>3 DEF NoneSkipped, Behind, OnPage
  <2>5. QED
    BY <1>1, <1>2, <2>1, <2>2, <2>4, WalkMoves
<1>5. QED
  BY <1>3, <1>4 DEF Reindex!Start

(* The walk is below its cursor, so a page has nothing that was tried.     *)
LEMMA ReadKeeps ==
  ASSUME IsFiniteSet(Rows), Rows \subseteq Nat, PageSize \in Nat \ {0}, ReindexInv, Reindex!ReadPage
  PROVE  ReindexInv'
<1> DEFINE page == Reindex!GetDiscoverWithCursor(run.cursor, PageSize)
<1>1. /\ run.pc = "read"
      /\ UNCHANGED <<posts, catalog, calls, sent, failed, blurred, edits, moved>>
      /\ run \in RunTyped /\ run.cursor \in Nat /\ moved \subseteq Rows
  BY DEF Reindex!ReadPage, Reindex!At, Reindex!table, Reindex!outcome, ReindexInv, WalkTyped, RunTyped
<1>2. /\ \A p \in page : p \in Rows /\ posts[p].state = "public" /\ p < run.cursor
      /\ \A p \in Rows \ page : (posts[p].state = "public" /\ p < run.cursor) =>
           page # {} /\ \A q \in page : p < q
  BY PageIsTop
<1> HIDE DEF page
<1>3. /\ \A p \in Tried : p >= run.cursor
      /\ \A p \in Rows \ moved : /\ posts[p].state = "public"
                                 /\ (p >= run.cursor /\ p >= run.since) => p \in Tried
  BY <1>1 DEF ReindexInv, WalkAt, NoneSkipped, Behind
<1>4. \A p \in Rows : p \in Nat /\ (p < run.cursor \/ p >= run.cursor)
  BY <1>1
<1>5. CASE page = {} /\ run' = [run EXCEPT !.pc = IF failed = {} THEN "done" ELSE "error"]
  <2>1. CASE failed = {}
    <3>1. run' \in RunTyped /\ run' = [run EXCEPT !.pc = "done"]
      BY <1>1, <1>5, <2>1 DEF RunTyped
    <3>2. run'.pc = "done" /\ run'.dry = run.dry /\ run'.since = run.since
      BY <1>1, <3>1 DEF RunTyped
    <3>3. WalkAt' /\ PageDue'
      BY <1>1, <2>1, <3>2 DEF WalkAt, PageDue, OnPage
    <3>4. NoneSkipped'
      BY <1>1, <1>2, <1>3, <1>4, <1>5, <3>2 DEF NoneSkipped, Tried
    <3>5. QED
      BY <1>1, <3>1, <3>2, <3>3, <3>4, WalkMoves
  <2>2. CASE failed # {}
    BY <1>1, <1>3, <1>5, <2>2, ErrorKeeps
  <2>3. QED
    BY <2>1, <2>2
<1>6. CASE /\ page # {}
           /\ run' = [run EXCEPT !.pc = "tag", !.page = page,
                !.text = [p \in Rows |-> IF p \in page THEN [posts[p].item EXCEPT !.tags = 0]
                                         ELSE Reindex!NoItem]]
  <2> DEFINE text == [p \in Rows |-> IF p \in page THEN [posts[p].item EXCEPT !.tags = 0]
                                     ELSE Reindex!NoItem]
  <2>1. \A p \in Rows : posts[p].item \in Items
    BY DEF ReindexInv, WalkTyped
  <2>2. text \in [Rows -> Items]
    BY <2>1 DEF Items, Reindex!NoItem
  <2>3. \A p \in page : text[p].text = posts[p].item.text
    BY <1>2, <2>1 DEF Items
  <2> HIDE DEF text
  <2>4. run' = [run EXCEPT !.pc = "tag", !.page = page, !.text = text]
    BY <1>6 DEF text
  <2>5. /\ run' \in RunTyped /\ run'.pc = "tag" /\ run'.page = page /\ run'.text = text
        /\ run'.cursor = run.cursor /\ run'.dry = run.dry /\ run'.since = run.since
    BY <1>1, <1>2, <2>2, <2>4 DEF RunTyped
  <2>6. WalkAt'
    BY <1>1, <1>2, <1>3, <1>6, <2>5 DEF WalkAt, OnPage, Tried
  <2>7. PageDue'
    BY <1>1, <1>2, <2>3, <2>5 DEF PageDue, OnPage
  <2>8. NoneSkipped'
    <3>1. ASSUME NEW p \in Rows \ moved, p \notin page, NEW q \in page, p > q
          PROVE  p >= run.cursor
      <4>1. p \in Nat /\ q \in Nat
        BY <1>2
      <4>2. ~(p < q)
        BY <3>1, <4>1
      <4>3. QED
        BY <1>2, <1>3, <1>4, <3>1, <4>2
    <3>2. QED
      BY <1>1, <1>3, <2>5, <3>1 DEF NoneSkipped, Behind, OnPage, Tried
  <2>9. QED
    BY <1>1, <2>5, <2>6, <2>7, <2>8, WalkMoves
<1>7. CASE run' = [run EXCEPT !.pc = "error"]
  BY <1>1, <1>3, <1>7, ErrorKeeps
<1>8. QED
  BY <1>5, <1>6, <1>7 DEF Reindex!ReadPage, page

LEMMA TagsKeep ==
  ASSUME ReindexInv, Reindex!ReadTags PROVE ReindexInv'
<1>1. /\ run.pc = "tag" /\ run \in RunTyped /\ moved \subseteq Rows
      /\ UNCHANGED <<posts, catalog, calls, sent, failed, blurred, edits, moved>>
      /\ \A p \in Rows \ moved : posts[p].state = "public"
  BY DEF Reindex!ReadTags, Reindex!At, Reindex!table, Reindex!outcome, ReindexInv, WalkTyped, RunTyped,
         NoneSkipped
<1> DEFINE text == [p \in Rows |-> IF p \in run.page
                                   THEN [run.text[p] EXCEPT !.tags = posts[p].item.tags]
                                   ELSE Reindex!NoItem]
<1>2. CASE run' = [run EXCEPT !.pc = "send", !.text = text]
  <2>1. \A p \in Rows : posts[p].item \in Items /\ run.text[p] \in Items
    BY <1>1 DEF ReindexInv, WalkTyped, RunTyped
  <2>2. text \in [Rows -> Items]
    BY <2>1 DEF Items, Reindex!NoItem
  <2>3. /\ run.page \subseteq Rows
        /\ \A p \in run.page : /\ text[p].text = run.text[p].text
                               /\ text[p].tags = posts[p].item.tags
    BY <1>1, <2>1 DEF Items, RunTyped
  <2> HIDE DEF text
  <2>4. /\ run' \in RunTyped /\ run'.pc = "send" /\ run'.page = run.page /\ run'.text = text
        /\ run'.cursor = run.cursor /\ run'.dry = run.dry /\ run'.since = run.since
    BY <1>1, <1>2, <2>2 DEF RunTyped
  <2>5. WalkAt' /\ NoneSkipped'
    BY <1>1, <2>4 DEF ReindexInv, WalkAt, NoneSkipped, Behind, OnPage, Tried
  <2>6. PageDue'
    BY <1>1, <2>3, <2>4 DEF ReindexInv, PageDue, OnPage, Tried
  <2>7. QED
    BY <1>1, <2>4, <2>5, <2>6, WalkMoves
<1>3. CASE run' = [run EXCEPT !.pc = "error"]
  BY <1>1, <1>3, ErrorKeeps
<1>4. text = [p \in Rows |-> IF p \in run.page
                             THEN [run.text[p] EXCEPT !.tags = posts[p].item.tags]
                             ELSE Reindex!NoItem]
  OBVIOUS
<1> HIDE DEF text
<1>5. QED
  BY <1>2, <1>3, <1>4 DEF Reindex!ReadTags

LEMMA GiveUpKeeps ==
  ASSUME ReindexInv, Reindex!GiveUp PROVE ReindexInv'
BY ErrorKeeps DEF Reindex!GiveUp, Reindex!At, Reindex!table, Reindex!outcome, ReindexInv, WalkTyped,
                  NoneSkipped

(* The next page is below all of this one; and if the next post to send is *)
(* too old, so is all that comes after it.                                 *)
LEMMA TurnKeeps ==
  ASSUME IsFiniteSet(Rows), Rows \subseteq Nat, ReindexInv, Reindex!TurnPage
  PROVE  ReindexInv'
<1>1. /\ run.pc = "send" /\ run \in RunTyped /\ moved \subseteq Rows
      /\ UNCHANGED <<posts, catalog, calls, sent, failed, blurred, edits, moved>>
      /\ run.page # {} /\ run.page \subseteq Rows /\ run.cursor \in Nat /\ run.since \in Nat
  BY DEF Reindex!TurnPage, Reindex!At, Reindex!table, Reindex!outcome, ReindexInv, WalkTyped, RunTyped,
         WalkAt, OnPage
<1>2. /\ \A p \in Tried \ run.page : p >= run.cursor
      /\ \A p \in run.page : p < run.cursor
      /\ \A p \in Rows \ moved :
           /\ posts[p].state = "public"
           /\ (p \notin run.page /\ (\E q \in run.page : p > q) /\ p >= run.since) => p \in Tried
  BY <1>1 DEF ReindexInv, WalkAt, OnPage, NoneSkipped, Behind
<1> DEFINE low == Reindex!Lowest(run.page)
<1>3. low \in run.page /\ low \in Nat /\ \A x \in run.page : low <= x /\ x \in Nat
  BY <1>1, HasLowest
<1> HIDE DEF low
<1>4. CASE Reindex!Unsent = {} /\ run' = Reindex!EndPage
  <2>1. run.page \subseteq Tried
    BY <1>4 DEF Reindex!Unsent, Tried
  <2>2. run' = [run EXCEPT !.pc = "read", !.cursor = low, !.page = {}, !.text = Reindex!NoText]
    BY <1>4 DEF Reindex!EndPage, low
  <2>3. Reindex!NoText \in [Rows -> Items]
    BY DEF Reindex!NoText, Reindex!NoItem, Items
  <2>4. /\ run' \in RunTyped /\ run'.pc = "read" /\ run'.cursor = low
        /\ run'.dry = run.dry /\ run'.since = run.since
    BY <1>1, <1>3, <2>2, <2>3 DEF RunTyped
  <2>5. WalkAt'
    <3>1. \A p \in Tried : p >= low
      <4>1. \A p \in Tried : p \in Nat
        BY DEF ReindexInv, WalkTyped, Tried
      <4>2. QED
        BY <1>1, <1>2, <1>3, <4>1
    <3>2. QED
      BY <1>1, <2>4, <3>1 DEF WalkAt, OnPage, Tried
  <2>6. NoneSkipped'
    <3>1. ASSUME NEW p \in Rows \ moved, p >= low, p >= run.since PROVE p \in Tried
      <4>1. CASE p \in run.page
        BY <2>1, <4>1
      <4>2. CASE p \notin run.page
        <5>1. p > low
          <6>1. p # low /\ p \in Nat
            BY <1>3, <4>2
          <6>2. QED
            BY <1>3, <3>1, <6>1
        <5>2. QED
          BY <1>2, <1>3, <3>1, <4>2, <5>1
      <4>3. QED
        BY <4>1, <4>2
    <3>2. QED
      BY <1>1, <1>2, <2>4, <3>1 DEF NoneSkipped, Behind, OnPage, Tried
  <2>7. PageDue'
    BY <2>4 DEF PageDue, OnPage
  <2>8. QED
    BY <1>1, <2>4, <2>5, <2>6, <2>7, WalkMoves
<1>5. CASE /\ Reindex!Unsent # {} /\ Reindex!Current < run.since
           /\ run' = [run EXCEPT !.pc = IF failed = {} THEN "done" ELSE "error"]
  <2> DEFINE c == Reindex!Current
  <2>1. /\ Reindex!Unsent \subseteq run.page /\ \A p \in run.page \ Reindex!Unsent : p \in Tried
    BY DEF Reindex!Unsent, Tried
  <2>2. c \in Reindex!Unsent /\ \A x \in Reindex!Unsent : c >= x
    <3>1. IsFiniteSet(Reindex!Unsent) /\ Reindex!Unsent \subseteq Nat
      BY <1>1, <2>1, FS_Subset
    <3>2. QED
      BY <1>5, <3>1, HasHighest DEF Reindex!Current
  <2> HIDE DEF c
  <2>3. c \in run.page /\ c \in Nat /\ c < run.since
    BY <1>1, <1>5, <2>1, <2>2 DEF c
  <2>4. ASSUME NEW p \in Rows \ moved, p >= run.since PROVE p \in Tried
    <3>1. p > c /\ p \in Nat
      <4>1. p \in Nat /\ c \in Nat /\ run.since \in Nat
        BY <1>1, <2>3, <2>4
      <4>2. c < run.since /\ p >= run.since
        BY <2>3, <2>4
      <4>3. QED
        BY <4>1, <4>2
    <3>2. CASE p \in run.page
      <4>1. p \notin Reindex!Unsent
        BY <2>2, <2>3, <3>1
      <4>2. QED
        BY <2>1, <3>2, <4>1
    <3>3. CASE p \notin run.page
      BY <1>2, <2>3, <2>4, <3>1, <3>3
    <3>4. QED
      BY <3>2, <3>3
  <2>5. CASE failed = {}
    <3>1. run' \in RunTyped /\ run' = [run EXCEPT !.pc = "done"]
      BY <1>1, <1>5, <2>5 DEF RunTyped
    <3>2. run'.pc = "done" /\ run'.dry = run.dry /\ run'.since = run.since
      BY <1>1, <3>1 DEF RunTyped
    <3>3. WalkAt' /\ PageDue'
      BY <1>1, <2>5, <3>2 DEF WalkAt, PageDue, OnPage
    <3>4. NoneSkipped'
      BY <1>1, <1>2, <2>4, <3>2 DEF NoneSkipped, Tried
    <3>5. QED
      BY <1>1, <3>1, <3>2, <3>3, <3>4, WalkMoves
  <2>6. CASE failed # {}
    BY <1>1, <1>2, <1>5, <2>6, ErrorKeeps
  <2>7. QED
    BY <2>5, <2>6
<1>6. QED
  BY <1>4, <1>5 DEF Reindex!TurnPage

(* A post is sent: what is sent of it is due, if nothing blurred it.       *)
LEMMA SendKeeps ==
  ASSUME IsFiniteSet(Rows), Rows \subseteq Nat, ReindexInv, Reindex!Send
  PROVE  ReindexInv'
<1> DEFINE p == Reindex!Current
<1>1. /\ run.pc = "send" /\ run \in RunTyped /\ Reindex!Unsent # {}
      /\ UNCHANGED <<posts, edits, calls, moved>>
      /\ run.page \subseteq Rows /\ run.text \in [Rows -> Items]
  BY DEF Reindex!Send, Reindex!At, Reindex!table, ReindexInv, WalkTyped, RunTyped
<1>2. p \in Reindex!Unsent
  <2>1. IsFiniteSet(Reindex!Unsent) /\ Reindex!Unsent \subseteq Nat
    BY <1>1, FS_Subset DEF Reindex!Unsent
  <2>2. QED
    BY <1>1, <2>1, HasHighest DEF Reindex!Current
<1>3. \/ /\ catalog' = IF run.dry THEN catalog ELSE [catalog EXCEPT ![p] = run.text[p]]
         /\ sent' = sent \cup {p} /\ failed' = failed
         /\ run' = [run EXCEPT !.pc = IF Reindex!Cardinality(sent') = run.limit THEN "stopped" ELSE "send"]
         /\ blurred' = IF Reindex!Settled(p) /\ posts[p].state = "public" /\ catalog'[p] = posts[p].item
                       THEN blurred \ {p} ELSE blurred
      \/ /\ ~run.dry
         /\ catalog' \in {catalog, [catalog EXCEPT ![p] = run.text[p]]}
         /\ failed' = failed \cup {p} /\ sent' = sent
         /\ run' = run /\ blurred' = blurred
  BY DEF Reindex!Send, Reindex!Public, Reindex!IndexText
<1> HIDE DEF p
<1>4. p \in Rows /\ p \in run.page /\ p \notin Tried
  BY <1>1, <1>2 DEF Reindex!Unsent, Tried
<1>5. p \notin blurred => posts[p].state = "public" /\ run.text[p] = posts[p].item
  <2>1. run.text[p] \in Items /\ posts[p].item \in Items
    BY <1>1, <1>4 DEF ReindexInv, WalkTyped
  <2>2. QED
    BY <1>1, <1>4, <2>1 DEF ReindexInv, PageDue, OnPage, Items
<1>6. Tried' = Tried \cup {p}
  BY <1>3 DEF Tried
<1>7. /\ run' \in RunTyped /\ run'.pc \in {"send", "stopped"} /\ run'.page = run.page
      /\ run'.text = run.text /\ run'.cursor = run.cursor /\ run'.since = run.since
      /\ run'.limit = run.limit /\ run'.dry = run.dry
      /\ run'.pc = "stopped" => Cardinality(sent') = run.limit
  BY <1>1, <1>3, SameCardinality DEF RunTyped
<1>8. /\ catalog' \in [Rows -> Items] /\ \A q \in Rows \ {p} : catalog'[q] = catalog[q]
      /\ catalog'[p] \in {catalog[p], run.text[p]}
      /\ (p \in sent' /\ ~run.dry) => catalog'[p] = run.text[p]
  <2>1. run.text[p] \in Items /\ catalog \in [Rows -> Items] /\ p \notin sent
    BY <1>1, <1>4 DEF ReindexInv, WalkTyped, Tried
  <2>2. QED
    BY <1>3, <1>4, <2>1
<1>9. WalkTyped'
  BY <1>1, <1>3, <1>4, <1>7, <1>8 DEF ReindexInv, WalkTyped, RunTyped
<1>10. WalkAt'
  BY <1>1, <1>4, <1>6, <1>7 DEF ReindexInv, WalkAt, OnPage
<1>11. NoneSkipped'
  BY <1>1, <1>6, <1>7 DEF ReindexInv, NoneSkipped, Behind, OnPage
<1>12. \A q \in Rows \ {p} : q \in blurred' <=> q \in blurred
  BY <1>3
<1>13. CallsDue'
  <2>1. ASSUME NEW c \in calls, c.post \notin blurred' PROVE c.item = Due(c.post)
    <3>1. CASE c.post \notin blurred
      BY <3>1 DEF ReindexInv, CallsDue
    <3>2. CASE c.post \in blurred
      BY <1>3, <2>1, <3>2 DEF Reindex!Settled
    <3>3. QED
      BY <3>1, <3>2
  <2>2. QED
    BY <1>1, <2>1 DEF CallsDue, Due
<1>14. PageDue'
  BY <1>1, <1>6, <1>7, <1>12 DEF ReindexInv, PageDue, OnPage
<1>15. CatalogDue'
  <2>1. ASSUME NEW q \in Rows, q \notin blurred', Reindex!Settled(q),
               (q \in sent' /\ ~run.dry) \/ posts[q].state = "deleted"
        PROVE  catalog'[q] = Due(q)
    <3>1. CASE q # p
      <4>1. q \in sent' => q \in sent
        BY <1>3, <3>1
      <4>2. QED
        BY <1>8, <1>12, <2>1, <3>1, <4>1 DEF ReindexInv, CatalogDue
    <3>2. CASE q = p /\ p \notin blurred
      <4>1. posts[p].state = "public" /\ run.text[p] = posts[p].item
        BY <1>5, <3>2
      <4>2. QED
        BY <1>8, <2>1, <3>2, <4>1 DEF Due
    <3>3. CASE q = p /\ p \in blurred
      <4>1. posts[p].state = "public" /\ catalog'[p] = posts[p].item
        BY <1>3, <2>1, <3>3
      <4>2. QED
        BY <3>3, <4>1 DEF Due
    <3>4. QED
      BY <3>1, <3>2, <3>3
  <2>2. QED
    BY <1>1, <1>7, <2>1 DEF CatalogDue, Due, Reindex!Settled
<1>16. QED
  BY <1>9, <1>10, <1>11, <1>13, <1>14, <1>15 DEF ReindexInv

-----------------------------------------------------------------------------
(* A call of the server arrives, or fails.                                 *)
LEMMA CallKeeps ==
  ASSUME IsFiniteSet(Rows), Rows \subseteq Nat, ReindexInv, Reindex!Call
  PROVE  ReindexInv'
<1>1. PICK c \in calls :
        /\ calls' = calls \ {c}
        /\ \/ catalog' = [catalog EXCEPT ![c.post] = c.item] /\ UNCHANGED blurred
           \/ /\ catalog' \in {catalog, [catalog EXCEPT ![c.post] = c.item]}
              /\ blurred' = IF c.item # Reindex!NoItem /\ Reindex!Ahead(c.post) THEN blurred
                            ELSE blurred \cup {c.post}
  BY DEF Reindex!Call
<1>2. /\ UNCHANGED <<posts, edits, run, sent, failed, moved>>
      /\ run \in RunTyped
  BY DEF Reindex!Call, Reindex!table, Reindex!outcome, ReindexInv, WalkTyped, RunTyped
<1>3. c.post \in Rows /\ c.item \in Items /\ catalog \in [Rows -> Items] /\ blurred \subseteq Rows
  BY DEF ReindexInv, WalkTyped
<1>4. Reindex!Ahead(c.post) => c.post \notin sent
  <2>1. ASSUME run.pc \in {"tag", "send"}, c.post < Reindex!Lowest(run.page), c.post \in sent
        PROVE  FALSE
    <3>1. run.page # {} /\ run.page \subseteq Nat /\ run.cursor \in Nat
      BY <1>2, <2>1 DEF ReindexInv, WalkAt, OnPage, RunTyped
    <3> DEFINE low == Reindex!Lowest(run.page)
    <3>2. low \in run.page /\ \A x \in run.page : low <= x
      BY <3>1, HasLowest
    <3> HIDE DEF low
    <3>3. c.post < low
      BY <2>1 DEF low
    <3>4. low < run.cursor /\ (c.post \in run.page \/ c.post >= run.cursor)
      BY <2>1, <3>2 DEF ReindexInv, WalkAt, OnPage, Tried
    <3>5. c.post \in Nat /\ low \in Nat
      BY <1>3, <3>1, <3>2
    <3>6. QED
      BY <3>1, <3>2, <3>3, <3>4, <3>5
  <2>2. run.pc = "read" => \A p \in sent : p >= run.cursor
    BY DEF ReindexInv, WalkAt, Tried
  <2>3. run.cursor \in Nat /\ c.post \in Nat
    BY <1>2, <1>3 DEF RunTyped
  <2>4. run.pc = "ready" => sent = {}
    BY DEF ReindexInv, WalkAt, Tried
  <2>5. (run.pc = "read" /\ c.post < run.cursor) => c.post \notin sent
    BY <2>2, <2>3
  <2>6. QED
    BY <2>1, <2>4, <2>5 DEF Reindex!Ahead, Reindex!At, Reindex!Unsent
<1>5. /\ catalog' \in [Rows -> Items] /\ catalog'[c.post] \in {catalog[c.post], c.item}
      /\ \A p \in Rows \ {c.post} : catalog'[p] = catalog[p]
      /\ blurred' \subseteq Rows /\ blurred \subseteq blurred'
      /\ \A p \in Rows \ {c.post} : p \in blurred' <=> p \in blurred
  BY <1>1, <1>3
<1>6. WalkTyped'
  BY <1>1, <1>2, <1>5 DEF ReindexInv, WalkTyped
<1>7. WalkAt' /\ NoneSkipped'
  BY <1>2 DEF ReindexInv, WalkAt, NoneSkipped, Behind, OnPage, Tried
<1>8. CallsDue'
  BY <1>1, <1>2, <1>5 DEF ReindexInv, CallsDue, Due
<1>9. PageDue'
  BY <1>2, <1>5 DEF ReindexInv, PageDue, OnPage, Tried
<1>10. CatalogDue'
  <2>1. ASSUME NEW p \in Rows, p \notin blurred', \A d \in calls' : d.post # p,
               (p \in sent /\ ~run.dry) \/ posts[p].state = "deleted"
        PROVE  catalog'[p] = Due(p)
    <3>1. CASE p # c.post
      <4>1. Reindex!Settled(p)
        BY <1>1, <2>1, <3>1 DEF Reindex!Settled
      <4>2. QED
        BY <1>5, <2>1, <3>1, <4>1 DEF ReindexInv, CatalogDue
    <3>2. CASE p = c.post
      <4>1. c.item = Due(p)
        BY <1>5, <2>1, <3>2 DEF ReindexInv, CallsDue
      <4>2. CASE catalog' = [catalog EXCEPT ![c.post] = c.item]
        BY <1>3, <3>2, <4>1, <4>2
      <4>3. CASE c.item # Reindex!NoItem /\ Reindex!Ahead(c.post)
        BY <1>4, <2>1, <3>2, <4>1, <4>3 DEF Due
      <4>4. QED
        BY <1>1, <2>1, <3>2, <4>2, <4>3
    <3>3. QED
      BY <3>1, <3>2
  <2>2. QED
    BY <1>2, <2>1 DEF CatalogDue, Due, Reindex!Settled
<1>11. QED
  BY <1>6, <1>7, <1>8, <1>9, <1>10 DEF ReindexInv

(* An author changes a post: what was on its way is no longer due.         *)
LEMMA MutationKeeps ==
  ASSUME ReindexInv, NEW p \in Rows, NEW row, NEW item \in Items, Reindex!Change(p, row, item),
         row \in [state : {"none", "public", "hidden", "deleted"}, item : Items],
         item = IF row.state = "deleted" THEN Reindex!NoItem ELSE row.item
  PROVE  ReindexInv'
<1>1. /\ run.pc \notin {"done", "stopped", "error"} /\ edits' = edits + 1
      /\ posts' = [posts EXCEPT ![p] = row]
      /\ calls' = calls \cup {[post |-> p, item |-> item]}
      /\ blurred' = IF Reindex!Outstanding(p) THEN blurred \cup {p} ELSE blurred \ {p}
      /\ moved' = IF posts[p].state = "public" /\ row.state = "public" THEN moved ELSE moved \cup {p}
      /\ UNCHANGED <<catalog, run, sent, failed>>
  BY DEF Reindex!Change, Reindex!Public, Reindex!outcome
<1>2. /\ posts' \in [Rows -> [state : {"none", "public", "hidden", "deleted"}, item : Items]]
      /\ posts'[p] = row /\ \A q \in Rows \ {p} : posts'[q] = posts[q]
  BY <1>1 DEF ReindexInv, WalkTyped
<1>3. WalkTyped'
  BY <1>1, <1>2 DEF ReindexInv, WalkTyped
<1>4. WalkAt'
  BY <1>1 DEF ReindexInv, WalkAt, OnPage, Tried
<1>5. NoneSkipped'
  BY <1>1, <1>2 DEF ReindexInv, NoneSkipped, Behind, OnPage, Tried
<1>6. CallsDue'
  <2>1. ASSUME NEW c \in calls', c.post \notin blurred' PROVE c.item = (Due(c.post))'
    <3>1. CASE c.post = p
      <4>1. c.item = item
        BY <1>1, <2>1, <3>1 DEF Reindex!Outstanding
      <4>2. QED
        BY <1>2, <3>1, <4>1 DEF Due
    <3>2. CASE c.post # p
      <4>1. c \in calls /\ c.post \in Rows /\ c.post \notin blurred
        BY <1>1, <2>1, <3>2 DEF ReindexInv, WalkTyped
      <4>2. QED
        BY <1>2, <3>2, <4>1 DEF ReindexInv, CallsDue, Due
    <3>3. QED
      BY <3>1, <3>2
  <2>2. QED
    BY <2>1 DEF CallsDue
<1>7. PageDue'
  <2>1. ASSUME OnPage, NEW q \in run.page, q \notin Tried, q \notin blurred'
        PROVE  q # p /\ q \notin blurred /\ q \in Rows
    BY <1>1, <2>1 DEF ReindexInv, WalkTyped, OnPage, Tried, Reindex!Outstanding, Reindex!Unsent
  <2>2. QED
    BY <1>1, <1>2, <2>1 DEF ReindexInv, PageDue, OnPage, Tried
<1>8. CatalogDue'
  <2>1. \A q \in Rows : (Reindex!Settled(q))' => q # p /\ Reindex!Settled(q)
    <3> DEFINE call == [post |-> p, item |-> item]
    <3>1. call \in calls' /\ call.post = p /\ calls \subseteq calls'
      BY <1>1
    <3> HIDE DEF call
    <3>2. QED
      BY <3>1 DEF Reindex!Settled
  <2>2. QED
    BY <1>1, <1>2, <2>1 DEF ReindexInv, CatalogDue, Due
<1>9. QED
  BY <1>3, <1>4, <1>5, <1>6, <1>7, <1>8 DEF ReindexInv

LEMMA AuthorsKeep ==
  ASSUME ReindexInv, NEW p \in Rows, Reindex!Write(p) \/ Reindex!Delete(p)
  PROVE  ReindexInv'
<1>1. edits \in Nat /\ posts[p] \in [state : {"none", "public", "hidden", "deleted"}, item : Items]
  BY DEF ReindexInv, WalkTyped
<1>2. Reindex!Written \in Items /\ Reindex!NoItem \in Items
  BY <1>1 DEF Reindex!Written, Reindex!NoItem, Items
<1>3. ASSUME NEW v \in {"public", "hidden"},
             Reindex!Change(p, [state |-> v, item |-> Reindex!Written], Reindex!Written)
      PROVE  ReindexInv'
  <2> DEFINE row == [state |-> v, item |-> Reindex!Written]
  <2>1. /\ row \in [state : {"none", "public", "hidden", "deleted"}, item : Items]
        /\ row.state # "deleted" /\ row.item = Reindex!Written
    BY <1>2
  <2> HIDE DEF row
  <2>2. QED
    BY <1>2, <1>3, <2>1, MutationKeeps DEF row
<1>4. CASE Reindex!Change(p, [posts[p] EXCEPT !.state = "deleted"], Reindex!NoItem)
  <2> DEFINE row == [posts[p] EXCEPT !.state = "deleted"]
  <2>1. /\ row \in [state : {"none", "public", "hidden", "deleted"}, item : Items]
        /\ row.state = "deleted"
    BY <1>1
  <2> HIDE DEF row
  <2>2. QED
    BY <1>2, <1>4, <2>1, MutationKeeps DEF row
<1>5. QED
  BY <1>3, <1>4 DEF Reindex!Write, Reindex!Delete

LEMMA WalkStarts ==
  ASSUME IsFiniteSet(Rows), Rows \subseteq Nat, Rows # {}, Reindex!Init
  PROVE  ReindexInv
<1>1. /\ run.pc = "ready" /\ run.cursor = Reindex!Top /\ sent = {} /\ failed = {} /\ calls = {}
      /\ moved = {} /\ blurred = {} /\ edits = 1
  BY DEF Reindex!Init
<1>2. Reindex!NoItem \in Items /\ [text |-> 1, tags |-> 1] \in Items
  BY DEF Reindex!NoItem, Items
<1>3. posts \in [Rows -> [state : {"none", "public", "hidden", "deleted"}, item : Items]]
  <2>1. posts \in [Rows -> {Reindex!NoRow} \cup
                           [state : {"public", "hidden"}, item : {[text |-> 1, tags |-> 1]}]]
    BY DEF Reindex!Init
  <2>2. Reindex!NoRow \in [state : {"none", "public", "hidden", "deleted"}, item : Items]
    BY <1>2 DEF Reindex!NoRow
  <2>3. \A p \in Rows : posts[p] \in [state : {"none", "public", "hidden", "deleted"}, item : Items]
    BY <1>2, <2>1, <2>2
  <2>4. QED
    BY <2>1, <2>3
<1>4. \A p \in Rows : posts[p].state # "deleted"
  <2>1. \A p \in Rows : posts[p] \in {Reindex!NoRow} \cup
                           [state : {"public", "hidden"}, item : {[text |-> 1, tags |-> 1]}]
    BY DEF Reindex!Init
  <2>2. SUFFICES ASSUME NEW p \in Rows PROVE posts[p].state # "deleted"
    OBVIOUS
  <2>3. CASE posts[p] = Reindex!NoRow
    BY <2>3 DEF Reindex!NoRow
  <2>4. CASE posts[p] \in [state : {"public", "hidden"}, item : {[text |-> 1, tags |-> 1]}]
    BY <2>4
  <2>5. QED
    BY <2>1, <2>3, <2>4
<1>5. catalog \in [Rows -> Items]
  <2>1. catalog \in [Rows -> {Reindex!NoItem, [text |-> 1, tags |-> 1]}]
    BY DEF Reindex!Init
  <2>2. QED
    BY <1>2, <2>1
<1>6. run \in RunTyped
  <2>1. Reindex!Top \in Nat
    <3> DEFINE h == Reindex!Highest(Rows)
               q == CHOOSE y \in Rows : \A x \in Rows : x <= y
    <3>1. h \in Rows /\ \A x \in Rows : x <= h
      BY HasHighest
    <3> HIDE DEF h
    <3>2. q \in Rows
      BY <3>1
    <3>3. Reindex!Top = 1 + q
      BY DEF Reindex!Top
    <3> HIDE DEF q
    <3>4. QED
      BY <3>2, <3>3
  <2>2. Reindex!NoText \in [Rows -> Items]
    BY <1>2 DEF Reindex!NoText
  <2>3. QED
    BY <2>1, <2>2 DEF Reindex!Init, Reindex!NoLimit, RunTyped
<1>7. WalkTyped
  BY <1>1, <1>3, <1>5, <1>6 DEF WalkTyped, RunTyped
<1>8. WalkAt /\ NoneSkipped /\ CallsDue /\ PageDue
  BY <1>1 DEF WalkAt, NoneSkipped, Behind, CallsDue, PageDue, OnPage, Tried
<1>9. CatalogDue
  BY <1>1, <1>4 DEF CatalogDue
<1>10. QED
  BY <1>7, <1>8, <1>9 DEF ReindexInv

LEMMA WalkRepairs == ReindexInv => Reindex!ReindexRepairs
<1> SUFFICES ASSUME ReindexInv PROVE Reindex!ReindexRepairs
  OBVIOUS
<1>1. Reindex!RunRepairs
  <2> SUFFICES ASSUME run.pc = "done", ~run.dry, NEW p \in Rows, p \notin moved, p \notin blurred,
                      Reindex!Settled(p), p >= run.since
               PROVE  catalog[p] = posts[p].item
    BY DEF Reindex!RunRepairs, Reindex!At, Reindex!IndexText
  <2>1. p \in sent /\ posts[p].state = "public"
    BY DEF ReindexInv, NoneSkipped, Behind, WalkAt, Tried
  <2>2. QED
    BY <2>1 DEF ReindexInv, CatalogDue, Due
<1>2. Reindex!LimitKept
  <2> SUFFICES ASSUME run.pc = "stopped", ~run.dry
               PROVE  /\ Reindex!Cardinality(sent) = run.limit
                      /\ \A p \in sent \ (moved \cup blurred) :
                           Reindex!Settled(p) => catalog[p] = posts[p].item
    BY DEF Reindex!LimitKept, Reindex!At, Reindex!IndexText
  <2>1. Reindex!Cardinality(sent) = run.limit
    BY SameCardinality DEF ReindexInv, WalkAt
  <2>2. ASSUME NEW p \in sent, p \notin moved, p \notin blurred, Reindex!Settled(p)
        PROVE  catalog[p] = posts[p].item
    BY <2>2 DEF ReindexInv, WalkTyped, NoneSkipped, CatalogDue, Due
  <2>3. QED
    BY <2>1, <2>2
<1>3. Reindex!DeletedStaysOut
  BY DEF ReindexInv, CatalogDue, Due, Reindex!DeletedStaysOut
<1>4. QED
  BY <1>1, <1>2, <1>3 DEF Reindex!ReindexRepairs

LEMMA RepairStays ==
  ASSUME IsFiniteSet(Rows), Rows \subseteq Nat, Rows # {}, PageSize \in Nat \ {0}
  PROVE  Reindex!Spec => []Reindex!ReindexRepairs
<1>1. Reindex!Init => ReindexInv
  BY WalkStarts
<1>2. ReindexInv /\ [Reindex!Next]_Reindex!vars => ReindexInv'
  <2> SUFFICES ASSUME ReindexInv, [Reindex!Next]_Reindex!vars PROVE ReindexInv'
    OBVIOUS
  <2>1. CASE UNCHANGED Reindex!vars
    BY <2>1 DEF Reindex!vars, Reindex!table, Reindex!outcome, ReindexInv, WalkTyped, WalkAt, NoneSkipped,
                Behind, CallsDue, PageDue, CatalogDue, Due, OnPage, Tried, Reindex!Settled
  <2>2. QED
    BY <2>1, StartKeeps, ReadKeeps, TagsKeep, SendKeeps, GiveUpKeeps, TurnKeeps, CallKeeps, AuthorsKeep
       DEF Reindex!Next, Reindex!Command
<1>3. ReindexInv => Reindex!ReindexRepairs
  BY WalkRepairs
<1>4. QED
  BY <1>1, <1>2, <1>3, PTL DEF Reindex!Spec

(* The part goes as its specification says, and is the only one.           *)
LEMMA ReindexApart == part = "reindex" /\ MCSpec => Reindex!Spec /\ [](part = "reindex")
<1>1. part = "reindex" /\ MCInit => Reindex!Init
  BY DEF MCInit
<1>2. /\ part = "reindex"
      /\ [MCNext]_<<part, vars, listVars, reindexVars, codohueVars, faults>>
      => [Reindex!Next]_Reindex!vars /\ (part = "reindex")'
  BY DEF MCNext, reindexVars, Reindex!vars, Reindex!table, Reindex!outcome
<1>3. QED
  BY <1>1, <1>2, PTL DEF MCSpec, Reindex!Spec

(* A repair run that ends well has repaired the catalog, one that stops at *)
(* its limit has sent that many posts, and none brings a deleted post back *)
(* (cmdReindex, beside authors and the server's own calls), for any posts, *)
(* page, circuit, and numbers of changes and failures.                     *)
THEOREM CatalogRepaired ==
  ASSUME IsFiniteSet(Rows), Rows \subseteq Nat, Rows # {}, PageSize \in Nat \ {0}
  PROVE  MCSpec => []ReindexRepairs
<1>1. Reindex!Spec => []Reindex!ReindexRepairs
  BY RepairStays
<1>2. Reindex!ReindexRepairs => ReindexRepairs
  BY DEF ReindexRepairs
<1>3. part # "reindex" => ReindexRepairs
  BY DEF ReindexRepairs
<1>4. part # "reindex" /\ [MCNext]_<<part, vars, listVars, reindexVars, codohueVars, faults>>
        => (part # "reindex")'
  BY DEF MCNext
<1>5. part = "reindex" \/ part # "reindex"
  OBVIOUS
<1>6. QED
  BY <1>1, <1>2, <1>3, <1>4, <1>5, ReindexApart, PTL DEF MCSpec

-----------------------------------------------------------------------------
(* Servers and Codohue (Provisioning).  A generation a server holds was    *)
(* made, and the namespace has the one made last or is gone; what a server *)
(* stamps is a generation, or its boot could not provision.                *)
Reasons == {Codohue!NoReason, "unreachable"}
ServerState ==
  [pc : {"down", "namespace", "catalog", "client", "reason", "serving"},
   result : Nat, generation : Nat, open : BOOLEAN,
   status : [state : {"off", "active", "degraded"}, reason : Reasons], failed : BOOLEAN]
HealthAnswer ==
  [pc : {"idle", "state", "reason", "told"}, state : {"off", "active", "degraded"},
   reason : Reasons \cup {"circuit open"}, torn : BOOLEAN, open : BOOLEAN]
Behavior == [stamp : Nat, failed : BOOLEAN]

ProvisioningTyped ==
  /\ made \in Nat
  /\ namespace \in [generation : {Codohue!None, made}, catalog : BOOLEAN]
  /\ server \in [Servers -> ServerState]
  /\ answer \in [Servers -> HealthAnswer]
  /\ events \in Seq(Behavior)
  /\ refused \subseteq [now : Nat, event : Behavior]

Stamped(e) == e.stamp <= made /\ (e.stamp # Codohue!None \/ e.failed)

GenerationMade(x, n) ==
  /\ x.result <= n /\ x.generation <= n
  /\ x.pc = "catalog" => x.result # Codohue!None
  /\ x.pc \in {"client", "reason", "serving"} => x.generation # Codohue!None \/ x.failed
GenerationsMade == \A s \in Servers : GenerationMade(server[s], made)

EventsStamped == \A i \in 1..Len(events) : Stamped(events[i])

(* The reason of a server is that of its state, but while a probe stores   *)
(* the two; an answer is of a server that is up.                           *)
ReasonFits(x) ==
  /\ x.pc = "serving" => ((x.status.state = "degraded") <=> (x.status.reason # Codohue!NoReason))
  /\ x.pc \in {"reason", "serving"} => x.status.state # "off"
(* An answer that was put together has its reason, before and after the    *)
(* circuit is looked at.                                                   *)
AnswerFits(a) ==
  /\ a.open => a.pc = "told" /\ a.state # "active"
  /\ a.pc \in {"reason", "told"} /\ ~a.torn =>
       ((a.state = "degraded") <=> (a.reason # Codohue!NoReason))
ReasonsFit ==
  \A s \in Servers :
    /\ ReasonFits(server[s]) /\ AnswerFits(answer[s])
    /\ answer[s].pc # "idle" => server[s].pc \in {"reason", "serving"}

ProvisioningInv ==
  /\ ProvisioningTyped
  /\ GenerationsMade /\ EventsStamped /\ ReasonsFit
  /\ Codohue!EventsAccepted /\ Codohue!EmbedsWhatItStamps /\ Codohue!HealthHonest

(* A server goes on; Codohue's namespace stays, is embedded, or is made.   *)
LEMMA ServerMoves ==
  ASSUME ProvisioningInv, NEW s \in Servers, NEW p \in ServerState, Codohue!Update(s, p),
         made' \in Nat, made <= made',
         namespace' \in [generation : {Codohue!None, made'}, catalog : BOOLEAN],
         namespace' = namespace \/ namespace'.catalog \/ namespace'.generation > made,
         GenerationMade(p, made'), ReasonFits(p),
         answer[s].pc # "idle" => p.pc \in {"reason", "serving"},
         p.generation = server[s].generation \/ p.generation = Codohue!None \/ namespace'.catalog,
         UNCHANGED <<answer, events, refused>>
  PROVE  ProvisioningInv'
<1>1. /\ server' \in [Servers -> ServerState] /\ server'[s] = p
      /\ \A t \in Servers : t # s => server'[t] = server[t]
  BY DEF Codohue!Update, ProvisioningInv, ProvisioningTyped
<1>2. ProvisioningTyped'
  BY <1>1 DEF ProvisioningInv, ProvisioningTyped
<1>3. GenerationsMade'
  <2>1. \A t \in Servers : t # s => GenerationMade(server[t], made) /\ server[t] \in ServerState
    BY DEF ProvisioningInv, ProvisioningTyped, GenerationsMade
  <2>2. \A t \in Servers : t # s => (GenerationMade(server[t], made))'
    BY <1>1, <2>1 DEF GenerationMade, ServerState, ProvisioningInv, ProvisioningTyped
  <2>3. (GenerationMade(server[s], made))'
    BY <1>1
  <2>4. QED
    BY <2>2, <2>3 DEF GenerationsMade
<1>4. EventsStamped'
  <2>1. \A i \in 1..Len(events) : events[i] \in Behavior
    BY DEF ProvisioningInv, ProvisioningTyped
  <2>2. QED
    BY <2>1 DEF ProvisioningInv, ProvisioningTyped, EventsStamped, Stamped, Behavior
<1>5. ReasonsFit'
  BY <1>1 DEF ProvisioningInv, ReasonsFit, ReasonFits
<1>6. Codohue!EventsAccepted'
  BY DEF ProvisioningInv, Codohue!EventsAccepted
<1>7. Codohue!EmbedsWhatItStamps'
  <2> SUFFICES ASSUME NEW t \in Servers, server'[t].generation # Codohue!None,
                      server'[t].generation = namespace'.generation, ~namespace'.catalog
               PROVE  FALSE
    BY <1>2 DEF Codohue!EmbedsWhatItStamps, ProvisioningTyped
  <2>1. server'[t].generation = server[t].generation
    BY <1>1
  <2>2. server[t].generation <= made /\ server[t].generation \in Nat
    BY DEF ProvisioningInv, ProvisioningTyped, ServerState, GenerationsMade, GenerationMade
  <2>3. namespace' = namespace
    BY <2>1, <2>2 DEF ProvisioningInv, ProvisioningTyped
  <2>4. QED
    BY <2>1, <2>3 DEF ProvisioningInv, Codohue!EmbedsWhatItStamps
<1>8. Codohue!HealthHonest'
  BY DEF ProvisioningInv, Codohue!HealthHonest
<1>9. QED
  BY <1>2, <1>3, <1>4, <1>5, <1>6, <1>7, <1>8 DEF ProvisioningInv

(* What a server holds when it goes on.                                    *)
LEMMA ServerHolds ==
  ASSUME ProvisioningInv, NEW s \in Servers
  PROVE  /\ made \in Nat /\ server[s] \in ServerState
         /\ namespace \in [generation : {Codohue!None, made}, catalog : BOOLEAN]
         /\ GenerationMade(server[s], made) /\ ReasonFits(server[s])
         /\ answer[s].pc # "idle" => server[s].pc \in {"reason", "serving"}
BY DEF ProvisioningInv, ProvisioningTyped, GenerationsMade, ReasonsFit

LEMMA BeginProvisions ==
  ASSUME ProvisioningInv, NEW s \in Servers, Codohue!Begin(s) PROVE ProvisioningInv'
<1> DEFINE p == [Codohue!Down EXCEPT !.pc = "namespace"]
<1>1. /\ p \in ServerState /\ p.pc = "namespace" /\ p.result = 0 /\ p.generation = 0
  BY DEF Codohue!Down, Codohue!Off, Codohue!None, Codohue!NoReason, ServerState, Reasons
<1>2. /\ Codohue!Update(s, p) /\ server[s].pc = "down"
      /\ UNCHANGED <<made, namespace, answer, events, refused>>
  BY DEF Codohue!Begin, Codohue!At, Codohue!codohue, Codohue!bus
<1> HIDE DEF p
<1>3. GenerationMade(p, made') /\ ReasonFits(p)
  BY <1>1, <1>2, ServerHolds DEF GenerationMade, ReasonFits
<1>4. QED
  BY <1>1, <1>2, <1>3, ServerHolds, ServerMoves DEF Codohue!None

LEMMA UnprovisionedMoves ==
  ASSUME ProvisioningInv, NEW s \in Servers, server[s].pc \in {"namespace", "catalog"},
         Codohue!Update(s, Codohue!Unprovisioned(s)),
         made' \in Nat, made <= made',
         namespace' \in [generation : {Codohue!None, made'}, catalog : BOOLEAN],
         namespace' = namespace \/ namespace'.catalog \/ namespace'.generation > made,
         UNCHANGED <<answer, events, refused>>
  PROVE  ProvisioningInv'
<1> DEFINE p == Codohue!Unprovisioned(s)
<1>1. /\ p \in ServerState /\ p.pc = "client" /\ p.failed /\ p.result = 0
      /\ p.generation = server[s].generation
  BY ServerHolds DEF Codohue!Unprovisioned, Codohue!None, ServerState
<1>2. p.generation <= made /\ p.generation \in Nat /\ made \in Nat
  BY <1>1, ServerHolds DEF GenerationMade, ServerState
<1> HIDE DEF p
<1>3. GenerationMade(p, made') /\ ReasonFits(p)
  BY <1>1, <1>2 DEF GenerationMade, ReasonFits
<1>4. answer[s].pc # "idle" => p.pc \in {"reason", "serving"}
  BY ServerHolds
<1>5. QED
  BY <1>1, <1>3, <1>4, ServerMoves DEF p

LEMMA PutProvisions ==
  ASSUME ProvisioningInv, NEW s \in Servers, Codohue!PutNamespace(s) PROVE ProvisioningInv'
<1>1. /\ server[s].pc = "namespace" /\ UNCHANGED <<answer, events, refused>>
      /\ made \in Nat /\ namespace \in [generation : {Codohue!None, made}, catalog : BOOLEAN]
      /\ server[s] \in ServerState
  BY ServerHolds DEF Codohue!PutNamespace, Codohue!At, Codohue!bus
<1> DEFINE g == Codohue!Upserted.generation
<1>2. ASSUME namespace' = Codohue!Upserted, made' = IF g > made THEN g ELSE made
      PROVE  /\ made' \in Nat /\ made <= made' /\ g \in Nat /\ g # 0 /\ g <= made'
             /\ namespace' \in [generation : {Codohue!None, made'}, catalog : BOOLEAN]
             /\ namespace' = namespace \/ namespace'.generation > made
  <2>1. CASE namespace.generation = Codohue!None
    <3>1. Codohue!Upserted = [generation |-> made + 1, catalog |-> FALSE]
      BY <2>1 DEF Codohue!Upserted
    <3>2. g = made + 1 /\ made' = made + 1
      BY <1>1, <1>2, <3>1
    <3>3. QED
      BY <1>1, <1>2, <3>1, <3>2
  <2>2. CASE namespace.generation # Codohue!None
    <3>1. Codohue!Upserted = namespace /\ g = made
      BY <1>1, <2>2 DEF Codohue!Upserted
    <3>2. QED
      BY <1>1, <1>2, <2>2, <3>1 DEF Codohue!None
  <2>3. QED
    BY <2>1, <2>2
<1>3. CASE /\ namespace' = Codohue!Upserted /\ made' = IF g > made THEN g ELSE made
           /\ Codohue!Update(s, [server[s] EXCEPT !.pc = "catalog", !.result = g])
  <2> DEFINE p == [server[s] EXCEPT !.pc = "catalog", !.result = g]
  <2>1. /\ p \in ServerState /\ p.pc = "catalog" /\ p.result = g
        /\ p.generation = server[s].generation
    BY <1>1, <1>2, <1>3 DEF ServerState
  <2>2. p.generation <= made /\ p.generation \in Nat
    BY <1>1, <2>1, ServerHolds DEF GenerationMade, ServerState
  <2> HIDE DEF p, g
  <2>3. GenerationMade(p, made') /\ ReasonFits(p)
    BY <1>1, <1>2, <1>3, <2>1, <2>2 DEF GenerationMade, ReasonFits, Codohue!None
  <2>4. answer[s].pc # "idle" => p.pc \in {"reason", "serving"}
    BY <1>1, ServerHolds
  <2>5. Codohue!Update(s, p)
    BY <1>3 DEF p
  <2>6. QED
    BY <1>1, <1>2, <1>3, <2>1, <2>3, <2>4, <2>5, ServerMoves
<1>4. CASE /\ namespace' = Codohue!Upserted /\ made' = IF g > made THEN g ELSE made
           /\ Codohue!Update(s, Codohue!Unprovisioned(s))
  <2> HIDE DEF g
  <2>1. QED
    BY <1>1, <1>2, <1>4, UnprovisionedMoves
<1>5. CASE UNCHANGED <<namespace, made>> /\ Codohue!Update(s, Codohue!Unprovisioned(s))
  BY <1>1, <1>5, UnprovisionedMoves
<1>6. QED
  BY <1>3, <1>4, <1>5 DEF Codohue!PutNamespace, Codohue!codohue

LEMMA EnableProvisions ==
  ASSUME ProvisioningInv, NEW s \in Servers, Codohue!EnableCatalog(s) PROVE ProvisioningInv'
<1>1. /\ server[s].pc = "catalog" /\ UNCHANGED <<made, answer, events, refused>>
      /\ made \in Nat /\ namespace \in [generation : {Codohue!None, made}, catalog : BOOLEAN]
      /\ server[s] \in ServerState /\ GenerationMade(server[s], made)
  BY ServerHolds DEF Codohue!EnableCatalog, Codohue!At, Codohue!bus
<1>2. CASE /\ namespace' = [namespace EXCEPT !.catalog = TRUE]
           /\ Codohue!Update(s, [server[s] EXCEPT !.pc = "client",
                                                  !.generation = server[s].result])
  <2> DEFINE p == [server[s] EXCEPT !.pc = "client", !.generation = server[s].result]
  <2>1. /\ p \in ServerState /\ p.pc = "client" /\ p.result = server[s].result
        /\ p.generation = server[s].result
    BY <1>1 DEF ServerState
  <2>2. /\ namespace' \in [generation : {Codohue!None, made'}, catalog : BOOLEAN]
        /\ namespace'.catalog
    BY <1>1, <1>2
  <2> HIDE DEF p
  <2>3. GenerationMade(p, made') /\ ReasonFits(p)
    BY <1>1, <2>1 DEF GenerationMade, ReasonFits
  <2>4. answer[s].pc # "idle" => p.pc \in {"reason", "serving"}
    BY <1>1, ServerHolds
  <2>5. Codohue!Update(s, p)
    BY <1>2 DEF p
  <2>6. QED
    BY <1>1, <2>1, <2>2, <2>3, <2>4, <2>5, ServerMoves
<1>3. CASE UNCHANGED namespace /\ Codohue!Update(s, Codohue!Unprovisioned(s))
  BY <1>1, <1>3, UnprovisionedMoves
<1>4. QED
  BY <1>2, <1>3 DEF Codohue!EnableCatalog

(* A probe, at boot or at a tick.                                          *)
LEMMA StateProvisions ==
  ASSUME ProvisioningInv, NEW s \in Servers, server[s].pc \in {"client", "serving"},
         Codohue!Update(s, Codohue!SetState(s, [server[s] EXCEPT !.pc = "reason"])),
         UNCHANGED <<made, namespace, answer, events, refused>>
  PROVE  ProvisioningInv'
<1> DEFINE p == Codohue!SetState(s, [server[s] EXCEPT !.pc = "reason"])
<1>1. server[s] \in ServerState /\ GenerationMade(server[s], made)
  BY ServerHolds
<1>2. /\ p \in ServerState /\ p.pc = "reason" /\ p.result = server[s].result
      /\ p.generation = server[s].generation /\ p.failed = server[s].failed
      /\ p.status.state # "off"
  BY <1>1 DEF Codohue!SetState, ServerState
<1> HIDE DEF p
<1>3. GenerationMade(p, made') /\ ReasonFits(p)
  BY <1>1, <1>2 DEF GenerationMade, ReasonFits
<1>4. QED
  BY <1>2, <1>3, ServerHolds, ServerMoves DEF p

LEMMA ReasonProvisions ==
  ASSUME ProvisioningInv, NEW s \in Servers, Codohue!SetReason(s) PROVE ProvisioningInv'
<1> DEFINE p == [server[s] EXCEPT !.pc = "serving",
      !.status.reason = IF server[s].status.state = "active" THEN Codohue!NoReason ELSE "unreachable"]
<1>1. /\ server[s] \in ServerState /\ GenerationMade(server[s], made) /\ ReasonFits(server[s])
      /\ server[s].pc = "reason" /\ Codohue!Update(s, p)
      /\ UNCHANGED <<made, namespace, answer, events, refused>>
  BY ServerHolds DEF Codohue!SetReason, Codohue!At, Codohue!codohue, Codohue!bus
<1>2. /\ p \in ServerState /\ p.pc = "serving" /\ p.result = server[s].result
      /\ p.generation = server[s].generation /\ p.failed = server[s].failed
      /\ p.status.state = server[s].status.state
      /\ p.status.reason = IF p.status.state = "active" THEN Codohue!NoReason ELSE "unreachable"
  BY <1>1 DEF ServerState, Reasons
<1> HIDE DEF p
<1>3. GenerationMade(p, made') /\ ReasonFits(p)
  BY <1>1, <1>2 DEF GenerationMade, ReasonFits, ServerState, Codohue!NoReason
<1>4. QED
  BY <1>1, <1>2, <1>3, ServerHolds, ServerMoves

LEMMA StopProvisions ==
  ASSUME ProvisioningInv, NEW s \in Servers, Codohue!Stop(s) PROVE ProvisioningInv'
<1>1. /\ Codohue!Down \in ServerState /\ Codohue!Down.pc = "down"
      /\ Codohue!Down.result = 0 /\ Codohue!Down.generation = 0
  BY DEF Codohue!Down, Codohue!Off, Codohue!None, Codohue!NoReason, ServerState, Reasons
<1>2. /\ Codohue!Update(s, Codohue!Down) /\ answer[s].pc = "idle"
      /\ UNCHANGED <<made, namespace, answer, events, refused>>
  BY DEF Codohue!Stop, Codohue!At, Codohue!codohue, Codohue!bus
<1>3. GenerationMade(Codohue!Down, made') /\ ReasonFits(Codohue!Down)
  BY <1>1, <1>2, ServerHolds DEF GenerationMade, ReasonFits
<1>4. QED
  BY <1>1, <1>2, <1>3, ServerHolds, ServerMoves DEF Codohue!None

LEMMA TripProvisions ==
  ASSUME ProvisioningInv, NEW s \in Servers, Codohue!Trip(s) PROVE ProvisioningInv'
<1> DEFINE p == [server[s] EXCEPT !.open = ~Codohue!Answers]
<1>1. /\ server[s] \in ServerState /\ GenerationMade(server[s], made) /\ ReasonFits(server[s])
      /\ Codohue!Update(s, p) /\ UNCHANGED <<made, namespace, answer, events, refused>>
  BY ServerHolds DEF Codohue!Trip, Codohue!codohue, Codohue!bus
<1>2. (~Codohue!Answers) \in BOOLEAN
  OBVIOUS
<1>3. /\ p \in ServerState /\ p.pc = server[s].pc /\ p.result = server[s].result
      /\ p.generation = server[s].generation /\ p.failed = server[s].failed
      /\ p.status = server[s].status
  BY <1>1, <1>2 DEF ServerState
<1> HIDE DEF p
<1>4. GenerationMade(p, made') /\ ReasonFits(p)
  BY <1>1, <1>3 DEF GenerationMade, ReasonFits
<1>5. QED
  BY <1>1, <1>3, <1>4, ServerHolds, ServerMoves

(* The stream.                                                             *)
LEMMA EventsProvision ==
  ASSUME ProvisioningInv, events' \in Seq(Behavior), EventsStamped', Codohue!EventsAccepted',
         refused' \subseteq [now : Nat, event : Behavior],
         UNCHANGED <<made, namespace, server, answer>>
  PROVE  ProvisioningInv'
BY DEF ProvisioningInv, ProvisioningTyped, GenerationsMade, GenerationMade, ReasonsFit, ReasonFits,
       Codohue!EmbedsWhatItStamps, Codohue!HealthHonest

LEMMA PublishProvisions ==
  ASSUME MaxLen \in Nat \ {0},
         ProvisioningInv, NEW s \in Servers, Codohue!PublishBehaviorEvent(s)
  PROVE  ProvisioningInv'
<1> DEFINE e == Codohue!Stamp(s)
<1>1. /\ server[s] \in ServerState /\ GenerationMade(server[s], made)
      /\ server[s].pc \in {"serving", "reason"} /\ Codohue!XAdd(e)
      /\ UNCHANGED <<made, namespace, server, answer, refused>>
  BY ServerHolds DEF Codohue!PublishBehaviorEvent, Codohue!Serving, Codohue!codohue
<1>2. e \in Behavior /\ Stamped(e)
  BY <1>1 DEF Codohue!Stamp, Behavior, ServerState, Stamped, GenerationMade
<1>3. events \in Seq(Behavior) /\ \A i \in 1..Len(events) : Stamped(events[i])
  BY DEF ProvisioningInv, ProvisioningTyped, EventsStamped
<1> HIDE DEF e
<1>4. events' \in Seq(Behavior) /\ \A i \in 1..Len(events') : Stamped(events'[i])
  <2>1. CASE Len(events) < MaxLen
    BY <1>1, <1>2, <1>3, <2>1 DEF Codohue!XAdd
  <2>2. CASE ~(Len(events) < MaxLen)
    <3>1. events # <<>>
      BY <2>2
    <3>2. /\ Tail(events) \in Seq(Behavior)
          /\ \A i \in 1..Len(Tail(events)) : Stamped(Tail(events)[i])
      BY <1>3, <3>1
    <3>3. events' = Append(Tail(events), e)
      BY <1>1, <2>2 DEF Codohue!XAdd
    <3>4. QED
      BY <1>2, <3>2, <3>3
  <2>3. QED
    BY <2>1, <2>2
<1>5. EventsStamped'
  BY <1>1, <1>4 DEF EventsStamped, Stamped
<1>6. QED
  BY <1>1, <1>4, <1>5, EventsProvision DEF ProvisioningInv, ProvisioningTyped, Codohue!EventsAccepted

LEMMA ConsumeProvisions ==
  ASSUME ProvisioningInv, Codohue!Consume PROVE ProvisioningInv'
<1>1. /\ events # <<>> /\ events' = Tail(events)
      /\ refused' = IF Codohue!Accepts(Head(events)) THEN refused
                    ELSE refused \cup {[now |-> namespace.generation, event |-> Head(events)]}
      /\ UNCHANGED <<made, namespace, server, answer>>
  BY DEF Codohue!Consume, Codohue!codohue
<1>2. /\ events \in Seq(Behavior) /\ \A i \in 1..Len(events) : Stamped(events[i])
      /\ made \in Nat /\ namespace.generation \in {Codohue!None, made}
      /\ refused \subseteq [now : Nat, event : Behavior]
  BY DEF ProvisioningInv, ProvisioningTyped, EventsStamped
<1>3. Head(events) \in Behavior /\ Stamped(Head(events))
  BY <1>1, <1>2
<1>4. events' \in Seq(Behavior) /\ EventsStamped'
  BY <1>1, <1>2 DEF EventsStamped, Stamped
<1>5. refused' \subseteq [now : Nat, event : Behavior]
  BY <1>1, <1>2, <1>3 DEF Codohue!None
<1>6. Codohue!EventsAccepted'
  <2>1. ~Codohue!Accepts(Head(events)) =>
          \/ namespace.generation = Codohue!None
          \/ Head(events).stamp # Codohue!None /\ namespace.generation > Head(events).stamp
          \/ Head(events).failed /\ namespace.generation > 1
    BY <1>2, <1>3 DEF Codohue!Accepts, Stamped, Behavior, Codohue!None
  <2>2. QED
    BY <1>1, <2>1 DEF ProvisioningInv, Codohue!EventsAccepted
<1>7. QED
  BY <1>1, <1>4, <1>5, <1>6, EventsProvision

(* The operator, and the answers of /health.                               *)
LEMMA DeleteProvisions ==
  ASSUME ProvisioningInv, Codohue!DeleteNamespace PROVE ProvisioningInv'
BY DEF Codohue!DeleteNamespace, Codohue!bus, ProvisioningInv, ProvisioningTyped, GenerationsMade,
       GenerationMade, EventsStamped, Stamped, ReasonsFit, ReasonFits, Codohue!EventsAccepted,
       Codohue!EmbedsWhatItStamps, Codohue!HealthHonest, Codohue!None

LEMMA AnswerProvisions ==
  ASSUME ProvisioningInv, NEW s \in Servers, NEW a \in HealthAnswer,
         answer' = [answer EXCEPT ![s] = a],
         a.pc # "idle" => server[s].pc \in {"reason", "serving"},
         AnswerFits(a),
         UNCHANGED <<made, namespace, server, events, refused>>
  PROVE  ProvisioningInv'
<1>1. /\ answer' \in [Servers -> HealthAnswer] /\ answer'[s] = a
      /\ \A t \in Servers : t # s => answer'[t] = answer[t]
  BY DEF ProvisioningInv, ProvisioningTyped
<1>2. \A t \in Servers : AnswerFits(answer'[t])
  BY <1>1 DEF ProvisioningInv, ReasonsFit
<1>3. ReasonsFit'
  BY <1>1, <1>2 DEF ProvisioningInv, ReasonsFit, ReasonFits, AnswerFits
<1>4. Codohue!HealthHonest'
  BY <1>2 DEF Codohue!HealthHonest, AnswerFits
<1>5. QED
  BY <1>1, <1>3, <1>4
     DEF ProvisioningInv, ProvisioningTyped, GenerationsMade, GenerationMade, EventsStamped,
         Stamped, Codohue!EventsAccepted, Codohue!EmbedsWhatItStamps

LEMMA HealthProvisions ==
  ASSUME ProvisioningInv, NEW s \in Servers, Codohue!HealthCheck(s) PROVE ProvisioningInv'
<1>1. /\ server[s] \in ServerState /\ ReasonFits(server[s])
      /\ answer[s] \in HealthAnswer /\ AnswerFits(answer[s])
      /\ answer[s].pc # "idle" => server[s].pc \in {"reason", "serving"}
  BY ServerHolds DEF ProvisioningInv, ProvisioningTyped, ReasonsFit
<1> DEFINE x == answer[s]
<1>2. CASE Codohue!LoadState(s)
  <2> DEFINE a == [Codohue!NoAnswer EXCEPT !.pc = "state", !.state = server[s].status.state,
                                           !.torn = Codohue!At(s, "reason")]
  <2>1. Codohue!At(s, "reason") \in BOOLEAN
    BY DEF Codohue!At
  <2>2. a \in HealthAnswer /\ a.pc = "state" /\ a.open = FALSE
    BY <1>1, <2>1 DEF HealthAnswer, Reasons, ServerState, Codohue!NoAnswer, Codohue!NoReason
  <2>3. /\ answer' = [answer EXCEPT ![s] = a] /\ server[s].pc \in {"reason", "serving"}
        /\ UNCHANGED <<made, namespace, server, events, refused>>
    BY <1>2 DEF Codohue!LoadState, Codohue!Serving, Codohue!codohue, Codohue!bus
  <2> HIDE DEF a
  <2>4. QED
    BY <2>2, <2>3, AnswerProvisions DEF AnswerFits
<1>3. CASE Codohue!LoadReason(s)
  <2> DEFINE torn == x.torn \/ server[s].status.state # x.state \/ Codohue!At(s, "reason")
             a == [x EXCEPT !.pc = "reason", !.reason = server[s].status.reason, !.torn = torn]
  <2>1. torn \in BOOLEAN
    BY <1>1 DEF Codohue!At, HealthAnswer
  <2>2. a \in HealthAnswer /\ a.pc = "reason" /\ a.open = FALSE
    BY <1>1, <1>3, <2>1 DEF HealthAnswer, Reasons, ServerState, AnswerFits, Codohue!LoadReason
  <2>3. /\ answer' = [answer EXCEPT ![s] = a] /\ server[s].pc \in {"reason", "serving"}
        /\ UNCHANGED <<made, namespace, server, events, refused>>
    BY <1>1, <1>3 DEF Codohue!LoadReason, Codohue!codohue, Codohue!bus, ProvisioningInv,
                      ProvisioningTyped
  <2>4. ~a.torn => ((a.state = "degraded") <=> (a.reason # Codohue!NoReason))
    BY <1>1, <2>3 DEF Codohue!At, ReasonFits, HealthAnswer
  <2> HIDE DEF a
  <2>5. QED
    BY <2>2, <2>3, <2>4, AnswerProvisions DEF AnswerFits
<1>4. CASE Codohue!LoadCircuit(s)
  <2> DEFINE broken == x.state = "active" /\ server[s].open
             a == IF broken
                  THEN [x EXCEPT !.pc = "told", !.open = TRUE, !.state = "degraded",
                                 !.reason = "circuit open"]
                  ELSE [x EXCEPT !.pc = "told"]
  <2>1. a \in HealthAnswer /\ a.pc = "told"
    BY <1>1 DEF HealthAnswer, Reasons, ServerState
  <2>2. /\ answer' = [answer EXCEPT ![s] = a] /\ x.pc = "reason"
        /\ server[s].pc \in {"reason", "serving"}
        /\ UNCHANGED <<made, namespace, server, events, refused>>
    BY <1>1, <1>4 DEF Codohue!LoadCircuit, Codohue!codohue, Codohue!bus, ProvisioningInv,
                      ProvisioningTyped
  <2>3. AnswerFits(a)
    BY <1>1, <2>2 DEF AnswerFits, HealthAnswer, ServerState, Codohue!NoReason
  <2> HIDE DEF a
  <2>4. QED
    BY <2>1, <2>2, <2>3, AnswerProvisions
<1>5. CASE Codohue!Answered(s)
  <2>1. /\ Codohue!NoAnswer \in HealthAnswer /\ Codohue!NoAnswer.pc = "idle"
        /\ Codohue!NoAnswer.open = FALSE
    BY DEF Codohue!NoAnswer, Codohue!NoReason, HealthAnswer, Reasons
  <2>2. AnswerFits(Codohue!NoAnswer)
    BY <2>1 DEF AnswerFits
  <2>3. QED
    BY <1>5, <2>1, <2>2, AnswerProvisions DEF Codohue!Answered, Codohue!codohue, Codohue!bus
<1>6. QED
  BY <1>2, <1>3, <1>4, <1>5 DEF Codohue!HealthCheck

LEMMA ProvisioningStays ==
  ASSUME MaxLen \in Nat \ {0} PROVE Codohue!Spec => []Codohue!ProvisioningHonest
<1>1. Codohue!Init => ProvisioningInv
  <2> SUFFICES ASSUME Codohue!Init PROVE ProvisioningInv
    OBVIOUS
  <2>1. /\ Codohue!Down \in ServerState /\ Codohue!Down.pc = "down"
        /\ Codohue!Down.result = 0 /\ Codohue!Down.generation = 0
        /\ Codohue!NoAnswer \in HealthAnswer /\ Codohue!NoAnswer.pc = "idle"
        /\ Codohue!NoAnswer.open = FALSE
    BY DEF Codohue!Down, Codohue!Off, Codohue!None, Codohue!NoReason, Codohue!NoAnswer, ServerState,
           HealthAnswer, Reasons
  <2>2. made \in {0, 1} /\ namespace \in [generation : {Codohue!None, made}, catalog : BOOLEAN]
    <3>1. \/ namespace = [generation |-> 0, catalog |-> FALSE]
          \/ namespace = [generation |-> 1, catalog |-> TRUE]
      BY DEF Codohue!Init, Codohue!None
    <3>2. made = namespace.generation
      BY DEF Codohue!Init
    <3>3. CASE namespace = [generation |-> 0, catalog |-> FALSE]
      <4>1. made = 0
        BY <3>2, <3>3
      <4>2. QED
        BY <3>3, <4>1 DEF Codohue!None
    <3>4. CASE namespace = [generation |-> 1, catalog |-> TRUE]
      <4>1. made = 1
        BY <3>2, <3>4
      <4>2. QED
        BY <3>4, <4>1 DEF Codohue!None
    <3>5. QED
      BY <3>1, <3>3, <3>4
  <2>3. ProvisioningTyped
    BY <2>1, <2>2 DEF Codohue!Init, ProvisioningTyped
  <2>4. GenerationsMade /\ EventsStamped /\ ReasonsFit
    BY <2>1, <2>2 DEF Codohue!Init, GenerationsMade, GenerationMade, EventsStamped, ReasonsFit,
                     ReasonFits, AnswerFits
  <2>5. Codohue!EventsAccepted /\ Codohue!EmbedsWhatItStamps /\ Codohue!HealthHonest
    BY <2>1 DEF Codohue!Init, Codohue!EventsAccepted, Codohue!EmbedsWhatItStamps, Codohue!HealthHonest,
                Codohue!None
  <2>6. QED
    BY <2>3, <2>4, <2>5 DEF ProvisioningInv
<1>2. ProvisioningInv /\ [Codohue!Next]_Codohue!vars => ProvisioningInv'
  <2> SUFFICES ASSUME ProvisioningInv, [Codohue!Next]_Codohue!vars PROVE ProvisioningInv'
    OBVIOUS
  <2>1. ASSUME NEW s \in Servers, Codohue!WireCodohue(s) \/ Codohue!Probe(s)
        PROVE  ProvisioningInv'
    BY <2>1, StateProvisions DEF Codohue!WireCodohue, Codohue!Probe, Codohue!At, Codohue!codohue,
                                 Codohue!bus
  <2>2. CASE Codohue!Turn \/ UNCHANGED Codohue!vars
    BY <2>2 DEF Codohue!Turn, Codohue!vars, Codohue!codohue, Codohue!bus, ProvisioningInv,
                ProvisioningTyped, GenerationsMade, GenerationMade, EventsStamped, Stamped, ReasonsFit,
                ReasonFits, Codohue!EventsAccepted, Codohue!EmbedsWhatItStamps, Codohue!HealthHonest
  <2>3. QED
    BY <2>1, <2>2, BeginProvisions, PutProvisions, EnableProvisions, ReasonProvisions, StopProvisions,
       TripProvisions, PublishProvisions, HealthProvisions, ConsumeProvisions, DeleteProvisions
       DEF Codohue!Next
<1>3. ProvisioningInv => Codohue!ProvisioningHonest
  BY DEF ProvisioningInv, Codohue!ProvisioningHonest
<1>4. QED
  BY <1>1, <1>2, <1>3, PTL DEF Codohue!Spec

(* The part goes as its specification says, and is the only one.           *)
LEMMA CodohueApart == part = "codohue" /\ MCSpec => Codohue!Spec /\ [](part = "codohue")
<1>1. part = "codohue" /\ MCInit => Codohue!Init
  BY DEF MCInit
<1>2. /\ part = "codohue"
      /\ [MCNext]_<<part, vars, listVars, reindexVars, codohueVars, faults>>
      => [Codohue!Next]_Codohue!vars /\ (part = "codohue")'
  BY DEF MCNext, codohueVars, Codohue!vars, Codohue!codohue, Codohue!bus
<1>3. QED
  BY <1>1, <1>2, PTL DEF MCSpec, Codohue!Spec

(* Codohue refuses a behaviour event, lacks the catalog of a namespace it  *)
(* is asked to embed, or is called healthy without a reason only as the    *)
(* code allows (EnsureNamespace, wireCodohue, codohueStatus), for any      *)
(* servers, stream and numbers of faults and remade namespaces.            *)
THEOREM ProvisionedHonestly ==
  ASSUME MaxLen \in Nat \ {0}
  PROVE  MCSpec => []ProvisioningHonest
<1>1. Codohue!Spec => []Codohue!ProvisioningHonest
  BY ProvisioningStays
<1>2. Codohue!ProvisioningHonest => ProvisioningHonest
  BY DEF ProvisioningHonest
<1>3. part # "codohue" => ProvisioningHonest
  BY DEF ProvisioningHonest
<1>4. part # "codohue" /\ [MCNext]_<<part, vars, listVars, reindexVars, codohueVars, faults>>
        => (part # "codohue")'
  BY DEF MCNext
<1>5. part = "codohue" \/ part # "codohue"
  OBVIOUS
<1>6. QED
  BY <1>1, <1>2, <1>3, <1>4, <1>5, CodohueApart, PTL DEF MCSpec

-----------------------------------------------------------------------------
(* The other lists (Listings), under these sizes.                          *)
ListSizes ==
  /\ IsFiniteSet(Rows) /\ Rows \subseteq Nat /\ Times \subseteq Nat
  /\ Limits \subseteq Nat \ {0} /\ MaxRows \in Nat \ {0}

Positions == Times \X Rows

\* A row that a page which continues at pos may show.
Under(r, pos) ==
  pos = Lists!Top \/ created[r] < pos[1] \/ (created[r] = pos[1] /\ r < pos[2])

CachedPage ==
  [rows : SUBSET Rows, more : BOOLEAN, missed : SUBSET Rows, none : {FALSE},
   next : Positions \cup {Lists!Top}]

ListTyped ==
  /\ list \in Lists!Keyset \cup Lists!Offset
  /\ created \in [Rows -> Times \cup {Lists!Absent, Lists!Gone}]
  /\ visibility \in [Rows -> Lists!Visibilities]
  /\ pc \in {"ask", "allowed", "counting", "end"}
  /\ pc = "allowed" => list = "posts"
  /\ pc = "counting" => list \in Lists!Offset
  /\ pc \in {"allowed", "counting"} => request.limit \in Limits
  /\ pc = "counting" => request.rows \subseteq Rows
  /\ cursor \in IF list \in Lists!Keyset THEN Positions \cup {Lists!Top} ELSE Nat
  /\ shown \subseteq Rows /\ again \subseteq shown
  /\ cached = Lists!NoPage \/ (list = "tagged" /\ cached \in CachedPage)
  /\ Rows \ Lists!Listed \subseteq unsteady

\* What was shown is not shown again below pos, and the rest is there.
OverAll(S, pos) ==
  \A r \in S : created[r] # Lists!Absent /\ (created[r] = Lists!Gone \/ ~Under(r, pos))
RestUnder(S, pos) == \A r \in Lists!There \ S : Under(r, pos)

CachedFirst ==
  ~cached.none =>
    /\ Rows \ Lists!Listed \subseteq cached.missed
    /\ \A r \in cached.rows : created[r] # Lists!Absent
    /\ IF cached.more
       THEN /\ cached.next # Lists!Top /\ OverAll(cached.rows, cached.next)
            /\ RestUnder(cached.missed \cup cached.rows, cached.next)
       ELSE Lists!There \subseteq cached.missed \cup cached.rows

Walked ==
  list \in Lists!Keyset =>
    /\ again = {}
    /\ \A r \in shown : created[r] # Lists!Absent
    /\ IF pc = "end" THEN Lists!There \subseteq unsteady \cup shown
       ELSE /\ IF cursor = Lists!Top THEN shown = {} ELSE OverAll(shown, cursor)
            /\ RestUnder(unsteady \cup shown, cursor)

\* How many rows of the list are before a row.
Ahead(x, r) == x \in Lists!Listed /\ Lists!Precedes(x, r)
RowRank(r) == Cardinality({x \in Rows : Ahead(x, r)})
OnPageOf(r, o, n) == o <= RowRank(r) /\ RowRank(r) < o + n

CountedRow(r) ==
  /\ r \in shown \cup again => r \in Lists!Listed
  /\ r \in again => Lists!Tied(r)
  /\ r \in shown /\ ~Lists!Tied(r) => RowRank(r) < cursor
  /\ r \in Lists!Listed \ unsteady /\ ~Lists!Tied(r) /\ RowRank(r) < cursor => r \in shown

RequestedRow(r) ==
  /\ r \in request.rows => r \in Lists!Listed
  /\ r \in request.rows /\ ~Lists!Tied(r) => OnPageOf(r, cursor, request.limit)
  /\ r \in Lists!Listed \ unsteady /\ ~Lists!Tied(r) /\ OnPageOf(r, cursor, request.limit)
       => r \in request.rows

Counted ==
  list \in Lists!Offset =>
    /\ \A r \in Rows \ shifted : CountedRow(r) /\ (pc = "counting" => RequestedRow(r))
    /\ pc = "end" => Cardinality(Lists!Listed) <= cursor

ListInv == ListTyped /\ CachedFirst /\ Walked /\ Counted

-----------------------------------------------------------------------------
(* Listings has its own copy of FiniteSets.                                *)
LEMMA SameSize == \A S : Lists!Cardinality(S) = Cardinality(S)
BY Zenon DEF Cardinality, Lists!Cardinality

LEMMA RowsThere ==
  ASSUME ListSizes, ListTyped
  PROVE  /\ Lists!There \subseteq Rows /\ Lists!Listed \subseteq Lists!There
         /\ \A r \in Rows : r \in Nat /\ created[r] \in Int
         /\ \A r \in Lists!There : created[r] \in Nat /\ created[r] \in Times
         /\ \A r \in Rows : r \in Lists!There <=> created[r] \in Times
         /\ \A r \in Rows : r \notin Lists!There => created[r] \in {Lists!Absent, Lists!Gone}
         /\ Lists!Absent \notin Nat /\ Lists!Gone \notin Nat /\ Lists!Absent # Lists!Gone
<1>1. \A A : Lists!Readable(A) \subseteq Lists!There
  BY DEF Lists!Readable
<1>2. Lists!Listed \subseteq Lists!There
  BY <1>1 DEF Lists!Listed
<1>3. /\ Lists!Absent = -1 /\ Lists!Gone = -2 /\ -1 \in Int /\ -2 \in Int
      /\ -1 \notin Nat /\ -2 \notin Nat
  BY DEF Lists!Absent, Lists!Gone
<1>4. \A r \in Rows : created[r] \in Times \cup {-1, -2}
  BY <1>3 DEF ListTyped
<1>5. /\ \A r \in Rows : r \in Nat
      /\ Times \subseteq Nat
      /\ Lists!There = {r \in Rows : created[r] \in Times}
  BY DEF Lists!There, ListSizes
<1>6. \A r \in Rows : created[r] \in Int
  <2> SUFFICES ASSUME NEW r \in Rows PROVE created[r] \in Int
    OBVIOUS
  <2>1. created[r] \in Times \/ created[r] = -1 \/ created[r] = -2
    BY <1>4
  <2>2. CASE created[r] \in Times
    <3>1. created[r] \in Nat
      BY <1>5, <2>2
    <3>2. QED
      BY <3>1
  <2>3. QED
    BY <1>3, <2>1, <2>2
<1>7. QED
  BY <1>2, <1>3, <1>4, <1>5, <1>6

LEMMA BelowIsUnder ==
  \A S, pos : Lists!Below(S, pos) = {r \in S : Under(r, pos)}
BY DEF Lists!Below, Under

\* In a list that continues below a row, rows do not tie.
LEMMA KeysetOrder ==
  ASSUME list \in Lists!Keyset, NEW x, NEW y
  PROVE  Lists!Precedes(x, y) <=> (created[x] > created[y] \/ (created[x] = created[y] /\ x > y))
<1>1. list \notin Lists!Unsettled
  BY DEF Lists!Keyset, Lists!Unsettled, Lists!Searched
<1>2. QED
  BY <1>1 DEF Lists!Precedes, Lists!Later

LEMMA LastIsLowest ==
  ASSUME ListSizes, ListTyped, list \in Lists!Keyset, NEW P, P \subseteq Lists!There, P # {}
  PROVE  Lists!LastOf(P) \in P /\ \A x \in P \ {Lists!LastOf(P)} : Lists!Precedes(x, Lists!LastOf(P))
<1> DEFINE T == {created[x] : x \in P}
           t == Reindex!Lowest(T)
           Q == {x \in P : created[x] = t}
           q == Reindex!Lowest(Q)
<1>1. \A x \in P : x \in Nat /\ created[x] \in Nat
  BY RowsThere
<1>2. T \subseteq Nat /\ T # {}
  BY <1>1
<1>3. t \in T /\ \A u \in T : t <= u
  BY <1>2, HasLowest
<1>4. Q \subseteq Nat /\ Q # {}
  BY <1>1, <1>3
<1>5. q \in Q /\ \A x \in Q : q <= x
  BY <1>4, HasLowest
<1> HIDE DEF q, t
<1>6. \A x \in P : t <= created[x]
  BY <1>3
<1>7. ASSUME NEW x \in P \ {q} PROVE Lists!Precedes(x, q)
  <2>1. created[x] \in Nat /\ t \in Nat /\ x \in Nat /\ q \in Nat /\ created[q] = t /\ t <= created[x]
    BY <1>1, <1>5, <1>6
  <2>2. CASE created[x] = t
    BY <1>5, <2>1, <2>2, KeysetOrder
  <2>3. CASE created[x] # t
    BY <2>1, <2>3, KeysetOrder
  <2>4. QED
    BY <2>2, <2>3
<1>8. q \in P
  BY <1>5
<1>9. \E r \in P : \A x \in P \ {r} : Lists!Precedes(x, r)
  BY <1>7, <1>8
<1>10. QED
  BY <1>9 DEF Lists!LastOf

(* What a LIMIT takes.                                                     *)
LEMMA FirstTakes ==
  ASSUME NEW S, IsFiniteSet(S), NEW n \in Nat, NEW P, P \in Lists!FirstOf(S, n)
  PROVE  /\ P \subseteq S /\ IsFiniteSet(P)
         /\ Cardinality(S) \in Nat /\ Cardinality(P) \in Nat
         /\ Cardinality(S) <= n => P = S
         /\ Cardinality(S) >= n => Cardinality(P) = n
         /\ \A x \in P, y \in S \ P : ~Lists!Precedes(y, x)
<1>1. /\ P \subseteq S
      /\ Cardinality(P) = (IF Cardinality(S) < n THEN Cardinality(S) ELSE n)
      /\ \A x \in P, y \in S \ P : ~Lists!Precedes(y, x)
  BY SameSize DEF Lists!FirstOf
<1>2. /\ IsFiniteSet(P) /\ Cardinality(S) \in Nat /\ Cardinality(P) \in Nat
      /\ Cardinality(P) = Cardinality(S) => P = S
  BY <1>1, FS_Subset, FS_CardinalityType
<1>3. Cardinality(S) <= n => P = S
  BY <1>1, <1>2
<1>4. QED
  BY <1>1, <1>2, <1>3

(* A page, and the row more that tells whether there is another.           *)
LEMMA PageThere ==
  ASSUME ListSizes, ListTyped, list \in Lists!Keyset, NEW P, IsFiniteSet(P), P \subseteq Lists!There,
         NEW l \in Nat \ {0}, Cardinality(P) <= l + 1
  PROVE  Lists!FirstOf(P, l) # {}
<1>0. Cardinality(P) \in Nat
  BY FS_CardinalityType
<1>1. CASE Cardinality(P) <= l
  <2>1. P \in SUBSET P /\ Cardinality(P) = (IF Cardinality(P) < l THEN Cardinality(P) ELSE l)
    BY <1>0, <1>1
  <2>2. P \in Lists!FirstOf(P, l)
    BY <2>1, SameSize DEF Lists!FirstOf
  <2>3. QED
    BY <2>2
<1>2. CASE ~(Cardinality(P) <= l)
  <2> DEFINE r == Lists!LastOf(P)
  <2>1. Cardinality(P) = l + 1 /\ P # {}
    BY <1>0, <1>2, FS_EmptySet
  <2>2. r \in P /\ \A x \in P \ {r} : Lists!Precedes(x, r)
    BY <2>1, LastIsLowest
  <2> HIDE DEF r
  <2>3. IsFiniteSet(P \ {r}) /\ Cardinality(P \ {r}) = l
    <3>1. IsFiniteSet(P \ {r}) /\ Cardinality(P \ {r}) = Cardinality(P) - 1
      BY <2>2, FS_RemoveElement
    <3>2. QED
      BY <2>1, <3>1
  <2>4. \A x \in P \ {r} : ~Lists!Precedes(r, x)
    <3> SUFFICES ASSUME NEW x \in P \ {r} PROVE ~Lists!Precedes(r, x)
      OBVIOUS
    <3>1. /\ x \in Nat /\ r \in Nat /\ created[x] \in Nat /\ created[r] \in Nat
      BY <2>2, RowsThere
    <3>2. QED
      BY <2>2, <3>1, KeysetOrder
  <2>5. P \ {r} \in Lists!FirstOf(P, l)
    BY <1>0, <2>1, <2>3, <2>4, SameSize DEF Lists!FirstOf
  <2>6. QED
    BY <2>5
<1>3. QED
  BY <1>1, <1>2

LEMMA PageAndMore ==
  ASSUME ListSizes, ListTyped, list \in Lists!Keyset, NEW S, S \subseteq Lists!There,
         NEW l \in Nat \ {0}, NEW P, P \in Lists!FirstOf(S, l + 1), NEW Q, Q \in Lists!FirstOf(P, l)
  PROVE  /\ Q \subseteq S
         /\ (Cardinality(P) > l) <=> (P # Q)
         /\ ~(Cardinality(P) > l) => Q = S
         /\ Cardinality(P) > l => /\ Lists!LastOf(Q) \in Q
                                  /\ Lists!Position(Lists!LastOf(Q)) \in Positions
                                  /\ \A r \in Q : ~Under(r, Lists!Position(Lists!LastOf(Q)))
                                  /\ \A r \in S \ Q : Under(r, Lists!Position(Lists!LastOf(Q)))
<1>1. IsFiniteSet(S)
  BY RowsThere, FS_Subset DEF ListSizes
<1>2. /\ P \subseteq S /\ IsFiniteSet(P) /\ Cardinality(S) \in Nat /\ Cardinality(P) \in Nat
      /\ Cardinality(S) <= l + 1 => P = S
      /\ Cardinality(S) >= l + 1 => Cardinality(P) = l + 1
      /\ \A x \in P, y \in S \ P : ~Lists!Precedes(y, x)
  BY <1>1, FirstTakes
<1>3. /\ Q \subseteq P /\ IsFiniteSet(Q) /\ Cardinality(Q) \in Nat
      /\ Cardinality(P) <= l => Q = P
      /\ Cardinality(P) >= l => Cardinality(Q) = l
      /\ \A x \in Q, y \in P \ Q : ~Lists!Precedes(y, x)
  BY <1>2, FirstTakes
<1>4. ~(Cardinality(P) > l) => Q = S /\ P = Q
  BY <1>2, <1>3
<1>5. ASSUME Cardinality(P) > l
      PROVE  /\ P # Q /\ Lists!LastOf(Q) \in Q
             /\ Lists!Position(Lists!LastOf(Q)) \in Positions
             /\ \A r \in Q : ~Under(r, Lists!Position(Lists!LastOf(Q)))
             /\ \A r \in S \ Q : Under(r, Lists!Position(Lists!LastOf(Q)))
  <2> DEFINE q == Lists!LastOf(Q)
  <2>1. Cardinality(Q) = l /\ Q # {} /\ P # Q
    BY <1>2, <1>3, <1>5, FS_EmptySet
  <2>2. q \in Q /\ \A x \in Q \ {q} : Lists!Precedes(x, q)
    BY <1>2, <1>3, <2>1, LastIsLowest
  <2> HIDE DEF q
  <2>3. q \in Lists!There /\ q \in Nat /\ created[q] \in Nat /\ created[q] \in Times /\ q \in Rows
    BY <1>2, <1>3, <2>2, RowsThere
  <2>4. /\ Lists!Position(q) \in Positions /\ Lists!Position(q) # Lists!Top
        /\ Lists!Position(q)[1] = created[q] /\ Lists!Position(q)[2] = q
    BY <2>3 DEF Lists!Position, Positions, Lists!Top
  <2>5. \A r \in Lists!There :
          /\ (r # q /\ Lists!Precedes(r, q)) => ~Under(r, Lists!Position(q))
          /\ (r # q /\ ~Lists!Precedes(r, q)) => Under(r, Lists!Position(q))
          /\ ~Under(q, Lists!Position(q))
    <3> SUFFICES ASSUME NEW r \in Lists!There
                 PROVE  /\ (r # q /\ Lists!Precedes(r, q)) => ~Under(r, Lists!Position(q))
                        /\ (r # q /\ ~Lists!Precedes(r, q)) => Under(r, Lists!Position(q))
                        /\ ~Under(q, Lists!Position(q))
      OBVIOUS
    <3>1. r \in Nat /\ created[r] \in Nat
      BY RowsThere
    <3>2. QED
      BY <2>3, <2>4, <3>1, KeysetOrder DEF Under
  <2>6. \A r \in Q : ~Under(r, Lists!Position(q))
    BY <1>2, <1>3, <2>2, <2>5
  <2>7. \A r \in S \ Q : Under(r, Lists!Position(q))
    BY <1>2, <1>3, <2>2, <2>5
  <2>8. QED
    BY <2>1, <2>2, <2>4, <2>6, <2>7 DEF q
<1>6. QED
  BY <1>2, <1>3, <1>4, <1>5

(* What a step leaves of the table, and of the cached page.                *)
LEMMA TableStays ==
  ASSUME UNCHANGED Lists!table
  PROVE  /\ UNCHANGED <<list, created, visibility, viewer, asked>>
         /\ Lists!There' = Lists!There /\ Lists!Listed' = Lists!Listed
         /\ \A r, pos : Under(r, pos)' <=> Under(r, pos)
         /\ \A S, pos : OverAll(S, pos)' <=> OverAll(S, pos)
         /\ \A S, pos : RestUnder(S, pos)' <=> RestUnder(S, pos)
<1>1. UNCHANGED <<list, created, visibility, viewer, asked>>
  BY DEF Lists!table
<1>2. Lists!There' = Lists!There
  BY <1>1 DEF Lists!There
<1>3. Lists!AllowedVisibilities' = Lists!AllowedVisibilities
  BY <1>1 DEF Lists!AllowedVisibilities
<1>4. Lists!RequestedVisibilities' = Lists!RequestedVisibilities
  BY <1>1, <1>3 DEF Lists!RequestedVisibilities
<1>5. \A A : Lists!Readable(A)' = Lists!Readable(A)
  BY <1>1, <1>2 DEF Lists!Readable
<1>6. Lists!Listed' = Lists!Listed
  BY <1>1, <1>2, <1>4, <1>5 DEF Lists!Listed
<1>7. \A r, pos : Under(r, pos)' <=> Under(r, pos)
  BY <1>1 DEF Under
<1>8. \A S, pos : OverAll(S, pos)' <=> OverAll(S, pos)
  BY <1>1, <1>7 DEF OverAll
<1>9. \A S, pos : RestUnder(S, pos)' <=> RestUnder(S, pos)
  BY <1>2, <1>7 DEF RestUnder
<1>10. QED
  BY <1>1, <1>2, <1>6, <1>7, <1>8, <1>9

LEMMA CachedStays ==
  ASSUME ListInv, UNCHANGED <<Lists!table, cached>> PROVE CachedFirst'
BY TableStays DEF ListInv, CachedFirst

LEMMA KeysetApart == Lists!Keyset \cap Lists!Offset = {}
BY DEF Lists!Keyset, Lists!Offset, Lists!Searched

\* The pages before this one are over it, and so is this one over the next.
LEMMA OverBoth ==
  ASSUME ListSizes, ListTyped, NEW r \in Lists!There, NEW q \in Lists!There, NEW pos \in Positions,
         ~Under(r, pos), Under(q, pos)
  PROVE  ~Under(r, Lists!Position(q))
<1>1. /\ r \in Nat /\ created[r] \in Nat /\ q \in Nat /\ created[q] \in Nat
      /\ Times \subseteq Nat /\ Rows \subseteq Nat
  BY RowsThere DEF ListSizes
<1>2. pos[1] \in Nat /\ pos[2] \in Nat /\ pos # Lists!Top
  <2>1. pos = <<pos[1], pos[2]>> /\ pos[1] \in Times /\ pos[2] \in Rows
    BY DEF Positions
  <2>2. \A a, b : <<a, b>> # <<>>
    OBVIOUS
  <2>3. pos # <<>>
    BY <2>1, <2>2, Zenon
  <2>4. QED
    BY <1>1, <2>1, <2>3 DEF Lists!Top
<1>3. /\ ~(created[r] < pos[1]) /\ ~(created[r] = pos[1] /\ r < pos[2])
      /\ created[q] < pos[1] \/ (created[q] = pos[1] /\ q < pos[2])
  BY <1>2 DEF Under
<1>4. /\ Lists!Position(q) # Lists!Top
      /\ Lists!Position(q)[1] = created[q] /\ Lists!Position(q)[2] = q
  BY DEF Lists!Position, Lists!Top
<1>5. ~(created[r] < created[q]) /\ ~(created[r] = created[q] /\ r < q)
  BY <1>1, <1>2, <1>3
<1>6. QED
  BY <1>4, <1>5 DEF Under

(* Every page of a list that continues below a row.                        *)
LEMMA PageWalks ==
  ASSUME ListSizes, ListInv, list \in Lists!Keyset, pc \in {"ask", "allowed"},
         UNCHANGED <<Lists!table, cached>>,
         NEW V, V \subseteq Lists!There, NEW l \in Nat \ {0},
         NEW P, P \in Lists!FirstOf(Lists!Below(V, cursor), l + 1), Lists!Answer(P, l),
         unsteady \subseteq unsteady', Lists!There \ unsteady' \subseteq V
  PROVE  ListInv'
<1> DEFINE S == Lists!Below(V, cursor)
           Q == CHOOSE page \in Lists!FirstOf(P, l) : TRUE
           q == Lists!LastOf(Q)
           more == Cardinality(P) > l
<1>1. ListTyped /\ Walked /\ CachedFirst'
  BY CachedStays DEF ListInv
<1>2. S \subseteq Lists!There /\ \A r \in V : r \in S <=> Under(r, cursor)
  BY BelowIsUnder
<1>3. IsFiniteSet(P) /\ P \subseteq S /\ Cardinality(P) <= l + 1
  <2>1. IsFiniteSet(S)
    BY <1>1, <1>2, RowsThere, FS_Subset DEF ListSizes
  <2>2. /\ P \subseteq S /\ IsFiniteSet(P) /\ Cardinality(S) \in Nat /\ Cardinality(P) \in Nat
        /\ Cardinality(S) <= l + 1 => P = S
        /\ Cardinality(S) >= l + 1 => Cardinality(P) = l + 1
    BY <2>1, FirstTakes
  <2>3. QED
    BY <2>2
<1>4. Q \in Lists!FirstOf(P, l)
  BY <1>1, <1>2, <1>3, PageThere
<1>5. /\ shown' = shown \cup Q /\ again' = again \cup (shown \cap Q)
      /\ IF more THEN cursor' = Lists!Position(q) /\ pc' = "ask" ELSE UNCHANGED cursor /\ pc' = "end"
  BY SameSize DEF Lists!Answer, Lists!Show
<1> HIDE DEF S, Q, q, more
<1>6. /\ Q \subseteq S
      /\ ~more => Q = S
      /\ more => /\ q \in Q /\ Lists!Position(q) \in Positions
                 /\ \A r \in Q : ~Under(r, Lists!Position(q))
                 /\ \A r \in S \ Q : Under(r, Lists!Position(q))
  BY <1>1, <1>2, <1>4, PageAndMore DEF S, q, more
<1>7. /\ again = {} /\ \A r \in shown : created[r] # Lists!Absent
      /\ cursor = Lists!Top => shown = {}
      /\ cursor # Lists!Top => OverAll(shown, cursor)
      /\ RestUnder(unsteady \cup shown, cursor)
      /\ cursor \in Positions \cup {Lists!Top}
  BY <1>1 DEF Walked, ListTyped
<1>8. \A r \in Q : /\ r \in Lists!There /\ r \in Rows /\ Under(r, cursor)
                   /\ created[r] # Lists!Absent /\ created[r] # Lists!Gone
  <2>1. \A r \in Q : r \in Lists!There /\ Under(r, cursor)
    BY <1>2, <1>6, BelowIsUnder DEF S
  <2>2. \A r \in Q : r \in Rows /\ created[r] \in Nat
    BY <1>1, <2>1, RowsThere
  <2>3. QED
    BY <1>1, <2>1, <2>2, RowsThere
<1>9. shown \cap Q = {}
  <2> SUFFICES ASSUME NEW r \in shown, r \in Q PROVE FALSE
    OBVIOUS
  <2>1. cursor # Lists!Top /\ (created[r] = Lists!Gone \/ ~Under(r, cursor))
    BY <1>7 DEF OverAll
  <2>2. QED
    BY <1>8, <2>1
<1>10. \A r \in Lists!There \ (unsteady' \cup shown') : r \in S \ Q
  <2> SUFFICES ASSUME NEW r \in Lists!There \ (unsteady' \cup shown') PROVE r \in S \ Q
    OBVIOUS
  <2>1. r \in V /\ r \notin Q /\ r \notin unsteady \cup shown
    BY <1>5
  <2>2. Under(r, cursor)
    BY <1>7, <2>1 DEF RestUnder
  <2>3. QED
    BY <1>2, <2>1, <2>2
<1>11. more => OverAll(shown', Lists!Position(q))
  <2> SUFFICES ASSUME more, NEW r \in shown'
               PROVE  /\ created[r] # Lists!Absent
                      /\ created[r] = Lists!Gone \/ ~Under(r, Lists!Position(q))
    BY DEF OverAll
  <2>1. CASE r \in Q
    BY <1>6, <1>8, <2>1
  <2>2. CASE r \in shown
    <3>1. cursor \in Positions /\ OverAll(shown, cursor)
      BY <1>7, <2>2
    <3>2. created[r] # Lists!Absent /\ (created[r] = Lists!Gone \/ ~Under(r, cursor))
      BY <2>2, <3>1 DEF OverAll
    <3>3. r \in Rows
      BY <1>1, <2>2 DEF ListTyped
    <3>4. CASE r \in Lists!There
      <4>1. created[r] # Lists!Gone /\ q \in Lists!There /\ Under(q, cursor)
        BY <1>1, <1>6, <1>8, <3>4, RowsThere
      <4>2. QED
        BY <1>1, <3>1, <3>2, <3>4, <4>1, OverBoth
    <3>5. CASE r \notin Lists!There
      BY <1>1, <3>2, <3>3, <3>5, RowsThere
    <3>6. QED
      BY <3>4, <3>5
  <2>3. QED
    BY <1>5, <2>1, <2>2
<1>12. /\ list' = list /\ list' \notin Lists!Offset /\ Lists!There' = Lists!There
       /\ UNCHANGED <<created, visibility>> /\ Lists!Listed' = Lists!Listed
  BY TableStays, KeysetApart
<1>13. ListTyped'
  <2>1. cursor' \in Positions \cup {Lists!Top} /\ pc' \in {"ask", "end"}
    BY <1>5, <1>6, <1>7
  <2>2. shown' \subseteq Rows /\ again' \subseteq shown'
    BY <1>1, <1>5, <1>8 DEF ListTyped
  <2>3. list' \in Lists!Keyset
    BY <1>12
  <2>4. Rows \ Lists!Listed' \subseteq unsteady'
    BY <1>1, <1>12 DEF ListTyped
  <2>5. QED
    BY <1>1, <1>12, <2>1, <2>2, <2>3, <2>4 DEF ListTyped, CachedPage
<1>14. Walked'
  <2>1. again' = {} /\ \A r \in shown' : created'[r] # Lists!Absent
    BY <1>5, <1>7, <1>8, <1>9, <1>12
  <2>2. CASE more
    <3>1. pc' = "ask" /\ cursor' = Lists!Position(q) /\ cursor' # Lists!Top
      BY <1>5, <2>2 DEF Lists!Position, Lists!Top
    <3>2. RestUnder(unsteady' \cup shown', Lists!Position(q))
      BY <1>6, <1>10, <2>2 DEF RestUnder
    <3>3. OverAll(shown', cursor') /\ RestUnder(unsteady' \cup shown', cursor')
      BY <1>11, <2>2, <3>1, <3>2
    <3>4. (OverAll(shown, cursor))' /\ (RestUnder(unsteady \cup shown, cursor))'
      BY <1>12, <3>3 DEF OverAll, RestUnder, Under
    <3>5. QED
      BY <2>1, <3>1, <3>4 DEF Walked
  <2>3. CASE ~more
    <3>1. pc' = "end" /\ Q = S
      BY <1>5, <1>6, <2>3
    <3>2. Lists!There' \subseteq unsteady' \cup shown'
      BY <1>10, <1>12, <3>1
    <3>3. QED
      BY <2>1, <3>1, <3>2 DEF Walked
  <2>4. QED
    BY <2>2, <2>3
<1>15. Counted'
  BY <1>12 DEF Counted
<1>16. QED
  BY <1>1, <1>13, <1>14, <1>15 DEF ListInv

LEMMA ListLimits ==
  ASSUME ListSizes PROVE Limits \subseteq Nat \ {0} /\ MaxRows \in Nat \ {0}
BY DEF ListSizes

LEMMA PagesWalk ==
  ASSUME ListSizes, ListInv,
         Lists!GetUserPosts \/ Lists!GetDiscover \/ Lists!GetNotifications \/ Lists!GetPostsByHashtag
  PROVE  ListInv'
<1>1. /\ \A A : Lists!Readable(A) \subseteq Lists!There
      /\ ListTyped /\ Rows \ Lists!Listed \subseteq unsteady
  BY DEF Lists!Readable, ListInv, ListTyped
<1>2. CASE Lists!GetUserPosts
  <2>1. PICK P \in Lists!FirstOf(Lists!Below(Lists!Readable(request.allowed), cursor), request.limit + 1) :
          Lists!Answer(P, request.limit)
    BY <1>2 DEF Lists!GetUserPosts, Lists!GetUserPostsWithCursor
  <2>2. /\ pc = "allowed" /\ list \in Lists!Keyset
        /\ unsteady' = unsteady \cup (Rows \ Lists!Readable(request.allowed))
        /\ UNCHANGED <<Lists!table, cached>>
    BY <1>1, <1>2 DEF Lists!GetUserPosts, ListTyped, Lists!Keyset
  <2>3. request.limit \in Nat \ {0}
    BY <1>1, <2>2, ListLimits DEF ListTyped
  <2>4. unsteady \subseteq unsteady' /\ Lists!There \ unsteady' \subseteq Lists!Readable(request.allowed)
    BY <1>1, <2>2, RowsThere
  <2>5. QED
    BY <1>1, <2>1, <2>2, <2>3, <2>4, PageWalks
<1>3. CASE Lists!GetDiscover
  <2> DEFINE V == Lists!Readable({"public"})
  <2>1. PICK l \in Limits : Lists!AskDiscover(l) /\ \E P \in Lists!GetDiscoverWithCursor(cursor, l + 1) :
                               Lists!Answer(P, l)
    BY <1>3 DEF Lists!GetDiscover
  <2>2. PICK P \in Lists!FirstOf(Lists!Below(V, cursor), l + 1) : Lists!Answer(P, l)
    BY <2>1 DEF Lists!GetDiscoverWithCursor
  <2>3. /\ pc = "ask" /\ list = "discover" /\ list \in Lists!Keyset
        /\ UNCHANGED <<Lists!table, cached, unsteady>>
    BY <1>3, <2>1 DEF Lists!GetDiscover, Lists!AskDiscover, Lists!Keyset
  <2>4. l \in Nat \ {0} /\ V = Lists!Listed
    BY <2>3, ListLimits DEF Lists!Listed
  <2>5. Lists!There \ unsteady' \subseteq V
    BY <1>1, <2>3, <2>4, RowsThere
  <2>6. QED
    BY <1>1, <2>2, <2>3, <2>4, <2>5, PageWalks
<1>4. CASE Lists!GetNotifications
  <2>1. PICK P \in Lists!FirstOf(Lists!Below(Lists!There, cursor), MaxRows + 1) : Lists!Answer(P, MaxRows)
    BY <1>4 DEF Lists!GetNotifications, Lists!GetNotificationsWithCursor
  <2>2. /\ pc = "ask" /\ list \in Lists!Keyset /\ UNCHANGED <<Lists!table, cached, unsteady>>
    BY <1>4 DEF Lists!GetNotifications, Lists!AskNotifications, Lists!Keyset
  <2>3. QED
    BY <2>1, <2>2, ListLimits, PageWalks
<1>5. CASE Lists!GetPostsByHashtag
  <2> DEFINE V == Lists!Readable({"public"})
  <2>1. PICK l \in Limits : \E P \in Lists!GetPostsByHashtagWithCursor(cursor, l + 1) : Lists!Answer(P, l)
    BY <1>5 DEF Lists!GetPostsByHashtag
  <2>2. PICK P \in Lists!FirstOf(Lists!Below(V, cursor), l + 1) : Lists!Answer(P, l)
    BY <2>1 DEF Lists!GetPostsByHashtagWithCursor
  <2>3. /\ pc = "ask" /\ list = "tagged" /\ list \in Lists!Keyset
        /\ UNCHANGED <<Lists!table, cached, unsteady>>
    BY <1>5 DEF Lists!GetPostsByHashtag, Lists!Keyset
  <2>4. l \in Nat \ {0} /\ V = Lists!Listed
    BY <2>3, ListLimits DEF Lists!Listed
  <2>5. Lists!There \ unsteady' \subseteq V
    BY <1>1, <2>3, <2>4, RowsThere
  <2>6. QED
    BY <1>1, <2>2, <2>3, <2>4, <2>5, PageWalks
<1>6. QED
  BY <1>2, <1>3, <1>4, <1>5

\* Whoever may see nothing has seen it all.
LEMMA AccessWalks ==
  ASSUME ListSizes, ListInv, Lists!CheckAccess PROVE ListInv'
<1>1. PICK l \in Limits : Lists!AskUserPosts(l)
  BY DEF Lists!CheckAccess
<1>2. /\ pc = "ask" /\ list = "posts" /\ list \in Lists!Keyset /\ list \notin Lists!Offset
      /\ pc' = IF Lists!RequestedVisibilities = {} THEN "end" ELSE "allowed"
      /\ request'.limit \in Limits
      /\ UNCHANGED <<Lists!table, cached, cursor, shown, again, unsteady>>
  BY <1>1, KeysetApart DEF Lists!CheckAccess, Lists!AskUserPosts, Lists!history, Lists!Keyset
<1>3. /\ Lists!There' = Lists!There /\ Lists!Listed' = Lists!Listed
      /\ UNCHANGED <<list, created, visibility>> /\ CachedFirst'
  BY <1>2, TableStays, CachedStays
<1>4. Lists!RequestedVisibilities = {} => Lists!There \subseteq unsteady
  <2>1. Lists!Listed = Lists!Readable(Lists!RequestedVisibilities)
    BY <1>2 DEF Lists!Listed
  <2>2. Lists!RequestedVisibilities = {} => Lists!Listed = {}
    BY <2>1 DEF Lists!Readable
  <2>3. QED
    BY <2>2, RowsThere DEF ListInv, ListTyped
<1>5. ListTyped'
  BY <1>2, <1>3 DEF ListInv, ListTyped, CachedPage
<1>6. Walked'
  <2>1. /\ again = {} /\ \A r \in shown : created[r] # Lists!Absent
        /\ IF cursor = Lists!Top THEN shown = {} ELSE OverAll(shown, cursor)
        /\ RestUnder(unsteady \cup shown, cursor)
    BY <1>2 DEF ListInv, Walked
  <2>2. CASE pc' = "end"
    BY <1>2, <1>3, <1>4, <2>1, <2>2 DEF Walked
  <2>3. CASE pc' # "end"
    <3>1. OverAll(shown, cursor)' <=> OverAll(shown, cursor)
      BY <1>2, <1>3 DEF OverAll, Under
    <3>2. RestUnder(unsteady \cup shown, cursor)' <=> RestUnder(unsteady \cup shown, cursor)
      BY <1>2, <1>3 DEF RestUnder, Under
    <3>3. QED
      BY <1>2, <1>3, <2>1, <2>3, <3>1, <3>2 DEF Walked
  <2>4. QED
    BY <2>2, <2>3
<1>7. Counted'
  BY <1>2, <1>3 DEF Counted
<1>8. QED
  BY <1>3, <1>5, <1>6, <1>7 DEF ListInv

(* Page 1 out of Redis: its walk goes on below the last row that is cached.*)
LEMMA CacheWalks ==
  ASSUME ListSizes, ListInv, Lists!FromCache PROVE ListInv'
<1>1. /\ pc = "ask" /\ list = "tagged" /\ list \in Lists!Keyset /\ list \notin Lists!Offset
      /\ cursor = Lists!Top /\ ~cached.none
      /\ shown' = shown \cup cached.rows /\ again' = again \cup (shown \cap cached.rows)
      /\ unsteady' = unsteady \cup cached.missed
      /\ IF cached.more THEN pc' = "ask" /\ cursor' = cached.next ELSE pc' = "end" /\ UNCHANGED cursor
      /\ UNCHANGED <<Lists!table, cached, request>>
  BY KeysetApart DEF Lists!FromCache, Lists!Show, Lists!Keyset
<1>2. /\ Lists!There' = Lists!There /\ Lists!Listed' = Lists!Listed
      /\ UNCHANGED <<list, created, visibility>> /\ CachedFirst'
  BY <1>1, TableStays, CachedStays
<1>3. cached \in CachedPage /\ shown = {} /\ again = {}
  BY <1>1 DEF ListInv, ListTyped, Walked, Lists!NoPage
<1>4. /\ \A r \in cached.rows : created[r] # Lists!Absent
      /\ cached.more => /\ cached.next # Lists!Top /\ OverAll(cached.rows, cached.next)
                        /\ RestUnder(cached.missed \cup cached.rows, cached.next)
      /\ ~cached.more => Lists!There \subseteq cached.missed \cup cached.rows
  BY <1>1 DEF ListInv, CachedFirst
<1>5. ListTyped'
  <2>1. /\ cursor' \in Positions \cup {Lists!Top} /\ shown' \subseteq Rows /\ pc' \in {"ask", "end"}
        /\ list' \in Lists!Keyset
    BY <1>1, <1>2, <1>3 DEF CachedPage
  <2>2. Rows \ Lists!Listed' \subseteq unsteady'
    BY <1>1, <1>2 DEF ListInv, ListTyped
  <2>3. QED
    BY <1>1, <1>2, <2>1, <2>2 DEF ListInv, ListTyped, CachedPage
<1>6. Walked'
  <2>1. again' = {} /\ \A r \in shown' : created'[r] # Lists!Absent
    BY <1>1, <1>2, <1>3, <1>4
  <2>2. CASE cached.more
    <3>1. shown' = cached.rows /\ cursor' = cached.next /\ pc' = "ask" /\ cursor' # Lists!Top
      BY <1>1, <1>3, <1>4, <2>2
    <3>2. OverAll(shown, cursor)'
      BY <1>2, <1>4, <2>2, <3>1 DEF OverAll, Under
    <3>3. RestUnder(unsteady \cup shown, cursor)'
      BY <1>1, <1>2, <1>4, <2>2, <3>1 DEF RestUnder, Under
    <3>4. QED
      BY <2>1, <3>1, <3>2, <3>3 DEF Walked
  <2>3. CASE ~cached.more
    <3>1. pc' = "end" /\ Lists!There' \subseteq unsteady' \cup shown'
      BY <1>1, <1>2, <1>4, <2>3
    <3>2. QED
      BY <2>1, <3>1 DEF Walked
  <2>4. QED
    BY <2>2, <2>3
<1>7. Counted'
  BY <1>1, <1>2 DEF Counted
<1>8. QED
  BY <1>2, <1>5, <1>6, <1>7 DEF ListInv

(* What another client's page leaves of this one's walk.                   *)
LEMMA WalkStays ==
  ASSUME ListInv, UNCHANGED <<Lists!table, pc, cursor, request, Lists!history>>,
         cached' = Lists!NoPage \/ (list = "tagged" /\ cached' \in CachedPage), CachedFirst'
  PROVE  ListInv'
<1>1. /\ UNCHANGED <<list, created, visibility, pc, cursor, request, shown, again, unsteady, shifted>>
      /\ Lists!There' = Lists!There /\ Lists!Listed' = Lists!Listed
  BY TableStays DEF Lists!history
<1>2. ListTyped'
  BY <1>1 DEF ListInv, ListTyped, CachedPage
<1>3. Walked'
  <2>1. OverAll(shown, cursor)' <=> OverAll(shown, cursor)
    BY <1>1 DEF OverAll, Under
  <2>2. RestUnder(unsteady \cup shown, cursor)' <=> RestUnder(unsteady \cup shown, cursor)
    BY <1>1 DEF RestUnder, Under
  <2>3. QED
    BY <1>1, <2>1, <2>2 DEF ListInv, Walked
<1>4. Counted'
  <2>1. \A r : Lists!Tied(r)' <=> Lists!Tied(r)
    BY <1>1 DEF Lists!Tied
  <2>2. \A x, r : Ahead(x, r)' <=> Ahead(x, r)
    BY <1>1 DEF Ahead, Lists!Precedes, Lists!Later
  <2>3. \A r : RowRank(r)' = RowRank(r)
    BY <2>2 DEF RowRank
  <2>4. \A r : CountedRow(r)' <=> CountedRow(r)
    BY <1>1, <2>1, <2>3 DEF CountedRow
  <2>5. \A r : RequestedRow(r)' <=> RequestedRow(r)
    BY <1>1, <2>1, <2>3 DEF RequestedRow, OnPageOf
  <2>6. QED
    BY <1>1, <2>4, <2>5 DEF ListInv, Counted
<1>5. QED
  BY <1>2, <1>3, <1>4 DEF ListInv

LEMMA CacheFills ==
  ASSUME ListSizes, ListInv, Lists!CacheFirstPage PROVE ListInv'
<1> DEFINE S == Lists!Readable({"public"})
<1>1. PICK l \in Limits : \E P \in Lists!GetPostsByHashtagWithCursor(Lists!Top, l + 1) :
        \E Q \in Lists!FirstOf(P, l) :
          cached' = [rows |-> Q, more |-> P # Q, missed |-> Rows \ Lists!Listed, none |-> FALSE,
                     next |-> IF P = Q THEN Lists!Top ELSE Lists!Position(Lists!LastOf(Q))]
  BY DEF Lists!CacheFirstPage
<1>2. PICK P \in Lists!FirstOf(Lists!Below(S, Lists!Top), l + 1) : \E Q \in Lists!FirstOf(P, l) :
          cached' = [rows |-> Q, more |-> P # Q, missed |-> Rows \ Lists!Listed, none |-> FALSE,
                     next |-> IF P = Q THEN Lists!Top ELSE Lists!Position(Lists!LastOf(Q))]
  BY <1>1 DEF Lists!GetPostsByHashtagWithCursor
<1>3. PICK Q \in Lists!FirstOf(P, l) :
          cached' = [rows |-> Q, more |-> P # Q, missed |-> Rows \ Lists!Listed, none |-> FALSE,
                     next |-> IF P = Q THEN Lists!Top ELSE Lists!Position(Lists!LastOf(Q))]
  BY <1>2
<1>4. /\ list = "tagged" /\ list \in Lists!Keyset /\ l \in Nat \ {0} /\ ListTyped
      /\ UNCHANGED <<Lists!table, pc, cursor, request, Lists!history>>
  BY ListLimits DEF Lists!CacheFirstPage, Lists!Keyset, ListInv
<1>5. Lists!Below(S, Lists!Top) = S /\ S = Lists!Listed
  BY <1>4 DEF Lists!Below, Lists!Listed
<1> DEFINE next == Lists!Position(Lists!LastOf(Q))
           more == P # Q
<1>6. /\ Lists!Listed \subseteq Lists!There /\ Lists!There \subseteq Rows
      /\ \A r \in Lists!There : /\ created[r] # Lists!Absent /\ created[r] # Lists!Gone
                                /\ created[r] \in Nat
  BY <1>4, RowsThere
<1>7. /\ Q \subseteq Lists!Listed
      /\ ~more => Q = Lists!Listed
      /\ more => /\ next \in Positions
                 /\ \A r \in Q : ~Under(r, next)
                 /\ \A r \in Lists!Listed \ Q : Under(r, next)
  BY <1>2, <1>3, <1>4, <1>5, <1>6, PageAndMore
<1>8. /\ cached'.rows = Q /\ cached'.more = more /\ cached'.missed = Rows \ Lists!Listed
      /\ cached'.none = FALSE /\ cached'.next = IF more THEN next ELSE Lists!Top
      /\ cached' \in [rows : {Q}, more : {more}, missed : {Rows \ Lists!Listed}, none : {FALSE},
                      next : {IF more THEN next ELSE Lists!Top}]
  BY <1>3
<1> HIDE DEF next, S
<1>9. cached' \in CachedPage
  <2>1. more \in BOOLEAN /\ Q \in SUBSET Rows /\ (IF more THEN next ELSE Lists!Top) \in Positions \cup {Lists!Top}
    BY <1>6, <1>7
  <2>2. QED
    BY <1>8, <2>1 DEF CachedPage
<1>10. /\ Lists!There' = Lists!There /\ Lists!Listed' = Lists!Listed /\ created' = created
  BY <1>4, TableStays
<1>11. CachedFirst'
  <2>1. Rows \ Lists!Listed' \subseteq cached'.missed /\ \A r \in cached'.rows : created'[r] # Lists!Absent
    BY <1>6, <1>7, <1>8, <1>10
  <2>2. CASE more
    <3>0. cached'.next = next /\ next # Lists!Top
      <4>1. \A a, b : <<a, b>> # <<>>
        OBVIOUS
      <4>2. QED
        BY <1>8, <2>2, <4>1, Zenon DEF next, Lists!Position, Lists!Top
    <3>1. OverAll(cached.rows, cached.next)'
      BY <1>6, <1>7, <1>8, <1>10, <2>2, <3>0 DEF OverAll, Under
    <3>2. RestUnder(cached.missed \cup cached.rows, cached.next)'
      <4>1. \A r \in Lists!There \ (cached'.missed \cup cached'.rows) : Under(r, next)
        BY <1>6, <1>7, <1>8, <2>2
      <4>2. QED
        BY <1>10, <3>0, <4>1 DEF RestUnder, Under
    <3>3. QED
      BY <1>8, <2>1, <2>2, <3>0, <3>1, <3>2 DEF CachedFirst
  <2>3. CASE ~more
    BY <1>6, <1>7, <1>8, <1>10, <2>1, <2>3 DEF CachedFirst
  <2>4. QED
    BY <2>2, <2>3
<1>12. QED
  BY <1>4, <1>9, <1>11, WalkStays

LEMMA CacheExpires ==
  ASSUME ListInv, Lists!Expire PROVE ListInv'
<1>1. cached' = Lists!NoPage /\ cached'.none
  BY DEF Lists!Expire, Lists!NoPage
<1>2. CachedFirst'
  BY <1>1 DEF CachedFirst
<1>3. QED
  BY <1>1, <1>2, WalkStays DEF Lists!Expire

(* Rows come and go.                                                       *)
Steadily(r) == \/ created[r] = Lists!Absent \/ created'[r] = created[r] \/ created'[r] = Lists!Gone
               \/ list \in Lists!Offset

LEMMA ChangeWalks ==
  ASSUME ListSizes, ListInv, Lists!Change, Lists!Note,
         created' \in [Rows -> Times \cup {Lists!Absent, Lists!Gone}],
         visibility' \in [Rows -> Lists!Visibilities], \A r \in Rows : Steadily(r),
         \A r \in Rows : created[r] # Lists!Absent => created'[r] # Lists!Absent
  PROVE  ListTyped' /\ CachedFirst' /\ Walked'
<1>1. /\ UNCHANGED <<list, asked, pc, cursor, request, shown, again>> /\ pc # "end"
      /\ unsteady' = unsteady \cup (Rows \ Lists!Listed')
      /\ cached' = IF cached.none THEN cached
                   ELSE [cached EXCEPT !.missed = @ \cup (Rows \ Lists!Listed')]
  BY DEF Lists!Change, Lists!Note, Lists!Age
<1>2. cached' = Lists!NoPage \/ (list = "tagged" /\ cached' \in CachedPage)
  <2>1. CASE cached = Lists!NoPage
    BY <1>1, <2>1 DEF Lists!NoPage
  <2>2. CASE cached \in CachedPage /\ list = "tagged"
    <3>1. ~cached.none
      BY <2>2 DEF CachedPage
    <3>2. QED
      BY <1>1, <2>2, <3>1 DEF CachedPage
  <2>3. QED
    BY <2>1, <2>2 DEF ListInv, ListTyped
<1>3. ListTyped'
  <2>1. ListTyped
    BY DEF ListInv
  <2>2. Rows \ Lists!Listed' \subseteq unsteady'
    BY <1>1
  <2>3. /\ list' \in Lists!Keyset \cup Lists!Offset /\ pc' \in {"ask", "allowed", "counting", "end"}
        /\ pc' = "allowed" => list' = "posts"
        /\ pc' = "counting" => list' \in Lists!Offset /\ request'.rows \subseteq Rows
        /\ pc' \in {"allowed", "counting"} => request'.limit \in Limits
        /\ cursor' \in IF list' \in Lists!Keyset THEN Positions \cup {Lists!Top} ELSE Nat
        /\ shown' \subseteq Rows /\ again' \subseteq shown'
    BY <1>1, <2>1 DEF ListTyped
  <2>4. cached' = Lists!NoPage \/ (list' = "tagged" /\ cached' \in CachedPage')
    BY <1>1, <1>2 DEF CachedPage
  <2>5. QED
    BY <2>2, <2>3, <2>4 DEF ListTyped
\* A row that is there, and was there all along, is where it was.
<1>4. ASSUME list \in Lists!Keyset, NEW r \in Rows, r \in Lists!There', NEW pos,
             r \in Lists!Listed \/ created[r] # Lists!Absent
      PROVE  r \in Lists!There /\ created'[r] = created[r] /\ (Under(r, pos)' <=> Under(r, pos))
  <2>1. created'[r] \in Times /\ created'[r] # Lists!Gone /\ created[r] # Lists!Absent
    BY <1>3, <1>4, RowsThere DEF ListInv, Lists!There, ListSizes
  <2>2. created'[r] = created[r]
    BY <1>4, <2>1, KeysetApart DEF Steadily
  <2>3. QED
    BY <1>4, <2>1, <2>2, RowsThere DEF Under, ListInv
<1>7. Rows \ Lists!Listed \subseteq unsteady /\ unsteady \subseteq unsteady' /\ shown \subseteq Rows
  BY <1>1 DEF ListInv, ListTyped
<1>8. Walked'
  <2> SUFFICES ASSUME list \in Lists!Keyset PROVE Walked'
    BY <1>1 DEF Walked
  <2>1. /\ again = {} /\ \A r \in shown : created[r] # Lists!Absent
        /\ IF cursor = Lists!Top THEN shown = {} ELSE OverAll(shown, cursor)
        /\ RestUnder(unsteady \cup shown, cursor)
    BY <1>1 DEF ListInv, Walked
  <2>2. \A r \in shown' : created'[r] # Lists!Absent
    BY <1>1, <1>7, <2>1
  <2>3. RestUnder(unsteady \cup shown, cursor)'
    <3> DEFINE T == unsteady' \cup shown
               c == cursor
    <3>1. unsteady \cup shown \subseteq T /\ Rows \ Lists!Listed \subseteq unsteady \cup shown
      BY <1>7
    <3> HIDE DEF T
    <3>2. \A pos : RestUnder(unsteady \cup shown, pos) => \A r \in Lists!There' \ T : Under(r, pos)'
      <4> TAKE pos
      <4> SUFFICES ASSUME RestUnder(unsteady \cup shown, pos), NEW r \in Lists!There' \ T
                   PROVE  Under(r, pos)'
        OBVIOUS
      <4>1. r \in Rows /\ r \in Lists!Listed
        BY <1>3, <3>1, RowsThere DEF Lists!There
      <4>2. r \in Lists!There /\ (Under(r, pos)' <=> Under(r, pos))
        BY <1>4, <4>1
      <4>3. QED
        BY <3>1, <4>2 DEF RestUnder
    <3>3. QED
      BY <1>1, <2>1, <3>2 DEF RestUnder, T, Under
  <2>4. IF cursor' = Lists!Top THEN shown' = {} ELSE (OverAll(shown, cursor))'
    <3>1. CASE cursor = Lists!Top
      BY <1>1, <2>1, <3>1
    <3>2. CASE cursor # Lists!Top
      <4>1. OverAll(shown, cursor)
        BY <2>1, <3>2
      <4>2. \A r \in shown : /\ created'[r] # Lists!Absent
                             /\ created'[r] = created[r] \/ created'[r] = Lists!Gone
        BY <1>7, <2>1, KeysetApart DEF Steadily
      <4>3. (OverAll(shown, cursor))'
        BY <1>1, <4>1, <4>2 DEF OverAll, Under
      <4>4. QED
        BY <1>1, <3>2, <4>3
    <3>3. QED
      BY <3>1, <3>2
  <2>5. QED
    BY <1>1, <2>1, <2>2, <2>3, <2>4 DEF Walked
<1>9. CachedFirst'
  <2> SUFFICES ASSUME ~cached'.none PROVE CachedFirst'
    BY DEF CachedFirst
  <2>1. cached \in CachedPage /\ list \in Lists!Keyset /\ ~cached.none
    <3>1. cached # Lists!NoPage
      BY <1>1 DEF Lists!NoPage
    <3>2. cached \in CachedPage /\ list = "tagged"
      BY <3>1 DEF ListInv, ListTyped
    <3>3. QED
      BY <3>2 DEF CachedPage, Lists!Keyset
  <2>2. /\ cached'.rows = cached.rows /\ cached'.more = cached.more /\ cached'.next = cached.next
        /\ cached'.missed = cached.missed \cup (Rows \ Lists!Listed') /\ cached.rows \subseteq Rows
    BY <1>1, <2>1 DEF CachedPage
  <2>3. /\ Rows \ Lists!Listed \subseteq cached.missed
        /\ \A r \in cached.rows : created[r] # Lists!Absent
        /\ cached.more => /\ cached.next # Lists!Top /\ OverAll(cached.rows, cached.next)
                          /\ RestUnder(cached.missed \cup cached.rows, cached.next)
        /\ ~cached.more => Lists!There \subseteq cached.missed \cup cached.rows
    BY <2>1 DEF ListInv, CachedFirst
  <2>4. \A r \in cached'.rows : created'[r] # Lists!Absent
    BY <2>2, <2>3
  <2>5. ASSUME NEW r \in Lists!There' \ (cached'.missed \cup cached'.rows)
        PROVE  r \in Lists!There \ (cached.missed \cup cached.rows) /\ created'[r] = created[r]
    <3>1. r \in Rows /\ r \in Lists!Listed
      BY <1>3, <2>2, <2>3, RowsThere DEF Lists!There
    <3>2. QED
      BY <1>4, <2>1, <2>2, <3>1
  <2>6. CASE cached.more
    <3>1. OverAll(cached.rows, cached.next)'
      <4>1. \A r \in cached.rows : /\ created'[r] # Lists!Absent
                                   /\ created'[r] = created[r] \/ created'[r] = Lists!Gone
        BY <2>1, <2>2, <2>3, KeysetApart DEF Steadily
      <4>2. QED
        BY <2>2, <2>3, <2>6, <4>1 DEF OverAll, Under
    <3>2. RestUnder(cached.missed \cup cached.rows, cached.next)'
      BY <2>2, <2>3, <2>5, <2>6 DEF RestUnder, Under
    <3>3. QED
      BY <2>2, <2>3, <2>4, <2>6, <3>1, <3>2 DEF CachedFirst
  <2>7. CASE ~cached.more
    BY <2>2, <2>3, <2>4, <2>5, <2>7 DEF CachedFirst
  <2>8. QED
    BY <2>6, <2>7
<1>10. QED
  BY <1>3, <1>8, <1>9

\* What a change leaves where it is.
Unmoved(r) ==
  /\ created'[r] = created[r] /\ (r \in Lists!Listed' <=> r \in Lists!Listed)
  /\ \A x \in Rows : Ahead(x, r)' <=> Ahead(x, r)
  /\ Lists!Tied(r) => Lists!Tied(r)'

LEMMA ChangeCounts ==
  ASSUME ListSizes, ListInv, Lists!Change, Lists!Note, shifted \subseteq shifted',
         list \in Lists!Offset => \A r \in Lists!There \ shifted' : Unmoved(r)
  PROVE  Counted'
<1>1. /\ UNCHANGED <<list, asked, pc, cursor, request, shown, again>> /\ pc # "end"
      /\ unsteady \subseteq unsteady'
  BY DEF Lists!Change, Lists!Note
<1> SUFFICES ASSUME list \in Lists!Offset, NEW r \in Rows \ shifted'
             PROVE  CountedRow(r)' /\ (pc = "counting" => RequestedRow(r)')
  BY <1>1 DEF Counted
<1>2. CountedRow(r) /\ (pc = "counting" => RequestedRow(r)) /\ Rows \ Lists!Listed \subseteq unsteady
  BY DEF ListInv, Counted, ListTyped
<1>3. CASE r \in Lists!There
  <2>1. Unmoved(r)
    BY <1>3
  <2>2. RowRank(r)' = RowRank(r)
    BY <2>1 DEF RowRank, Unmoved
  <2>3. CountedRow(r)'
    BY <1>1, <1>2, <2>1, <2>2 DEF CountedRow, Unmoved
  <2>4. pc = "counting" => RequestedRow(r)'
    BY <1>1, <1>2, <2>1, <2>2 DEF RequestedRow, OnPageOf, Unmoved
  <2>5. QED
    BY <2>3, <2>4
<1>4. CASE r \notin Lists!There
  <2>1. r \notin Lists!Listed /\ r \in unsteady
    BY <1>2, <1>4, RowsThere DEF ListInv
  <2>2. r \notin shown \cup again /\ (pc = "counting" => r \notin request.rows)
    BY <1>2, <2>1 DEF CountedRow, RequestedRow
  <2>3. QED
    BY <1>1, <2>1, <2>2 DEF CountedRow, RequestedRow
<1>5. QED
  BY <1>3, <1>4

(* Which rows a list at an offset has.                                     *)
LEMMA OffsetLists ==
  ASSUME list \in Lists!Offset
  PROVE  Lists!Listed = {r \in Lists!There : list = "found" => visibility[r] = "public"}
<1>1. list # "posts" /\ list \notin {"discover", "tagged"}
  BY DEF Lists!Offset, Lists!Searched
<1>2. CASE list = "found"
  BY <1>1, <1>2 DEF Lists!Listed, Lists!Readable
<1>3. CASE list # "found"
  BY <1>1, <1>3 DEF Lists!Listed
<1>4. QED
  BY <1>2, <1>3

(* A row keeps its place unless one that is written was, or is to be,      *)
(* before it, or with it.                                                  *)
LEMMA RowStays ==
  ASSUME ListSizes, ListTyped, list \in Lists!Offset, list' = list,
         NEW w \in Rows, NEW r \in Lists!There, r # w,
         created'[r] = created[r], created'[w] \in Int,
         visibility'[r] = visibility[r],
         \A x \in Rows : x # w => created'[x] = created[x] /\ visibility'[x] = visibility[x],
         \/ /\ w \in Lists!There => created[w] < created[r]
            /\ created'[w] \in Times => created'[w] < created[r]
         \/ /\ w \in Lists!There /\ created[w] > created[r]
            /\ created'[w] \in Times /\ created'[w] > created[r] /\ visibility'[w] = visibility[w]
  PROVE  Unmoved(r)
<1>1. /\ created[r] \in Nat /\ created[r] \in Times /\ created[w] \in Int /\ Times \subseteq Nat
      /\ \A x \in Rows : x \in Lists!There <=> created[x] \in Times
  BY RowsThere DEF ListSizes
<1>2. \A x \in Rows : x \in Lists!There' <=> created'[x] \in Times
  BY DEF Lists!There
<1> DEFINE Here(x) == created[x] \in Times /\ (list = "found" => visibility[x] = "public")
           Then(x) == created'[x] \in Times /\ (list = "found" => visibility'[x] = "public")
<1>0. \A x \in Rows : (x \in Lists!Listed <=> Here(x)) /\ (x \in Lists!Listed' <=> Then(x))
  <2>1. \A x \in Rows : x \in Lists!Listed <=> Here(x)
    BY <1>1, OffsetLists
  <2>2. list' # "posts" /\ list' \notin {"discover", "tagged"}
    BY DEF Lists!Offset, Lists!Searched
  <2>3. CASE list = "found"
    <3>1. Lists!Listed' = Lists!Readable({"public"})'
      BY <2>2, <2>3 DEF Lists!Listed
    <3>2. \A x \in Rows : x \in Lists!Listed' <=> Then(x)
      BY <1>2, <2>3, <3>1 DEF Lists!Readable
    <3>3. QED
      BY <2>1, <3>2
  <2>4. CASE list # "found"
    <3>1. Lists!Listed' = Lists!There'
      BY <2>2, <2>4 DEF Lists!Listed
    <3>2. QED
      BY <1>2, <2>1, <2>4, <3>1
  <2>5. QED
    BY <2>3, <2>4
<1>3. \A x \in Rows : x # w => (x \in Lists!Listed' <=> x \in Lists!Listed)
  BY <1>0
<1>4. \A x \in Rows : x # w => (Lists!Precedes(x, r)' <=> Lists!Precedes(x, r))
  BY DEF Lists!Precedes, Lists!Later
<1>5. Ahead(w, r)' <=> Ahead(w, r)
  <2>1. CASE /\ w \in Lists!There => created[w] < created[r]
             /\ created'[w] \in Times => created'[w] < created[r]
    <3>1. ~Ahead(w, r)
      BY <1>0, <1>1, <2>1 DEF Ahead, Lists!Precedes, Lists!Later
    <3>2. ~Ahead(w, r)'
      BY <1>0, <1>1, <2>1 DEF Ahead, Lists!Precedes, Lists!Later
    <3>3. QED
      BY <3>1, <3>2
  <2>2. CASE /\ w \in Lists!There /\ created[w] > created[r]
             /\ created'[w] \in Times /\ created'[w] > created[r] /\ visibility'[w] = visibility[w]
    <3>1. (w \in Lists!Listed' <=> w \in Lists!Listed)
      BY <1>0, <1>1, <2>2
    <3>2. Lists!Precedes(w, r) /\ Lists!Precedes(w, r)'
      BY <2>2 DEF Lists!Precedes, Lists!Later
    <3>3. QED
      BY <3>1, <3>2 DEF Ahead
  <2>3. QED
    BY <2>1, <2>2
<1>6. \A x \in Rows : Ahead(x, r)' <=> Ahead(x, r)
  BY <1>3, <1>4, <1>5 DEF Ahead
<1>7. Lists!Tied(r) => Lists!Tied(r)'
  <2>1. created[w] # created[r]
    BY <1>1
  <2>2. QED
    BY <2>1 DEF Lists!Tied
<1>8. r \in Rows
  BY RowsThere
<1>9. QED
  BY <1>3, <1>6, <1>7, <1>8 DEF Unmoved

LEMMA RowsComeAndGo ==
  ASSUME ListSizes, ListInv, NEW r \in Rows,
         \/ Lists!Delete(r) \/ \E v \in Lists!Visibilities : Lists!SetVisibility(r, v)
         \/ \E t \in Times : Lists!Insert(r, t) \/ Lists!Rerank(r, t)
  PROVE  ListInv'
<1>1. /\ ListTyped /\ created \in [Rows -> Times \cup {Lists!Absent, Lists!Gone}]
      /\ visibility \in [Rows -> Lists!Visibilities] /\ Times \subseteq Nat
      /\ \A x \in Lists!There : x \in Rows /\ created[x] \in Nat
      /\ \A x \in Rows : created[x] \in Int
      /\ Lists!Absent \in Int /\ Lists!Gone \in Int /\ Lists!Absent # Lists!Gone
      /\ Lists!Absent \notin Times /\ Lists!Gone \notin Times
  <2>1. ListTyped
    BY DEF ListInv
  <2>2. Lists!Absent \in Int /\ Lists!Gone \in Int
    BY DEF Lists!Absent, Lists!Gone
  <2>3. QED
    BY <2>1, <2>2, RowsThere DEF ListTyped, ListSizes
<1>2. ASSUME NEW t \in Times, Lists!Insert(r, t) PROVE ListInv'
  <2>1. /\ Lists!Change /\ Lists!Note /\ created[r] = Lists!Absent
        /\ created' = [created EXCEPT ![r] = t]
        /\ shifted' = shifted \cup {x \in Lists!There : t >= created[x]}
        /\ UNCHANGED <<visibility, viewer>> /\ list' = list
    BY <1>2 DEF Lists!Insert, Lists!Change
  <2>2. /\ created'[r] = t /\ \A x \in Rows : x # r => created'[x] = created[x]
        /\ created' \in [Rows -> Times \cup {Lists!Absent, Lists!Gone}] /\ t \in Nat
    BY <1>1, <2>1
  <2>3. ListTyped' /\ CachedFirst' /\ Walked'
    <3>1. \A x \in Rows : Steadily(x)
      BY <2>1, <2>2 DEF Steadily
    <3>2. \A x \in Rows : created[x] # Lists!Absent => created'[x] # Lists!Absent
      BY <2>1, <2>2
    <3>3. visibility' \in [Rows -> Lists!Visibilities]
      BY <1>1, <2>1
    <3>4. QED
      BY <2>1, <2>2, <3>1, <3>2, <3>3, ChangeWalks
  <2>4. Counted'
    <3>1. ASSUME list \in Lists!Offset, NEW x \in Lists!There \ shifted' PROVE Unmoved(x)
      <4>1. x \in Rows /\ x # r /\ t < created[x] /\ r \notin Lists!There
        BY <1>1, <2>1, <2>2, <3>1 DEF Lists!There
      <4>2. QED
        BY <1>1, <2>1, <2>2, <3>1, <4>1, RowStays
    <3>2. shifted \subseteq shifted'
      BY <2>1
    <3>3. QED
      BY <2>1, <3>1, <3>2, ChangeCounts
  <2>5. QED
    BY <2>3, <2>4 DEF ListInv
<1>3. ASSUME Lists!Delete(r) PROVE ListInv'
  <2>1. /\ Lists!Change /\ Lists!Note /\ r \in Lists!There
        /\ created' = [created EXCEPT ![r] = Lists!Gone]
        /\ shifted' = shifted \cup {x \in Lists!There : created[r] >= created[x]}
        /\ UNCHANGED <<visibility, viewer>> /\ list' = list
    BY <1>3 DEF Lists!Delete, Lists!Change
  <2>2. /\ created'[r] = Lists!Gone /\ \A x \in Rows : x # r => created'[x] = created[x]
        /\ created' \in [Rows -> Times \cup {Lists!Absent, Lists!Gone}]
    BY <1>1, <2>1
  <2>3. ListTyped' /\ CachedFirst' /\ Walked'
    <3>1. \A x \in Rows : Steadily(x)
      BY <2>1, <2>2 DEF Steadily
    <3>2. \A x \in Rows : created[x] # Lists!Absent => created'[x] # Lists!Absent
      BY <1>1, <2>1, <2>2
    <3>3. visibility' \in [Rows -> Lists!Visibilities]
      BY <1>1, <2>1
    <3>4. QED
      BY <2>1, <2>2, <3>1, <3>2, <3>3, ChangeWalks
  <2>4. Counted'
    <3>1. ASSUME list \in Lists!Offset, NEW x \in Lists!There \ shifted' PROVE Unmoved(x)
      <4>1. x \in Rows /\ x # r /\ created[r] < created[x]
        BY <1>1, <2>1, <2>2, <3>1
      <4>2. created'[r] \notin Times /\ created'[r] \in Int
        BY <1>1, <2>2
      <4>3. QED
        BY <1>1, <2>1, <2>2, <3>1, <4>1, <4>2, RowStays
    <3>2. shifted \subseteq shifted'
      BY <2>1
    <3>3. QED
      BY <2>1, <3>1, <3>2, ChangeCounts
  <2>5. QED
    BY <2>3, <2>4 DEF ListInv
<1>4. ASSUME NEW v \in Lists!Visibilities, Lists!SetVisibility(r, v) PROVE ListInv'
  <2>1. /\ Lists!Change /\ Lists!Note /\ r \in Lists!There /\ list \in Lists!OfPosts
        /\ visibility' = [visibility EXCEPT ![r] = v]
        /\ shifted' = IF list = "found" THEN shifted \cup {x \in Lists!There : created[r] >= created[x]}
                      ELSE shifted
        /\ UNCHANGED <<created, viewer>> /\ list' = list
    BY <1>4 DEF Lists!SetVisibility, Lists!Change
  <2>2. /\ \A x \in Rows : x # r => visibility'[x] = visibility[x]
        /\ visibility' \in [Rows -> Lists!Visibilities]
    BY <1>1, <2>1
  <2>3. ListTyped' /\ CachedFirst' /\ Walked'
    <3>1. \A x \in Rows : Steadily(x)
      BY <2>1 DEF Steadily
    <3>2. \A x \in Rows : created[x] # Lists!Absent => created'[x] # Lists!Absent
      BY <2>1
    <3>3. created' \in [Rows -> Times \cup {Lists!Absent, Lists!Gone}]
      BY <1>1, <2>1
    <3>4. QED
      BY <2>1, <2>2, <3>1, <3>2, <3>3, ChangeWalks
  <2>4. Counted'
    <3>1. ASSUME list \in Lists!Offset, NEW x \in Lists!There \ shifted' PROVE Unmoved(x)
      <4>1. list = "found"
        BY <2>1, <3>1 DEF Lists!OfPosts, Lists!Offset, Lists!Searched
      <4>2. x \in Rows /\ x # r /\ created[r] < created[x] /\ created'[r] = created[r]
        BY <1>1, <2>1, <3>1, <4>1
      <4>3. QED
        BY <1>1, <2>1, <2>2, <3>1, <4>2, RowStays
    <3>2. shifted \subseteq shifted'
      BY <2>1
    <3>3. QED
      BY <2>1, <3>1, <3>2, ChangeCounts
  <2>5. QED
    BY <2>3, <2>4 DEF ListInv
<1>5. ASSUME NEW t \in Times, Lists!Rerank(r, t) PROVE ListInv'
  <2>1. /\ Lists!Change /\ Lists!Note /\ r \in Lists!There /\ list \in Lists!Searched
        /\ t # created[r] /\ created' = [created EXCEPT ![r] = t]
        /\ shifted' = shifted \cup {x \in Lists!There : Lists!Between(x, t, created[r])}
        /\ UNCHANGED <<visibility, viewer>> /\ list' = list
    BY <1>5 DEF Lists!Rerank, Lists!Change
  <2>2. /\ created'[r] = t /\ \A x \in Rows : x # r => created'[x] = created[x]
        /\ created' \in [Rows -> Times \cup {Lists!Absent, Lists!Gone}] /\ t \in Nat
        /\ created[r] \in Nat /\ list \in Lists!Offset
    BY <1>1, <2>1 DEF Lists!Offset
  <2>3. ListTyped' /\ CachedFirst' /\ Walked'
    <3>1. \A x \in Rows : Steadily(x)
      BY <2>2 DEF Steadily
    <3>2. \A x \in Rows : created[x] # Lists!Absent => created'[x] # Lists!Absent
      BY <1>1, <2>1, <2>2
    <3>3. visibility' \in [Rows -> Lists!Visibilities]
      BY <1>1, <2>1
    <3>4. QED
      BY <2>1, <2>2, <3>1, <3>2, <3>3, ChangeWalks
  <2>4. Counted'
    <3>1. ASSUME list \in Lists!Offset, NEW x \in Lists!There \ shifted' PROVE Unmoved(x)
      <4>1. x \in Rows /\ created[x] \in Nat /\ ~Lists!Between(x, t, created[r])
        BY <1>1, <2>1, <3>1
      <4>2. \/ created[r] < created[x] /\ t < created[x]
            \/ created[r] > created[x] /\ t > created[x]
        BY <2>2, <4>1 DEF Lists!Between
      <4>3. x # r
        BY <2>2, <4>1, <4>2
      <4>4. QED
        BY <1>1, <2>1, <2>2, <3>1, <4>1, <4>2, <4>3, RowStays
    <3>2. shifted \subseteq shifted'
      BY <2>1
    <3>3. QED
      BY <2>1, <3>1, <3>2, ChangeCounts
  <2>5. QED
    BY <2>3, <2>4 DEF ListInv
<1>6. QED
  BY <1>2, <1>3, <1>4, <1>5

LEMMA ViewerChanges ==
  ASSUME ListSizes, ListInv, Lists!FollowOrUnfollow PROVE ListInv'
<1>1. /\ Lists!Change /\ Lists!Note /\ list = "posts" /\ list' = list
      /\ UNCHANGED <<created, visibility, shifted>> /\ list \notin Lists!Offset
  BY DEF Lists!FollowOrUnfollow, Lists!Change, Lists!Offset, Lists!Searched
<1>2. ListTyped' /\ CachedFirst' /\ Walked'
  <2>1. \A x \in Rows : Steadily(x)
    BY <1>1 DEF Steadily
  <2>2. QED
    BY <1>1, <2>1, ChangeWalks DEF ListInv, ListTyped
<1>3. QED
  BY <1>1, <1>2 DEF ListInv, Counted

(* Two rows of which one is not tied are in an order.                      *)
LEMMA Untied ==
  ASSUME ListSizes, ListTyped, NEW r \in Lists!There, NEW x \in Lists!There, x # r, ~Lists!Tied(r)
  PROVE  Lists!Precedes(x, r) <=> ~Lists!Precedes(r, x)
<1>1. x \in Nat /\ r \in Nat /\ created[x] \in Nat /\ created[r] \in Nat /\ x \in Rows
  BY RowsThere
<1>2. CASE list \in Lists!Unsettled
  <2>1. created[x] # created[r]
    BY <1>1, <1>2 DEF Lists!Tied
  <2>2. QED
    BY <1>1, <1>2, <2>1 DEF Lists!Precedes, Lists!Later
<1>3. CASE list \notin Lists!Unsettled
  BY <1>1, <1>3 DEF Lists!Precedes, Lists!Later
<1>4. QED
  BY <1>2, <1>3

(* What LIMIT takes, by how many are before a row; and what it leaves.     *)
RankIn(S, r) == Cardinality({x \in S : Lists!Precedes(x, r)})

LEMMA FirstByRank ==
  ASSUME ListSizes, ListTyped, NEW S, S \subseteq Lists!There, NEW n \in Nat,
         NEW D, D \in Lists!FirstOf(S, n), NEW r \in S, ~Lists!Tied(r)
  PROVE  /\ RankIn(S, r) \in Nat
         /\ r \in D <=> RankIn(S, r) < n
         /\ r \notin D => RankIn(S \ D, r) = RankIn(S, r) - n
<1> DEFINE B == {x \in S : Lists!Precedes(x, r)}
<1>0. IsFiniteSet(S)
  BY RowsThere, FS_Subset DEF ListSizes
<1>1. /\ D \subseteq S /\ IsFiniteSet(D)
      /\ Cardinality(S) \in Nat /\ Cardinality(D) \in Nat
      /\ Cardinality(S) <= n => D = S
      /\ Cardinality(S) >= n => Cardinality(D) = n
      /\ \A x \in D, y \in S \ D : ~Lists!Precedes(y, x)
  BY <1>0, FirstTakes
<1>2. \A x \in S \ {r} : Lists!Precedes(x, r) <=> ~Lists!Precedes(r, x)
  BY Untied
<1>3. ~Lists!Precedes(r, r)
  <2>1. created[r] \in Nat /\ r \in Nat
    BY RowsThere
  <2>2. QED
    BY <2>1 DEF Lists!Precedes, Lists!Later
<1>4. IsFiniteSet(B) /\ Cardinality(B) \in Nat
  BY <1>0, FS_Subset, FS_CardinalityType
<1>5. ASSUME r \in D PROVE Cardinality(B) < n
  <2>1. B \subseteq D \ {r}
    BY <1>1, <1>3, <1>5
  <2>2. /\ IsFiniteSet(D \ {r}) /\ Cardinality(D \ {r}) = Cardinality(D) - 1
    BY <1>1, <1>5, FS_RemoveElement
  <2>3. Cardinality(B) <= Cardinality(D) - 1
    BY <2>1, <2>2, FS_Subset
  <2>4. Cardinality(D) <= n
    BY <1>1
  <2>5. QED
    BY <1>1, <1>4, <2>3, <2>4
<1>6. ASSUME r \notin D
      PROVE  ~(Cardinality(B) < n) /\ Cardinality({x \in S \ D : Lists!Precedes(x, r)}) = Cardinality(B) - n
  <2>1. D \subseteq B
    BY <1>1, <1>2, <1>6
  <2>2. Cardinality(D) = n
    BY <1>1, <1>6
  <2>3. Cardinality(D) <= Cardinality(B)
    BY <1>4, <2>1, FS_Subset
  <2>4. {x \in S \ D : Lists!Precedes(x, r)} = B \ D
    OBVIOUS
  <2>5. Cardinality(B \ D) = Cardinality(B) - Cardinality(B \cap D) /\ B \cap D = D
    BY <1>4, <2>1, FS_Difference
  <2>6. QED
    BY <1>4, <2>2, <2>3, <2>4, <2>5
<1>7. QED
  BY <1>4, <1>5, <1>6 DEF RankIn

(* LIMIT and OFFSET, by rank.                                              *)
LEMMA SliceByRank ==
  ASSUME ListSizes, ListTyped, NEW o \in Nat, NEW l \in Nat, NEW P, P \in Lists!Slice(Lists!Listed, o, l)
  PROVE  /\ P \subseteq Lists!Listed
         /\ \A r \in Lists!Listed : ~Lists!Tied(r) => (r \in P <=> OnPageOf(r, o, l))
         /\ Cardinality(P) < l => Cardinality(Lists!Listed) <= o + l
<1> DEFINE S == Lists!Listed
<1>0. S \subseteq Lists!There /\ S \subseteq Rows /\ IsFiniteSet(S) /\ Cardinality(S) \in Nat
  <2>1. S \subseteq Lists!There /\ S \subseteq Rows
    BY RowsThere
  <2>2. QED
    BY <2>1, FS_Subset, FS_CardinalityType DEF ListSizes
<1>1. PICK D \in Lists!FirstOf(S, o) : P \in Lists!FirstOf(S \ D, l)
  BY DEF Lists!Slice
<1> HIDE DEF S
<1>2. /\ D \subseteq S /\ IsFiniteSet(D) /\ Cardinality(D) \in Nat
      /\ Cardinality(S) <= o => D = S
      /\ Cardinality(S) >= o => Cardinality(D) = o
  BY <1>0, <1>1, FirstTakes
<1>3. IsFiniteSet(S \ D) /\ S \ D \subseteq Lists!There
  BY <1>0, FS_Difference
<1>4. /\ P \subseteq S \ D /\ Cardinality(S \ D) \in Nat /\ Cardinality(P) \in Nat
      /\ Cardinality(S \ D) <= l => P = S \ D
      /\ Cardinality(S \ D) >= l => Cardinality(P) = l
  BY <1>1, <1>3, FirstTakes
<1>5. ASSUME NEW r \in S, ~Lists!Tied(r) PROVE r \in P <=> OnPageOf(r, o, l)
  <2>1. /\ RankIn(S, r) \in Nat /\ (r \in D <=> RankIn(S, r) < o)
        /\ r \notin D => RankIn(S \ D, r) = RankIn(S, r) - o
    BY <1>0, <1>1, <1>5, FirstByRank
  <2>2. r \notin D => (r \in P <=> RankIn(S \ D, r) < l)
    <3> DEFINE T == S \ D
    <3>1. T \subseteq Lists!There /\ P \in Lists!FirstOf(T, l) /\ (r \notin D => r \in T)
      BY <1>1, <1>3
    <3> HIDE DEF T
    <3>2. r \in T => (r \in P <=> RankIn(T, r) < l)
      BY <1>5, <3>1, FirstByRank
    <3>3. QED
      BY <3>1, <3>2 DEF T
  <2>3. RowRank(r) = RankIn(S, r)
    <3>1. {x \in Rows : Ahead(x, r)} = {x \in S : Lists!Precedes(x, r)}
      BY <1>0 DEF Ahead, S
    <3>2. QED
      BY <3>1 DEF RowRank, RankIn
  <2>4. CASE r \in D
    BY <1>4, <2>1, <2>3, <2>4 DEF OnPageOf
  <2>5. CASE r \notin D
    BY <1>4, <2>1, <2>2, <2>3, <2>5 DEF OnPageOf
  <2>6. QED
    BY <2>4, <2>5
<1>6. ASSUME Cardinality(P) < l PROVE Cardinality(S) <= o + l
  <2>1. Cardinality(S \ D) < l
    BY <1>4, <1>6
  <2>2. Cardinality(S \ D) = Cardinality(S) - Cardinality(S \cap D) /\ S \cap D = D
    BY <1>0, <1>2, FS_Difference
  <2>3. Cardinality(S \ D) = Cardinality(S) - Cardinality(D)
    BY <2>2
  <2>4. Cardinality(D) <= o
    BY <1>0, <1>2
  <2>5. QED
    BY <1>0, <1>2, <1>4, <2>1, <2>3, <2>4
<1>7. QED
  BY <1>4, <1>5, <1>6 DEF S

(* A page of follows or users is read; then the total is, and both are     *)
(* answered.                                                               *)
LEMMA PageReads ==
  ASSUME ListSizes, ListInv, list \in Lists!Offset, pc = "ask", NEW l \in Limits,
         NEW P, P \in Lists!Slice(Lists!Listed, cursor, l), Lists!AskPage(l, P)
  PROVE  ListInv'
<1>1. /\ request' = [limit |-> l, allowed |-> {}, rows |-> P] /\ pc' = "counting"
      /\ UNCHANGED <<Lists!table, cached, cursor, shown, again, unsteady, shifted>>
      /\ l \in Nat \ {0} /\ cursor \in Nat /\ ListTyped /\ list \notin Lists!Keyset
  BY ListLimits, KeysetApart DEF Lists!AskPage, Lists!history, ListInv, ListTyped
<1>2. /\ Lists!There' = Lists!There /\ Lists!Listed' = Lists!Listed
      /\ UNCHANGED <<list, created, visibility>> /\ CachedFirst'
  BY <1>1, TableStays, CachedStays
<1>3. /\ P \subseteq Lists!Listed
      /\ \A r \in Lists!Listed : ~Lists!Tied(r) => (r \in P <=> OnPageOf(r, cursor, l))
  BY <1>1, SliceByRank
<1>4. request'.limit = l /\ request'.rows = P /\ P \subseteq Rows
  BY <1>1, <1>3, RowsThere
<1>5. ListTyped'
  BY <1>1, <1>2, <1>4 DEF ListTyped, CachedPage
<1>6. Walked'
  BY <1>1, <1>2 DEF Walked
<1>7. Counted'
  <2>1. \A r : Lists!Tied(r)' <=> Lists!Tied(r)
    BY <1>2 DEF Lists!Tied
  <2>2. \A x, r : Ahead(x, r)' <=> Ahead(x, r)
    BY <1>2 DEF Ahead, Lists!Precedes, Lists!Later
  <2>3. \A r : RowRank(r)' = RowRank(r)
    BY <2>2 DEF RowRank
  <2>4. \A r \in Rows \ shifted : CountedRow(r)
    BY DEF ListInv, Counted
  <2>5. \A r \in Rows \ shifted' : CountedRow(r)'
    BY <1>1, <1>2, <2>1, <2>3, <2>4 DEF CountedRow
  <2>6. \A r \in Rows \ shifted' : RequestedRow(r)'
    BY <1>1, <1>2, <1>3, <1>4, <2>1, <2>3 DEF RequestedRow, OnPageOf
  <2>7. QED
    BY <1>1, <2>5, <2>6 DEF Counted
<1>8. QED
  BY <1>2, <1>5, <1>6, <1>7 DEF ListInv

LEMMA PagesRead ==
  ASSUME ListSizes, ListInv, Lists!GetFollowers \/ Lists!GetFollowing \/ Lists!ListUsers
  PROVE  ListInv'
<1>1. \E l \in Limits : \E P \in Lists!Slice(Lists!There, cursor, l) : Lists!AskPage(l, P)
  BY DEF Lists!GetFollowers, Lists!GetFollowing, Lists!ListUsers, Lists!GetFollowersPage,
         Lists!GetFollowingPage, Lists!AdminListUsers
<1>2. pc = "ask" /\ list \in {"followers", "following", "users"}
  BY DEF Lists!GetFollowers, Lists!GetFollowing, Lists!ListUsers, Lists!AskFollowers,
         Lists!AskFollowing, Lists!AskUsers
<1>3. list \in Lists!Offset /\ Lists!Listed = Lists!There
  BY <1>2 DEF Lists!Offset, Lists!Listed
<1>4. QED
  BY <1>1, <1>2, <1>3, PageReads

(* What is shown of a list at an offset, at once or once it was counted.   *)
LEMMA PageCounts ==
  ASSUME ListSizes, ListInv, list \in Lists!Offset, NEW P, P \subseteq Rows, NEW l \in Nat,
         UNCHANGED <<Lists!table, cached, unsteady>>, Lists!Show(P), cursor' = cursor + l,
         pc' \in {"ask", "end"}, pc' = "end" => Cardinality(Lists!Listed) <= cursor',
         \A r \in Rows \ shifted :
           /\ r \in P => r \in Lists!Listed
           /\ r \in P /\ ~Lists!Tied(r) => OnPageOf(r, cursor, l)
           /\ r \in Lists!Listed \ unsteady /\ ~Lists!Tied(r) /\ OnPageOf(r, cursor, l) => r \in P
  PROVE  ListInv'
<1>1. /\ shown' = shown \cup P /\ again' = again \cup (shown \cap P) /\ shifted' = shifted
      /\ UNCHANGED <<Lists!table, cached, unsteady>>
      /\ ListTyped /\ cursor \in Nat /\ list \notin Lists!Keyset
  BY KeysetApart DEF Lists!Show, ListInv, ListTyped
<1>2. /\ Lists!There' = Lists!There /\ Lists!Listed' = Lists!Listed
      /\ UNCHANGED <<list, created, visibility>> /\ CachedFirst'
  BY <1>1, TableStays, CachedStays
<1>3. ListTyped'
  <2>1. /\ cursor' \in Nat /\ shown' \subseteq Rows /\ again' \subseteq shown'
        /\ pc' \in {"ask", "end"} /\ list' \notin Lists!Keyset /\ list' \in Lists!Offset
    BY <1>1, <1>2 DEF ListTyped
  <2>2. QED
    BY <1>1, <1>2, <2>1 DEF ListTyped, CachedPage
<1>4. Walked'
  BY <1>1, <1>2 DEF Walked
<1>5. Counted'
  <2>1. \A r : Lists!Tied(r)' <=> Lists!Tied(r)
    BY <1>2 DEF Lists!Tied
  <2>2. \A x, r : Ahead(x, r)' <=> Ahead(x, r)
    BY <1>2 DEF Ahead, Lists!Precedes, Lists!Later
  <2>3. \A r : RowRank(r)' = RowRank(r)
    BY <2>2 DEF RowRank
  <2>4. ASSUME NEW r \in Rows \ shifted PROVE CountedRow(r)'
    <3>1. CountedRow(r)
      BY DEF ListInv, Counted
    <3>2. RowRank(r) \in Nat
      <4>1. IsFiniteSet({x \in Rows : Ahead(x, r)})
        BY FS_Subset DEF ListSizes
      <4>2. QED
        BY <4>1, FS_CardinalityType DEF RowRank
    <3>3. r \in shown' \cup again' => r \in Lists!Listed
      BY <1>1, <3>1 DEF CountedRow
    <3>4. r \in again' => Lists!Tied(r)
      <4>1. r \in shown /\ r \in P => Lists!Tied(r)
        BY <1>1, <3>1, <3>2 DEF CountedRow, OnPageOf
      <4>2. QED
        BY <1>1, <3>1, <4>1 DEF CountedRow
    <3>5. r \in shown' /\ ~Lists!Tied(r) => RowRank(r) < cursor'
      BY <1>1, <3>1, <3>2 DEF CountedRow, OnPageOf
    <3>6. r \in Lists!Listed \ unsteady /\ ~Lists!Tied(r) /\ RowRank(r) < cursor' => r \in shown'
      BY <1>1, <3>1, <3>2 DEF CountedRow, OnPageOf
    <3>7. QED
      BY <1>1, <1>2, <2>1, <2>3, <3>3, <3>4, <3>5, <3>6 DEF CountedRow
  <2>5. QED
    BY <1>1, <1>2, <2>4 DEF Counted
<1>6. QED
  BY <1>2, <1>3, <1>4, <1>5 DEF ListInv

LEMMA CountAnswers ==
  ASSUME ListSizes, ListInv, Lists!CountAndAnswer PROVE ListInv'
<1>1. /\ pc = "counting" /\ Lists!Show(request.rows) /\ cursor' = cursor + request.limit
      /\ pc' = IF cursor' < Cardinality(Lists!There) THEN "ask" ELSE "end"
      /\ UNCHANGED <<Lists!table, cached, unsteady>>
  BY SameSize DEF Lists!CountAndAnswer, Lists!AdminCountUsers, Lists!CountFollows
<1>2. /\ list \in Lists!Offset /\ request.limit \in Limits /\ request.rows \subseteq Rows
      /\ ListTyped /\ cursor \in Nat /\ request.limit \in Nat
  BY <1>1, ListLimits, KeysetApart DEF ListInv, ListTyped
<1>3. \A r \in Rows \ shifted : RequestedRow(r)
  BY <1>1, <1>2 DEF ListInv, Counted
<1>4. pc' = "end" => Cardinality(Lists!Listed) <= cursor'
  <2>1. /\ Lists!Listed \subseteq Lists!There /\ IsFiniteSet(Lists!There)
    BY <1>2, RowsThere, FS_Subset DEF ListSizes
  <2>2. /\ Cardinality(Lists!Listed) \in Nat /\ Cardinality(Lists!There) \in Nat
        /\ Cardinality(Lists!Listed) <= Cardinality(Lists!There)
    BY <2>1, FS_Subset, FS_CardinalityType
  <2>3. QED
    BY <1>1, <1>2, <2>2
<1>5. \A r \in Rows \ shifted :
        /\ r \in request.rows => r \in Lists!Listed
        /\ r \in request.rows /\ ~Lists!Tied(r) => OnPageOf(r, cursor, request.limit)
        /\ r \in Lists!Listed \ unsteady /\ ~Lists!Tied(r) /\ OnPageOf(r, cursor, request.limit)
             => r \in request.rows
  BY <1>3 DEF RequestedRow
<1>6. QED
  BY <1>1, <1>2, <1>4, <1>5, PageCounts

(* A search: no total, an end when a page is not full.                     *)
LEMMA SearchWalks ==
  ASSUME ListSizes, ListInv, Lists!Search PROVE ListInv'
<1>1. PICK l \in Limits : Lists!AskSearch(l) /\ \E P \in Lists!SearchByQuery(l, cursor) :
        /\ Lists!Show(P) /\ cursor' = cursor + l
        /\ pc' = IF Lists!Cardinality(P) < l THEN "end" ELSE "ask"
  BY DEF Lists!Search
<1>2. PICK P \in Lists!SearchByQuery(l, cursor) :
        /\ Lists!Show(P) /\ cursor' = cursor + l
        /\ pc' = IF Lists!Cardinality(P) < l THEN "end" ELSE "ask"
  BY <1>1
<1>3. /\ pc = "ask" /\ list \in Lists!Searched /\ list \in Lists!Offset
      /\ UNCHANGED <<Lists!table, cached, unsteady>> /\ ListTyped /\ l \in Nat
  BY <1>1, ListLimits DEF Lists!Search, Lists!AskSearch, Lists!Offset, ListInv
<1>4. P \in Lists!Slice(Lists!Listed, cursor, l)
  <2>1. Lists!Listed = IF list = "people" THEN Lists!There ELSE Lists!Readable({"public"})
    BY <1>3 DEF Lists!Searched, Lists!Listed
  <2>2. QED
    BY <2>1 DEF Lists!SearchByQuery, Lists!SearchUsersByQuery, Lists!SearchPosts
<1>5. cursor \in Nat
  BY <1>3, KeysetApart DEF ListTyped
<1>6. /\ P \subseteq Lists!Listed /\ P \subseteq Rows
      /\ \A r \in Lists!Listed : ~Lists!Tied(r) => (r \in P <=> OnPageOf(r, cursor, l))
      /\ Cardinality(P) < l => Cardinality(Lists!Listed) <= cursor + l
  BY <1>3, <1>4, <1>5, SliceByRank, RowsThere
<1>7. pc' \in {"ask", "end"} /\ (pc' = "end" => Cardinality(Lists!Listed) <= cursor')
  BY <1>2, <1>6, SameSize
<1>8. QED
  BY <1>2, <1>3, <1>6, <1>7, PageCounts

(* What a walk that has come so far promises.                              *)
LEMMA WalksExact ==
  ASSUME ListSizes, ListInv PROVE Lists!ListingsExact
<1>1. ListTyped /\ Walked /\ Counted
  BY DEF ListInv
<1>2. Lists!ListRepeatsNothing
  <2>1. CASE list \in Lists!Keyset
    BY <1>1, <2>1 DEF Walked, Lists!ListRepeatsNothing
  <2>2. CASE list \notin Lists!Keyset
    <3>1. list \in Lists!Offset
      BY <1>1, <2>2 DEF ListTyped
    <3>2. again \subseteq Rows
      BY <1>1 DEF ListTyped
    <3>3. QED
      BY <1>1, <2>2, <3>1, <3>2 DEF Lists!ListRepeatsNothing, Counted, CountedRow
  <2>3. QED
    BY <2>1, <2>2
<1>3. Lists!ListSkipsNothing
  <2> SUFFICES ASSUME NEW r \in Lists!There \ (unsteady \cup shown)
               PROVE  \/ /\ list \in Lists!Keyset /\ pc # "end"
                         /\ cursor = Lists!Top \/ r \in Lists!Below({r}, cursor)
                      \/ list \in Lists!Offset /\ (pc # "end" \/ r \in shifted \/ Lists!Tied(r))
    BY DEF Lists!ListSkipsNothing
  <2>1. CASE list \in Lists!Keyset
    <3>1. pc # "end" /\ RestUnder(unsteady \cup shown, cursor)
      BY <1>1, <2>1 DEF Walked
    <3>2. r \in Lists!Below({r}, cursor)
      BY <3>1, BelowIsUnder DEF RestUnder
    <3>3. QED
      BY <2>1, <3>1, <3>2
  <2>2. CASE list \in Lists!Offset /\ pc = "end" /\ r \notin shifted /\ ~Lists!Tied(r)
    <3>1. /\ r \in Rows /\ r \in Lists!Listed /\ created[r] \in Nat /\ r \in Nat
          /\ Lists!Listed \subseteq Rows /\ cursor \in Nat
      BY <1>1, <2>2, KeysetApart, RowsThere DEF ListTyped
    <3>2. RowRank(r) < Cardinality(Lists!Listed)
      <4> DEFINE B == {x \in Rows : Ahead(x, r)}
      <4>1. r \notin B /\ B \subseteq Lists!Listed
        BY <3>1 DEF Ahead, Lists!Precedes, Lists!Later
      <4>2. IsFiniteSet(Lists!Listed) /\ Cardinality(Lists!Listed) \in Nat
        BY <3>1, FS_Subset, FS_CardinalityType DEF ListSizes
      <4>3. Cardinality(B) <= Cardinality(Lists!Listed)
            /\ (Cardinality(B) = Cardinality(Lists!Listed) => B = Lists!Listed)
            /\ Cardinality(B) \in Nat
        BY <4>1, <4>2, FS_Subset, FS_CardinalityType
      <4>4. Cardinality(B) < Cardinality(Lists!Listed)
        BY <3>1, <4>1, <4>2, <4>3
      <4>5. QED
        BY <4>4 DEF RowRank
    <3>3. CountedRow(r) /\ Cardinality(Lists!Listed) <= cursor
      BY <1>1, <2>2, <3>1 DEF Counted
    <3>4. RowRank(r) < cursor
      <4>1. IsFiniteSet({x \in Rows : Ahead(x, r)}) /\ IsFiniteSet(Lists!Listed)
        BY <3>1, FS_Subset DEF ListSizes
      <4>2. RowRank(r) \in Nat /\ Cardinality(Lists!Listed) \in Nat
        BY <4>1, FS_CardinalityType DEF RowRank
      <4>3. QED
        BY <3>1, <3>2, <3>3, <4>2
    <3>5. QED
      BY <2>2, <3>1, <3>3, <3>4 DEF CountedRow
  <2>3. QED
    BY <1>1, <2>1, <2>2 DEF ListTyped
<1>4. QED
  BY <1>2, <1>3 DEF Lists!ListingsExact

LEMMA ListsStay ==
  ASSUME ListSizes PROVE Lists!Spec => []Lists!ListingsExact
<1>1. Lists!Init => ListInv
  <2> SUFFICES ASSUME Lists!Init PROVE ListInv
    OBVIOUS
  <2>1. /\ list \in Lists!Keyset \cup Lists!Offset /\ created \in [Rows -> Times \cup {Lists!Absent}]
        /\ visibility \in [Rows -> Lists!Visibilities] /\ cached = Lists!NoPage /\ pc = "ask"
        /\ cursor = IF list \in Lists!Keyset THEN Lists!Top ELSE 0
        /\ shown = {} /\ again = {} /\ unsteady = Rows \ Lists!Listed /\ cached.none
    BY DEF Lists!Init, Lists!NoPage
  <2>2. ListTyped
    BY <2>1 DEF ListTyped
  <2>3. CachedFirst
    BY <2>1 DEF CachedFirst
  <2>4. Walked
    BY <2>1 DEF Walked, RestUnder, Under
  <2>5. Counted
    <3> SUFFICES ASSUME list \in Lists!Offset, NEW r \in Rows PROVE CountedRow(r)
      BY <2>1 DEF Counted
    <3>1. cursor = 0
      BY <2>1, KeysetApart
    <3>2. IsFiniteSet({x \in Rows : Ahead(x, r)})
      BY FS_Subset DEF ListSizes
    <3>3. RowRank(r) \in Nat
      BY <3>2, FS_CardinalityType DEF RowRank
    <3>4. QED
      BY <2>1, <3>1, <3>3 DEF CountedRow
  <2>6. QED
    BY <2>2, <2>3, <2>4, <2>5 DEF ListInv
<1>2. ListInv /\ [Lists!Next]_Lists!vars => ListInv'
  <2> SUFFICES ASSUME ListInv, [Lists!Next]_Lists!vars PROVE ListInv'
    OBVIOUS
  <2>1. CASE UNCHANGED Lists!vars
    <3>1. UNCHANGED <<Lists!table, pc, cursor, request, Lists!history, cached>>
      BY <2>1 DEF Lists!vars
    <3>2. CachedFirst'
      BY <3>1, CachedStays
    <3>3. QED
      BY <3>1, <3>2, WalkStays DEF ListInv, ListTyped
  <2>2. CASE Lists!Request
    BY <2>2, AccessWalks, PagesWalk, CacheWalks, PagesRead, CountAnswers, SearchWalks DEF Lists!Request
  <2>3. CASE Lists!Environment
    BY <2>3, CacheFills, CacheExpires, RowsComeAndGo, ViewerChanges DEF Lists!Environment
  <2>4. QED
    BY <2>1, <2>2, <2>3 DEF Lists!Next
<1>3. ListInv => Lists!ListingsExact
  BY WalksExact
<1>4. QED
  BY <1>1, <1>2, <1>3, PTL DEF Lists!Spec

(* The part goes as its specification says, and is the only one.           *)
LEMMA ListsApart == part = "lists" /\ MCSpec => Lists!Spec /\ [](part = "lists")
<1>1. part = "lists" /\ MCInit => Lists!Init
  BY DEF MCInit
<1>2. /\ part = "lists"
      /\ [MCNext]_<<part, vars, listVars, reindexVars, codohueVars, faults>>
      => [Lists!Next]_Lists!vars /\ (part = "lists")'
  BY DEF MCNext, listVars, Lists!vars, Lists!table, Lists!history
<1>3. QED
  BY <1>1, <1>2, PTL DEF MCSpec, Lists!Spec

(* A walk through a list that PostgreSQL keeps shows every row that was in *)
(* it all along, and none twice (GetUserPostsWithCursor and the queries    *)
(* like it, the page of Redis, GetFollowers, AdminListUsers and the        *)
(* searches with their offsets), but for what an offset shifts or a query  *)
(* leaves tied: for any rows, times, limits and number of changes.         *)
THEOREM WalksShowAllOnce ==
  ASSUME IsFiniteSet(Rows), Rows \subseteq Nat, Times \subseteq Nat,
         Limits \subseteq Nat \ {0}, MaxRows \in Nat \ {0}
  PROVE  MCSpec => []ListingsExact
<1>0. ListSizes
  BY DEF ListSizes
<1>1. Lists!Spec => []Lists!ListingsExact
  BY <1>0, ListsStay
<1>2. Lists!ListingsExact => ListingsExact
  BY DEF ListingsExact
<1>3. part # "lists" => ListingsExact
  BY DEF ListingsExact
<1>4. part # "lists" /\ [MCNext]_<<part, vars, listVars, reindexVars, codohueVars, faults>>
        => (part # "lists")'
  BY DEF MCNext
<1>5. part = "lists" \/ part # "lists"
  OBVIOUS
<1>6. QED
  BY <1>1, <1>2, <1>3, <1>4, <1>5, ListsApart, PTL DEF MCSpec
=============================================================================
