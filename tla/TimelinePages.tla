--------------------------- MODULE TimelinePages ---------------------------
(***************************************************************************)
(* A viewer pages through a prepared timeline while fan-out, rebuilds,     *)
(* evictions and visibility changes go on around them.                     *)
(*                                                                         *)
(* A request reads a window of the sorted set below its cursor             *)
(* (RedisTimelineStore.ReadPage), hydrates the posts from PostgreSQL in a  *)
(* second step, drops those the viewer may not see any more, and returns   *)
(* the first PageSize of the rest with a cursor that names the last item   *)
(* and the score it was read with.  Nothing is locked between the two      *)
(* steps or between pages.                                                 *)
(*                                                                         *)
(* Posts are numbers: the order of post ids breaks ties of the score.      *)
(***************************************************************************)
EXTENDS Integers, FiniteSets

CONSTANTS
  Posts,        \* post ids
  Scores,       \* packed scores an entry can have
  PageSize,     \* pageSize
  WindowSize,   \* pageSize * fetchMultiplier
  MaxChanges    \* bound: changes made around one walk

ASSUME PostsAssumption == Posts \subseteq Nat /\ IsFiniteSet(Posts)
ASSUME ScoresAssumption == Scores \subseteq Nat
ASSUME SizesAssumption ==
  /\ PageSize \in Nat \ {0}
  /\ WindowSize \in Nat
  /\ WindowSize > PageSize
ASSUME ChangesAssumption == MaxChanges \in Nat

VARIABLES
  score,      \* score[p]: p's score in the sorted set, or Absent
  eligible,   \* posts isEligibleTimelinePost would accept now
  pc,         \* where the viewer's walk is
  cursor,     \* position of the last item returned, or Top
  window,     \* the request's entries: positions read from the store
  hasMore,    \* page.HasMore of that read
  shown,      \* posts returned to the viewer so far (history)
  again,      \* posts returned more than once (history)
  moved,      \* posts whose score changed during the walk (history)
  blinked,    \* posts not eligible at some time of the walk (history)
  changes     \* changes so far (bounded by MaxChanges)

walk == <<pc, cursor, window, hasMore>>
history == <<shown, again, moved, blinked>>
vars == <<score, eligible, walk, history, changes>>

-----------------------------------------------------------------------------
Absent == -1

(* Positions order the sorted set: by score, then by post id.              *)
Position == Scores \X Posts
Top == <<>>

Below(x, y) ==
  \/ y = Top
  \/ x[1] < y[1]
  \/ x[1] = y[1] /\ x[2] < y[2]

Entries == {<<score[p], p>> : p \in {q \in Posts : score[q] # Absent}}

\* The first n of a set of positions.
First(S, n) == {x \in S : Cardinality({y \in S : Below(x, y)}) < n}

Last(S) == CHOOSE x \in S : \A y \in S \ {x} : Below(x, y)

Ids(S) == {x[2] : x \in S}

TypeOK ==
  /\ score \in [Posts -> Scores \cup {Absent}]
  /\ eligible \subseteq Posts
  /\ pc \in {"ask", "hydrate", "end", "done"}
  /\ cursor \in Position \cup {Top}
  /\ window \subseteq Position
  /\ hasMore \in BOOLEAN
  /\ shown \subseteq Posts /\ again \subseteq shown
  /\ moved \subseteq Posts /\ blinked \subseteq Posts
  /\ changes \in 0..MaxChanges

-----------------------------------------------------------------------------
Init ==
  /\ score \in [Posts -> Scores \cup {Absent}]
  /\ eligible \in SUBSET Posts
  /\ pc = "ask"
  /\ cursor = Top
  /\ window = {}
  /\ hasMore = FALSE
  /\ shown = {} /\ again = {}
  /\ moved = {}
  /\ blinked = Posts \ eligible
  /\ changes = 0

\* Mutant: the range query is inclusive and ties are not skipped.
UnreadInclusive(pos) == {x \in Entries : pos = Top \/ x[1] <= pos[1]}

\* Entries the store returns below a position, without the limit.
Unread(pos) == {x \in Entries : Below(x, pos)}

\* ReadPage: one row more than the window tells whether there is more.
ReadPage ==
  /\ pc = "ask"
  /\ window' = First(Unread(cursor), WindowSize)
  /\ hasMore' = (Cardinality(Unread(cursor)) > WindowSize)
  /\ pc' = "hydrate"
  /\ UNCHANGED <<score, eligible, cursor, history, changes>>

Visible == {x \in window : x[2] \in eligible}

Items == First(Visible, PageSize)

\* Mutant: only the store is asked whether there is more.
MorePagesOfStore == hasMore

MorePages == hasMore \/ Cardinality(Visible) > PageSize

\* Hydration, filtering and the answer.  A page without items abandons the
\* walk: a continuation returns an empty feed, a first page moves on to the
\* mixed feed, which has cursors of its own.
Serve ==
  /\ pc = "hydrate"
  /\ shown' = shown \cup Ids(Items)
  /\ again' = again \cup (Ids(Items) \cap shown)
  /\ \/ Items # {} /\ MorePages /\ pc' = "ask" /\ cursor' = Last(Items)
     \/ Items # {} /\ ~MorePages /\ pc' = "end" /\ UNCHANGED cursor
     \/ Items = {} /\ pc' = "done" /\ UNCHANGED cursor
  /\ window' = {}
  /\ hasMore' = FALSE
  /\ UNCHANGED <<score, eligible, moved, blinked, changes>>

\* Redis or PostgreSQL fails: GetFeed falls back to the mixed feed.
ReadFails ==
  /\ pc \in {"ask", "hydrate"}
  /\ pc' = "done"
  /\ window' = {}
  /\ hasMore' = FALSE
  /\ UNCHANGED <<score, eligible, cursor, history, changes>>

-----------------------------------------------------------------------------
Change ==
  /\ changes < MaxChanges
  /\ pc \in {"ask", "hydrate"}
  /\ changes' = changes + 1
  /\ UNCHANGED walk

\* AddPost: ZADD NX leaves a member that is there alone.
AddPost(p, s) ==
  /\ Change
  /\ score[p] = Absent
  /\ score' = [score EXCEPT ![p] = s]
  /\ moved' = moved \cup {p}
  /\ UNCHANGED <<eligible, shown, again, blinked>>

\* RemovePostBestEffort, or an entry trimmed off the end.
RemovePost(p) ==
  /\ Change
  /\ score[p] # Absent
  /\ score' = [score EXCEPT ![p] = Absent]
  /\ moved' = moved \cup {p}
  /\ UNCHANGED <<eligible, shown, again, blinked>>

\* ReplacePosts: a rebuild ranks its posts afresh, entries of fan-out that
\* it does not know keep their score, others go.
ReplacePosts(new) ==
  /\ Change
  /\ score' = new
  /\ moved' = moved \cup {p \in Posts : new[p] # score[p]}
  /\ UNCHANGED <<eligible, shown, again, blinked>>

\* The post is deleted or made private, or its author is unfollowed; or it
\* becomes visible (again).
SetEligible(p) ==
  /\ Change
  /\ eligible' = (eligible \ {p}) \cup ({p} \ eligible)
  /\ blinked' = blinked \cup {p}
  /\ UNCHANGED <<score, shown, again, moved>>

Request == ReadPage \/ Serve

Environment ==
  \/ \E p \in Posts : RemovePost(p) \/ SetEligible(p)
  \/ \E p \in Posts, s \in Scores : AddPost(p, s)
  \/ \E new \in [Posts -> Scores \cup {Absent}] : ReplacePosts(new)

Next == Request \/ ReadFails \/ Environment

Spec == Init /\ [][Next]_vars

\* The viewer keeps asking for the next page.
FairSpec == Spec /\ WF_vars(Request)

-----------------------------------------------------------------------------
(* A post is returned on two pages of a walk only if its score changed in  *)
(* between: neither ties of the score, nor insertions above or below the   *)
(* cursor, nor entries filtered out of a page make one reappear.           *)
NoRepeats == again \subseteq moved

(* Nothing is skipped: every post that stayed where it was and visible     *)
(* since the walk began, and that ranks at or above the cursor the viewer  *)
(* holds, has been returned, and when the feed says it has no more, all of *)
(* them have: whatever the window held that the viewer may not see, and    *)
(* however many posts did not fit on a page.                               *)
Passed(x) == pc = "end" \/ (cursor # Top /\ ~Below(x, cursor))

NothingSkipped ==
  \A x \in Entries :
    Passed(x) => x[2] \in shown \cup moved \cup blinked

(* The pages of a walk are the timeline: neither of the two goes wrong.    *)
PagesExact == NoRepeats /\ NothingSkipped

(* Every walk ends: each page's cursor is below the one before, so a       *)
(* viewer who keeps asking is not led in circles.                          *)
WalkEnds == <>(pc \in {"end", "done"})
=============================================================================
