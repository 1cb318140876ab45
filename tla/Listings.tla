------------------------------- MODULE Listings -------------------------------
(***************************************************************************)
(* A client walks through a list that PostgreSQL keeps, page by page, and  *)
(* rows come and go around it: the posts of an author, all public posts,   *)
(* the posts of a hashtag, whose first page is shared through Redis, the   *)
(* notifications of a user, the followers of a user, the users an          *)
(* administrator sees, and the users and posts a search finds.             *)
(*                                                                         *)
(* The first four continue below the last row that was shown, the others   *)
(* at an offset.  Rows are numbers: ids, which may break ties of what the  *)
(* rows are ordered by, created_at or the rank of a search.                *)
(***************************************************************************)
EXTENDS Integers, FiniteSets

CONSTANTS
  Rows,        \* ids of rows
  Times,       \* values of created_at
  Limits,      \* limits a client may ask for
  MaxRows,     \* pageSize of the notifications
  MaxChanges   \* bound: changes made around one walk

VARIABLES
  list,        \* the list that is walked
  created,     \* created_at, or the rank, of the rows there are
  visibility,  \* of the posts: public, followers or private
  viewer,      \* what the client is to the author
  asked,       \* the visibility the client asks for, or ""
  cached,      \* the first page of the hashtag that Redis holds, or NoPage
  pc,          \* where the walk is
  cursor,      \* the position to continue below, or Top; the offset
  request,     \* the limit asked for, the visibilities allowed, the rows read
  shown,       \* rows shown so far (history)
  again,       \* rows shown more than once (history)
  unsteady,    \* rows that were not in the list at some time of the walk, nor
               \* since the cached page it began with was read, nor for the
               \* access a request had found (history)
  shifted,     \* rows that another was put before, or taken from before (history)
  changes

table == <<list, created, visibility, viewer, asked>>
history == <<shown, again, unsteady, shifted>>
vars == <<table, cached, pc, cursor, request, history, changes>>

Absent == -1    \* not inserted yet
Gone == -2      \* deleted
Top == <<>>
NoPage == [rows |-> {}, more |-> FALSE, missed |-> Rows, none |-> TRUE]
Keyset == {"posts", "discover", "tagged", "inbox"}
Searched == {"people", "found"}
Offset == {"followers", "following", "users"} \cup Searched

\* Lists whose query does not settle the order of rows that tie.
Unsettled == {"users"} \cup Searched

\* Lists of posts.
OfPosts == {"posts", "discover", "tagged", "found"}
Visibilities == {"public", "followers", "private"}

NoRequest == [limit |-> 0, allowed |-> {}, rows |-> {}]

There == {r \in Rows : created[r] \in Times}

-----------------------------------------------------------------------------
(* Who may see which posts.                                                *)

\* allowedPostVisibilities
AllowedVisibilities ==
  CASE viewer = "author" -> Visibilities
    [] viewer = "follower" -> {"public", "followers"}
    [] viewer = "other" -> {"public"}

\* requestedPostVisibilities: all that are allowed, or the one asked for.
RequestedVisibilities == IF asked = "" THEN AllowedVisibilities ELSE AllowedVisibilities \cap {asked}

Readable(allowed) == {r \in There : visibility[r] \in allowed}

\* The list as the client would see it now.
Listed ==
  CASE list = "posts" -> Readable(RequestedVisibilities)
    [] list \in {"discover", "tagged", "found"} -> Readable({"public"})
    [] OTHER -> There

-----------------------------------------------------------------------------
(* The order of the queries.                                               *)

\* ORDER BY created_at DESC, of the users; by the rank, of what is searched.
Later(x, y) == created[x] > created[y]

\* ORDER BY created_at DESC, id DESC, of all others
Precedes(x, y) ==
  Later(x, y) \/ (list \notin Unsettled /\ created[x] = created[y] /\ x > y)

\* What the first n of a set of rows may be: ties are broken anyhow.
FirstOf(S, n) ==
  {P \in SUBSET S : /\ Cardinality(P) = (IF Cardinality(S) < n THEN Cardinality(S) ELSE n)
                    /\ \A x \in P, y \in S \ P : ~Precedes(y, x)}

\* LIMIT l OFFSET o
Slice(S, o, l) == UNION {FirstOf(S \ D, l) : D \in FirstOf(S, o)}

\* Mutant: created_at <= cursor, without a look at the ids.
BelowOrTied(S, pos) == {r \in S : pos = Top \/ created[r] <= pos[1]}

\* (created_at, id) < (cursor)
Below(S, pos) ==
  {r \in S : pos = Top \/ created[r] < pos[1] \/ (created[r] = pos[1] /\ r < pos[2])}

\* The cursor that Encode writes and Decode reads back: nanoseconds and the id.
Position(r) == <<created[r], r>>
LastOf(P) == CHOOSE r \in P : \A x \in P \ {r} : Precedes(x, r)

-----------------------------------------------------------------------------
(* The queries, and what they may return.                                  *)

GetUserPostsWithCursor(allowed, pos, n) == FirstOf(Below(Readable(allowed), pos), n)
GetDiscoverWithCursor(pos, n) == FirstOf(Below(Readable({"public"}), pos), n)
GetPostsByHashtagWithCursor(pos, n) == FirstOf(Below(Readable({"public"}), pos), n)
GetNotificationsWithCursor(pos, n) == FirstOf(Below(There, pos), n)

GetFollowersPage(l, o) == Slice(There, o, l)
GetFollowingPage(l, o) == Slice(There, o, l)
AdminListUsers(l, o) == Slice(There, o, l)

\* By a match at the beginning of the name, and follower_count; by ts_rank.
SearchUsersByQuery(l, o) == Slice(There, o, l)
SearchPosts(l, o) == Slice(Readable({"public"}), o, l)

CountFollows == Cardinality(There)
AdminCountUsers == Cardinality(There)

-----------------------------------------------------------------------------
Init ==
  /\ list \in Keyset \cup Offset
  /\ created \in [Rows -> Times \cup {Absent}]
  /\ visibility \in [Rows -> Visibilities]
  /\ \A r \in Rows : (created[r] = Absent \/ list \notin OfPosts) => visibility[r] = "public"
  /\ viewer \in {"author", "follower", "other"}
  /\ asked \in {""} \cup Visibilities
  /\ list # "posts" => viewer = "other" /\ asked = ""
  /\ cached = NoPage
  /\ pc = "ask"
  /\ cursor = IF list \in Keyset THEN Top ELSE 0
  /\ request = NoRequest
  /\ shown = {}
  /\ again = {}
  /\ unsteady = Rows \ Listed
  /\ shifted = {}
  /\ changes = 0

Show(P) ==
  /\ shown' = shown \cup P
  /\ again' = again \cup (shown \cap P)
  /\ UNCHANGED shifted

\* Mutant: the cursor names the row that only told that there is more.
AnswerPastTheEnd(P, limit) ==
  /\ LET page == CHOOSE Q \in FirstOf(P, limit) : TRUE IN
     /\ Show(page)
     /\ IF Cardinality(P) > limit THEN cursor' = Position(LastOf(P)) /\ pc' = "ask"
        ELSE UNCHANGED cursor /\ pc' = "end"
  /\ request' = NoRequest

\* One row more than the limit was read: if it is there, there is a next
\* page, below the last row of this one.
Answer(P, limit) ==
  /\ LET page == CHOOSE Q \in FirstOf(P, limit) : TRUE IN
     /\ Show(page)
     /\ IF Cardinality(P) > limit THEN cursor' = Position(LastOf(page)) /\ pc' = "ask"
        ELSE UNCHANGED cursor /\ pc' = "end"
  /\ request' = NoRequest

-----------------------------------------------------------------------------
(* Posts of an author.                                                     *)

AskUserPosts(l) ==
  /\ pc = "ask"
  /\ list = "posts"
  /\ request' = [limit |-> l, allowed |-> RequestedVisibilities, rows |-> {}]

\* A filter the viewer may not see anything of is an empty list.
CheckAccess ==
  /\ \E l \in Limits : AskUserPosts(l)
  /\ pc' = IF RequestedVisibilities = {} THEN "end" ELSE "allowed"
  /\ UNCHANGED <<table, cached, cursor, history, changes>>

GetUserPosts ==
  /\ pc = "allowed"
  /\ \E P \in GetUserPostsWithCursor(request.allowed, cursor, request.limit + 1) :
       Answer(P, request.limit)
  /\ unsteady' = unsteady \cup (Rows \ Readable(request.allowed))
  /\ UNCHANGED <<table, cached, changes>>

-----------------------------------------------------------------------------
(* GET /discover, with or without a viewer.                                *)

AskDiscover(l) == pc = "ask" /\ list = "discover" /\ l \in Limits

GetDiscover ==
  /\ \E l \in Limits : AskDiscover(l) /\ \E P \in GetDiscoverWithCursor(cursor, l + 1) :
       Answer(P, l)
  /\ UNCHANGED <<table, cached, unsteady, changes>>

-----------------------------------------------------------------------------
(* Notifications, a page of a fixed size.                                  *)

AskNotifications == pc = "ask" /\ list = "inbox"

GetNotifications ==
  /\ AskNotifications
  /\ \E P \in GetNotificationsWithCursor(cursor, MaxRows + 1) : Answer(P, MaxRows)
  /\ UNCHANGED <<table, cached, unsteady, changes>>

-----------------------------------------------------------------------------
(* Posts of a hashtag.                                                     *)

\* Page 1, whatever limit it was read with.
FromCache ==
  /\ pc = "ask"
  /\ list = "tagged"
  /\ cursor = Top
  /\ ~cached.none
  /\ Show(cached.rows)
  /\ unsteady' = unsteady \cup cached.missed
  /\ IF cached.more THEN pc' = "ask" /\ cursor' = cached.next
     ELSE pc' = "end" /\ UNCHANGED cursor
  /\ UNCHANGED <<table, cached, request, changes>>

GetPostsByHashtag ==
  /\ pc = "ask"
  /\ list = "tagged"
  /\ cursor # Top \/ cached.none
  /\ \E l \in Limits : \E P \in GetPostsByHashtagWithCursor(cursor, l + 1) : Answer(P, l)
  /\ UNCHANGED <<table, cached, unsteady, changes>>

\* Another client reads the first page and caches it.
CacheFirstPage ==
  /\ list = "tagged"
  /\ cached.none
  /\ \E l \in Limits : \E P \in GetPostsByHashtagWithCursor(Top, l + 1) :
       \E Q \in FirstOf(P, l) :
         cached' = [rows |-> Q, more |-> P # Q, missed |-> Rows \ Listed, none |-> FALSE,
                    next |-> IF P = Q THEN Top ELSE Position(LastOf(Q))]
  /\ UNCHANGED <<table, pc, cursor, request, history, changes>>

Expire ==
  /\ ~cached.none
  /\ cached' = NoPage
  /\ UNCHANGED <<table, pc, cursor, request, history, changes>>

-----------------------------------------------------------------------------
(* Follows and users: a page, and in a second statement the total.         *)

\* A limit that is none, or too large, is 20.
AskPage(l, P) ==
  /\ request' = [limit |-> l, allowed |-> {}, rows |-> P]
  /\ pc' = "counting"
  /\ UNCHANGED <<table, cached, cursor, history, changes>>

\* The handlers, of whose the path names and of the page the query asks for.
AskFollowers(l) == pc = "ask" /\ list = "followers" /\ l \in Limits
AskFollowing(l) == pc = "ask" /\ list = "following" /\ l \in Limits
AskUsers(l) == pc = "ask" /\ list = "users" /\ l \in Limits

GetFollowers ==
  \E l \in Limits : AskFollowers(l) /\ \E P \in GetFollowersPage(l, cursor) : AskPage(l, P)

GetFollowing ==
  \E l \in Limits : AskFollowing(l) /\ \E P \in GetFollowingPage(l, cursor) : AskPage(l, P)

ListUsers ==
  \E l \in Limits : AskUsers(l) /\ \E P \in AdminListUsers(l, cursor) : AskPage(l, P)

\* NewPaginationResponse: the client goes on while its pages have not reached
\* the total.
CountAndAnswer ==
  /\ pc = "counting"
  /\ Show(request.rows)
  /\ cursor' = cursor + request.limit
  /\ pc' = IF cursor' < (IF list = "users" THEN AdminCountUsers ELSE CountFollows)
           THEN "ask" ELSE "end"
  /\ request' = NoRequest
  /\ UNCHANGED <<table, cached, unsteady, changes>>

-----------------------------------------------------------------------------
(* Search: pages at an offset and no total.  The client goes on until a    *)
(* page is not full.                                                       *)

SearchByQuery(l, o) == IF list = "people" THEN SearchUsersByQuery(l, o) ELSE SearchPosts(l, o)

AskSearch(l) == pc = "ask" /\ list \in Searched /\ request' = NoRequest

Search ==
  /\ \E l \in Limits : AskSearch(l) /\ \E P \in SearchByQuery(l, cursor) :
       /\ Show(P)
       /\ cursor' = cursor + l
       /\ pc' = IF Cardinality(P) < l THEN "end" ELSE "ask"
  /\ UNCHANGED <<table, cached, unsteady, changes>>

-----------------------------------------------------------------------------
Change ==
  /\ changes < MaxChanges
  /\ pc # "end"
  /\ changes' = changes + 1
  /\ UNCHANGED <<list, asked, pc, cursor, request, shown, again>>

\* The cached page grows older: a row it may not have is unsteady for it.
Age == cached' = IF cached.none THEN cached
                 ELSE [cached EXCEPT !.missed = @ \cup (Rows \ Listed')]

Note ==
  /\ unsteady' = unsteady \cup (Rows \ Listed')
  /\ Age

\* A row is inserted; created_at is when its transaction began.
Insert(r, t) ==
  /\ Change
  /\ created[r] = Absent
  /\ created' = [created EXCEPT ![r] = t]
  /\ shifted' = shifted \cup {x \in There : t >= created[x]}
  /\ UNCHANGED <<visibility, viewer>>
  /\ Note

Delete(r) ==
  /\ Change
  /\ r \in There
  /\ created' = [created EXCEPT ![r] = Gone]
  /\ shifted' = shifted \cup {x \in There : created[r] >= created[x]}
  /\ UNCHANGED <<visibility, viewer>>
  /\ Note

SetVisibility(r, v) ==
  /\ Change
  /\ r \in There /\ list \in OfPosts
  /\ visibility' = [visibility EXCEPT ![r] = v]
  /\ shifted' = IF list = "found" THEN shifted \cup {x \in There : created[r] >= created[x]}
                ELSE shifted
  /\ UNCHANGED <<created, viewer>>
  /\ Note

Between(x, t, u) == (created[x] >= t \/ created[x] >= u) /\ (created[x] <= t \/ created[x] <= u)

\* A user gains or loses followers, or a post is written anew.
Rerank(r, t) ==
  /\ Change
  /\ r \in There /\ list \in Searched /\ t # created[r]
  /\ created' = [created EXCEPT ![r] = t]
  /\ shifted' = shifted \cup {x \in There : Between(x, t, created[r])}
  /\ UNCHANGED <<visibility, viewer>>
  /\ Note

FollowOrUnfollow ==
  /\ Change
  /\ list = "posts" /\ viewer \in {"follower", "other"}
  /\ viewer' = IF viewer = "other" THEN "follower" ELSE "other"
  /\ UNCHANGED <<created, visibility, shifted>>
  /\ Note

Request ==
  \/ CheckAccess \/ GetUserPosts
  \/ GetDiscover \/ GetNotifications
  \/ FromCache \/ GetPostsByHashtag
  \/ GetFollowers \/ GetFollowing \/ ListUsers \/ CountAndAnswer
  \/ Search

Environment ==
  \/ CacheFirstPage \/ Expire
  \/ \E r \in Rows :
       \/ Delete(r)
       \/ \E t \in Times : Insert(r, t) \/ Rerank(r, t)
       \/ \E v \in Visibilities : SetVisibility(r, v)
  \/ FollowOrUnfollow

Next == Request \/ Environment

Spec == Init /\ [][Next]_vars

-----------------------------------------------------------------------------
\* Rows whose place among the others the query does not settle.
Tied(r) == list \in Unsettled /\ \E x \in Rows \ {r} : created[x] = created[r]

(* A list that continues below a row never shows one twice, whatever comes *)
(* and goes and though its first page is an older one; one that continues  *)
(* at an offset does only if a row was put before it, or it is tied.       *)
ListRepeatsNothing ==
  IF list \in Keyset THEN again = {} ELSE \A r \in again : r \in shifted \/ Tied(r)

(* A row that was in the list all along is not skipped: all those that     *)
(* rank at or above the cursor have been shown, and all of them at the     *)
(* end.  With offsets, unless one before it went or it is tied.            *)
ListSkipsNothing ==
  \A r \in There \ (unsteady \cup shown) :
    \/ list \in Keyset /\ pc # "end" /\ (cursor = Top \/ r \in Below({r}, cursor))
    \/ list \in Offset /\ (pc # "end" \/ r \in shifted \/ Tied(r))

(* The two together: every walk shows what was there to be shown, once.    *)
ListingsExact == ListRepeatsNothing /\ ListSkipsNothing
=============================================================================
