------------------------------ MODULE MixedFeed ------------------------------
(***************************************************************************)
(* One viewer scrolls GET /feed through the mixed path: each page is drawn *)
(* from followed authors, the recommendation provider and the trending     *)
(* list, ranked together and cut to PageSize.  When the three have nothing *)
(* left the scroll goes on in the public discover stream.                  *)
(*                                                                         *)
(* The server keeps nothing between two pages.  All that is known of the   *)
(* earlier ones is the FeedCursor the client hands back: one position per  *)
(* source, and short lists of what was served beyond those positions.      *)
(*                                                                         *)
(* Posts are numbers, ordered as the queries order (created_at, id); the   *)
(* number also breaks ties of the trending score.  Of the seen lists the   *)
(* one for discover is a queue in the code and a set here: what its cap    *)
(* drops of one page's posts is any of them.                               *)
(***************************************************************************)
EXTENDS Integers, FiniteSets, Sequences

CONSTANTS
  Posts,            \* post ids
  PageSize,         \* pageSize
  FetchMultiplier,  \* fetchMultiplier
  MaxTrendingSeen,  \* 40: posts the cursor may carry as served by trending
  MaxDiscoverSeen,  \* 60: and as served of what discover may return
  MaxLikes,         \* bound: like counts of trending posts
  MaxRecs,          \* bound: items the provider serves
  MaxFailures,      \* bound: calls that fail during the scroll, each once
  MaxRebuilds       \* bound: rebuilds of the trending list during the scroll

Calls == {"recommender", "load", "trending", "probe"}

ASSUME PostsAssumption == Posts \subseteq Nat \ {0} /\ IsFiniteSet(Posts) /\ Posts # {}
ASSUME SizesAssumption == PageSize \in Nat \ {0} /\ FetchMultiplier \in Nat \ {0}
ASSUME BoundsAssumption ==
  /\ MaxTrendingSeen \in Nat /\ MaxDiscoverSeen \in Nat
  /\ MaxLikes \in Nat /\ MaxRecs \in Nat /\ MaxFailures \in Nat /\ MaxRebuilds \in Nat

VARIABLES
  \* The world the scroll meets.
  following,  \* posts the following query can return to this viewer
  own,        \* those the viewer wrote
  public,     \* posts with visibility public
  likes,      \* like count of a post in the trending list, or Cold
  recs,       \* the provider's list, best first: a post, or Junk
  total,      \* the total it reports
  \* The scroll.
  cursor,     \* the cursor the client holds
  served,     \* [post, source] of every page so far (history)
  again,      \* posts served again: the sources before and after (history)
  dropped,    \* posts a cap has dropped from a seen list (history)
  missed,     \* what a hand-off left behind, past the windows it was made on (history)
  failed,     \* calls that have failed so far (history)
  rebuilds

world == <<following, own, public, recs, total>>
vars == <<world, likes, cursor, served, again, dropped, missed, failed, rebuilds>>

Junk == 0   \* an object id that is no uuid, a negative score, a deleted post
Cold == -1
NoPosition == -1

\* MaxDiscoverTime: the position above every post, which is what no position is.
Top == 1 + CHOOSE p \in Posts : \A q \in Posts : q <= p
\* The score math.MaxFloat64: above every trending post.
Sentinel == (MaxLikes + 1) * Top

Smaller(a, b) == IF a <= b THEN a ELSE b
Newest(S, n) == {p \in S : Cardinality({q \in S : q > p}) < n}

\* sortTrendingOrder: by like count, then by id.
Key(p) == likes[p] * Top + p
Hot == {p \in Posts : likes[p] # Cold}
Hottest(S, n) == {p \in S : Cardinality({q \in S : Key(q) > Key(p)}) < n}

FirstPage ==
  [at |-> "start", rec |-> 0, recSeen |-> {}, trend |-> NoPosition,
   trendSeen |-> {}, fol |-> Top, disc |-> Top, discSeen |-> {}]
Discover(position, seen) ==
  [FirstPage EXCEPT !.at = "discover", !.disc = position, !.discSeen = seen]
NoCursor == [FirstPage EXCEPT !.at = "end"]

Init ==
  /\ following \in SUBSET Posts /\ own \in SUBSET following
  /\ public \in SUBSET Posts
  /\ likes \in [Posts -> 0 .. MaxLikes \cup {Cold}] /\ Hot \subseteq public
  /\ recs \in UNION {[1 .. n -> Posts \cup {Junk}] : n \in 0 .. MaxRecs}
  /\ \A i, j \in DOMAIN recs : recs[i] = recs[j] => i = j \/ recs[i] = Junk
  /\ total \in Len(recs) .. Len(recs) + 1
  /\ cursor = FirstPage
  /\ served = {} /\ again = {} /\ dropped = {} /\ missed = {}
  /\ failed = {} /\ rebuilds = 0

-----------------------------------------------------------------------------
(* What one request collects, given the calls that fail in it.             *)

\* GetFollowingPostsWithCursor, below the following position.
FollowingLimit == PageSize * FetchMultiplier
Followed == Newest({p \in following : p < cursor.fol}, FollowingLimit)

\* GetRecommendations answers one window of the provider's list.  If its posts
\* cannot be loaded the window is collapsed to its start.
WindowEnd(bad) ==
  IF {"recommender", "load"} \cap bad # {} THEN cursor.rec
  ELSE Smaller(cursor.rec + PageSize, Len(recs))

\* Mutant: the seen offsets are not left out.
LoadedAgain(bad) == {o \in cursor.rec .. WindowEnd(bad) - 1 : recs[o + 1] \in public}

\* loadRecommendations: not served yet, a readable id, a public post.
Loaded(bad) ==
  {o \in cursor.rec .. WindowEnd(bad) - 1 :
     o \notin cursor.recSeen /\ recs[o + 1] \in public}

\* A scroll that began without a trending list never asks for it again.
TrendingAsked == cursor.at = "start" \/ cursor.trend # NoPosition

\* applyTrendingCursor: the list below the position, in its order, cut short.
BelowTrend == {p \in Hot : cursor.trend = NoPosition \/ Key(p) < cursor.trend}
TrendingLimit == PageSize + Cardinality(cursor.trendSeen)

\* mixedFeedBuilder.collect
Collect(bad) ==
  LET trending == TrendingAsked /\ "trending" \notin bad
  IN  [followed |-> Followed,
       recEnd |-> WindowEnd(bad),
       recTotal |-> IF "recommender" \in bad THEN 0 ELSE total,
       loaded |-> Loaded(bad),
       recommended |-> {recs[o + 1] : o \in Loaded(bad)},
       window |-> IF trending THEN Hottest(BelowTrend, TrendingLimit) ELSE {},
       truncated |-> trending /\ Cardinality(BelowTrend) > TrendingLimit,
       trendingFailed |-> TrendingAsked /\ "trending" \in bad,
       sourceFailed |-> \/ {"recommender", "load"} \cap bad # {}
                        \/ TrendingAsked /\ "trending" \in bad]

Fresh(got) == got.window \ cursor.trendSeen

\* collapseCandidates: one candidate per post, of the source with most priority;
\* filterEligibleCandidates: by that source.
Candidates(got) ==
  got.followed \cup (got.recommended \ (own \ got.followed))
               \cup (Fresh(got) \ got.recommended)

\* Offsets whose post stayed a candidate, whatever source it is shown under.
ValidOffsets(got) == {o \in got.loaded : recs[o + 1] \in Candidates(got)}

\* The posts of a page, charged to every source that offered them.
Items(got, shown) ==
  {[post |-> p, source |-> "following"] : p \in shown \cap got.followed}
    \cup {[post |-> p, source |-> "recommendation"] : p \in shown \cap got.recommended}
    \cup {[post |-> p, source |-> "trending"] : p \in shown \cap Fresh(got)}

-----------------------------------------------------------------------------
(* nextMixedCursor: where each source continues after a page.              *)

\* The first offset of the window that is still owed, or the window's end.
RecFrontier(got, shown) ==
  LET owed == {o \in ValidOffsets(got) : recs[o + 1] \notin shown}
  IN  CHOOSE o \in owed \cup {got.recEnd} : \A i \in owed : o <= i

\* advanceTrending: the position moves over the served prefix of the window.
TrendServed(got, shown) == cursor.trendSeen \cup (shown \cap got.window)

\* Mutant: the position is put at the lowest score served.
ConsumedByScore(got, shown) ==
  {p \in got.window :
     \E q \in cursor.trendSeen \cup (shown \cap got.window) :
       q \in got.window /\ Key(q) <= Key(p)}

Consumed(got, shown) ==
  {p \in got.window :
     \A q \in got.window : Key(q) >= Key(p) => q \in TrendServed(got, shown)}

\* What is served past the position is carried by id; ids the window does not
\* hold only while it may not be everything below the position.
Ragged(got, shown) ==
  {p \in TrendServed(got, shown) \ Consumed(got, shown) :
     p \in got.window \/ got.truncated \/ got.trendingFailed}

\* Of the list the surplus is dropped: first come those whose place is not
\* known, then the hottest, which the position reaches soonest.
SoonerReached(got, p, q) ==
  IF p \in got.window THEN q \in got.window /\ Key(p) > Key(q)
  ELSE q \in got.window \/ p < q
TrendKept(got, ragged) ==
  {p \in ragged : Cardinality({q \in ragged : SoonerReached(got, q, p)}) < MaxTrendingSeen}

NextTrend(got, consumed) ==
  IF consumed # {}
    THEN CHOOSE k \in {Key(p) : p \in consumed} : \A p \in consumed : k <= Key(p)
  ELSE IF cursor.trend # NoPosition THEN cursor.trend
  ELSE IF got.window # {} \/ got.trendingFailed THEN Sentinel
  ELSE NoPosition

\* oldestFollowingShown, or the position that came in.
NextFollowing(got, shown) ==
  LET shownFollowing == shown \cap got.followed
  IN  IF shownFollowing = {} THEN cursor.fol
      ELSE CHOOSE p \in shownFollowing : \A q \in shownFollowing : p <= q

\* A spent or silent provider: the offset is parked at the end of its answer and
\* the seen offsets are dropped.
RecSpent(got, shown) == RecFrontier(got, shown) >= got.recTotal

\* Mutant: a spent provider is asked from the start again.
NextRecFromStart(got, shown) ==
  IF RecFrontier(got, shown) >= got.recTotal THEN 0 ELSE RecFrontier(got, shown)

NextRec(got, shown) == IF RecSpent(got, shown) THEN got.recEnd ELSE RecFrontier(got, shown)

NextRecSeen(got, shown) ==
  LET offsets == cursor.recSeen \cup {o \in ValidOffsets(got) : recs[o + 1] \in shown}
  IN  IF RecSpent(got, shown) THEN {} ELSE {o \in offsets : o >= RecFrontier(got, shown)}

\* carryDiscoverSeen: what discover would hand back, resuming below the
\* following position.
ReachableByDiscover(shown, fol) == {p \in cursor.discSeen \cup shown : p < fol}

\* Mutant: the list may grow.
CarryAllDiscoverSeen(shown, fol) == {ReachableByDiscover(shown, fol)}

\* Of more than the cap, those carried longest are dropped first.
CarryDiscoverSeen(shown, fol) ==
  LET carried == ReachableByDiscover(shown, fol)
      new == carried \ cursor.discSeen
  IN  {kept \in SUBSET carried :
         /\ Cardinality(kept) = Smaller(Cardinality(carried), MaxDiscoverSeen)
         /\ new \subseteq kept \/ kept \subseteq new}

\* The cursors a page may end with.
NextCursor(got, shown) ==
  LET trend == NextTrend(got, Consumed(got, shown))
      fol == NextFollowing(got, shown)
  IN  {[at |-> "mixed",
        rec |-> NextRec(got, shown), recSeen |-> NextRecSeen(got, shown),
        trend |-> trend,
        trendSeen |-> IF trend = NoPosition THEN {} ELSE TrendKept(got, Ragged(got, shown)),
        fol |-> fol,
        disc |-> Top, discSeen |-> kept] : kept \in CarryDiscoverSeen(shown, fol)}

\* What the caps have kept out of a cursor.
Dropped(got, shown, next) ==
  (Ragged(got, shown) \ TrendKept(got, Ragged(got, shown)))
    \cup (ReachableByDiscover(shown, next.fol) \ next.discSeen)

HasContinuation(c) == c.rec > 0 \/ c.trend # NoPosition \/ c.fol # Top

\* sourcesDry: nothing is left behind this page in any of the three sources.
SourcesDry(got, shown) ==
  /\ Cardinality(got.followed) < FollowingLimit
  /\ ~got.truncated /\ ~got.sourceFailed
  /\ RecSpent(got, shown) \/ got.recEnd = cursor.rec
  /\ Consumed(got, shown) = got.window /\ TrendKept(got, Ragged(got, shown)) = {}
  /\ got.followed \subseteq shown

\* The client receives a page.
Serve(items) ==
  /\ served' = served \cup items
  /\ again' = again \cup
       {[post |-> x[1].post, first |-> x[2].source, then |-> x[1].source] :
          x \in {pair \in items \X served : pair[1].post = pair[2].post}}

-----------------------------------------------------------------------------
(* The public discover stream.                                             *)

DiscoverRows(position, limit) == Newest({p \in public : p < position}, limit)

\* Mutant: the probe asks for one row.
DiscoverHasMoreInOneRow(position, seen, bad) ==
  "probe" \in bad \/ ~(DiscoverRows(position, 1) \subseteq seen)

\* hasMore: one row more than could be skipped; a failed probe says yes.
DiscoverHasMore(position, seen, bad) ==
  \/ "probe" \in bad
  \/ ~(DiscoverRows(position, 1 + Cardinality(seen)) \subseteq seen)

\* Mutant: pruned on sight.
PassedOnSight(rows, seen, shown) == rows \cap seen

\* A seen post is dropped from the carried list once the page has moved past
\* it, not when it is met among the rows behind the page.
Passed(rows, seen, shown) ==
  {p \in rows \cap seen :
     Cardinality({q \in rows \ seen : q > p}) < Cardinality(shown)}

\* discoveryReader.fallback
DiscoverPage(position, seen) ==
  LET rows == DiscoverRows(position, PageSize + 1 + Cardinality(seen))
      kept == rows \ seen
      shown == Newest(kept, PageSize)
      last == CHOOSE p \in shown : \A q \in shown : p <= q
  IN  /\ Serve({[post |-> p, source |-> "discover"] : p \in shown})
      /\ cursor' = IF Cardinality(kept) > PageSize
                     THEN Discover(last, seen \ Passed(rows, seen, shown))
                     ELSE NoCursor

-----------------------------------------------------------------------------
(* GET /feed with the cursor of the page before.                           *)

\* FeedCursor.Validate: a cursor that does not pass is answered 400.
Validate(c) ==
  /\ \A o \in c.recSeen : o >= c.rec
  /\ c.trendSeen # {} => c.trend # NoPosition
  /\ Cardinality(c.trendSeen) <= MaxTrendingSeen
  /\ Cardinality(c.discSeen) <= MaxDiscoverSeen

\* The calls that fail in a request, out of those that have not failed yet;
\* nothing is loaded when the provider has not answered.
Failing ==
  {bad \in SUBSET (Calls \ failed) :
     /\ Cardinality(failed \cup bad) <= MaxFailures
     /\ ~({"recommender", "load"} \subseteq bad)}

\* rank, sort: the candidates in some order, of which a page is the first
\* PageSize.  Which score best, or that the ranker fails, is left open.
Ranked(candidates) ==
  {P \in SUBSET candidates : Cardinality(P) = Smaller(PageSize, Cardinality(candidates))}

Mix(got, bad) ==
  \E shown \in Ranked(Candidates(got)) :
    /\ shown # {}
    /\ Serve(Items(got, shown))
    /\ \E next \in NextCursor(got, shown) :
         /\ dropped' = dropped \cup Dropped(got, shown, next)
         /\ IF \/ ~HasContinuation(next)
               \/ /\ SourcesDry(got, shown)
                  /\ ~DiscoverHasMore(next.fol, next.discSeen, bad)
              THEN cursor' = NoCursor
              ELSE cursor' = next
    /\ UNCHANGED missed

\* No candidate in the windows of this request: the mixed path is given up, also
\* when a source has more past its window.
Behind(got) ==
  {recs[o + 1] : o \in got.recEnd .. Len(recs) - 1} \cup (BelowTrend \ got.window)

HandOff(got) ==
  /\ Candidates(got) = {}
  /\ DiscoverPage(cursor.fol, cursor.discSeen)
  /\ missed' = Behind(got)
  /\ UNCHANGED dropped

GetMixed ==
  /\ cursor.at \in {"start", "mixed"} /\ Validate(cursor)
  /\ UNCHANGED <<world, likes, rebuilds>>
  /\ \E bad \in Failing :
       /\ failed' = failed \cup bad
       /\ \E got \in {Collect(bad)} : Mix(got, bad) \/ HandOff(got)

GetDiscover ==
  /\ cursor.at = "discover" /\ Validate(cursor)
  /\ DiscoverPage(cursor.disc, cursor.discSeen)
  /\ UNCHANGED <<world, likes, dropped, missed, failed, rebuilds>>

\* trendingSource.rebuild: the cached list expires and is read again; a post has
\* moved in it, entered it or left it.
RebuildTrending ==
  /\ rebuilds < MaxRebuilds /\ cursor.at = "mixed"
  /\ rebuilds' = rebuilds + 1
  /\ \E p \in public, n \in 0 .. MaxLikes \cup {Cold} :
       likes' = [likes EXCEPT ![p] = n]
  /\ UNCHANGED <<world, cursor, served, again, dropped, missed, failed>>

Next == GetMixed \/ GetDiscover \/ RebuildTrending

\* The client asks for the next page as long as it is given a cursor.
Spec == Init /\ [][Next]_vars /\ WF_vars(GetMixed \/ GetDiscover)

-----------------------------------------------------------------------------
(* Properties.                                                             *)

From(items, source) == {i.post : i \in {x \in items : x.source = source}}
Shown == {i.post : i \in served}

TypeOK ==
  /\ cursor.at \in {"start", "mixed", "discover", "end"}
  /\ cursor.rec \in 0 .. Len(recs) /\ cursor.recSeen \subseteq cursor.rec .. Len(recs) - 1
  /\ cursor.trend \in NoPosition .. Sentinel /\ cursor.trendSeen \subseteq Posts
  /\ cursor.fol \in 1 .. Top /\ cursor.disc \in 1 .. Top /\ cursor.discSeen \subseteq Posts
  /\ \A i \in served \cup again : i.post \in Posts
  /\ dropped \subseteq Posts /\ missed \subseteq Posts \cup {Junk}
  /\ failed \subseteq Calls /\ rebuilds \in 0 .. MaxRebuilds

\* No source hands out a post again that it was charged for on an earlier page:
\* the positions and seen lists of the cursor account for every item, also for
\* one that was shown under another source's label.  (Trending as long as its
\* list is the same and no cap was met; recommendations as long as the provider
\* answers: after a call that failed, nextMixedCursor no longer carries the seen
\* offsets.)  A post that one source served can come again from a source that
\* had not offered it yet, for each filters by its own record only (see
\* ServedOnce): the property bounds a scroll to showing it once per source.
ChargedOnce ==
  \A r \in again : r.first = r.then =>
    \/ r.then = "trending" /\ (rebuilds > 0 \/ r.post \in dropped)
    \/ r.then = "recommendation" /\ "recommender" \in failed

\* "0 duplicate post IDs" on consecutive pages: what the specification of the
\* scroll asks for.  One page has no duplicates (collect's byID), two pages may:
\* loadRecommendations skips the offsets that were seen, not the posts that were
\* shown as followed or trending.
ServedOnce == again = {}

\* What discover continues with after the hand-off was on no earlier page,
\* whatever source served it there, whatever call failed, and however the
\* trending list moved (carryDiscoverSeen, fallback), but for a post that was
\* dropped when the cursor was full.
DiscoverFresh == \A r \in again : r.then = "discover" => r.post \in dropped

\* A position never moves over something nobody was shown: neither over a
\* recommendation the viewer may see nor, while the list is the same, over a
\* trending post that was outranked off its page.
NothingSteppedOver ==
  cursor.at = "mixed" =>
    /\ \A o \in 0 .. cursor.rec - 1 : recs[o + 1] \in public \ own => recs[o + 1] \in Shown
    /\ rebuilds = 0 /\ cursor.trend # NoPosition =>
         \A p \in Hot : Key(p) >= cursor.trend => p \in Shown

\* The oldest post the following source served: where discover resumes.
Boundary ==
  LET oldest == From(served, "following")
  IN  IF oldest = {} THEN Top ELSE CHOOSE p \in oldest : \A q \in oldest : p <= q

\* The scroll ends only when nothing is left: every public post below the last
\* followed one has been served and, if no call failed on the way, so has every
\* followed post below it, every recommendation and every trending post
\* (sourcesDry, hasMore, HasContinuation), but for what a source held past a
\* window of recommendations that nobody can be shown (GetFeed hands off when a
\* page has no candidate, whether or not its sources are exhausted).
EndsWithNothingLeft ==
  cursor.at = "end" =>
    /\ \A p \in public : p < Boundary => p \in Shown
    /\ failed = {} =>
         /\ \A p \in following : p < Boundary => p \in Shown
         /\ \A o \in DOMAIN recs : recs[o] \in public \ own => recs[o] \in Shown \cup missed
         /\ rebuilds = 0 => Hot \ own \subseteq Shown \cup missed

\* Every scroll ends and no request of it is refused: the cursor a page ends
\* with is one that Validate accepts, although the provider advertises more
\* than it serves, posts move in the trending list while ids of it are carried,
\* and there are more of them than a cursor may carry.
ScrollEnds == <>(cursor.at = "end")

\* specs/003 FR-002: no followed post becomes unreachable because other posts
\* outranked it on an earlier page.
FollowedReachable == cursor.at = "end" => following \subseteq Shown
=============================================================================
