---------------------------- MODULE MCMixedFeed -----------------------------
(* Instances for TLC.  "scroll": the worlds a scroll meets.  Followed      *)
(* posts at the top, at the bottom or around the others, with or without   *)
(* an own one, post 2 for followers only; a recommendation list, one with  *)
(* a gap in it whose total promises one item more, or one with windows of  *)
(* nothing; trending posts in, against or across the order of time.        *)
(* "catalog": two requests that change a post, and what follows.  "lists": *)
(* a post that changes under the lists all viewers share.                  *)
EXTENDS MixedFeed

CONSTANTS
  AuthorPosts, Viewers, Servers, NoMark,
  Requests, CatalogChanges, ListRequests, ListChanges, MaxFaults

ASSUME HoldersApart == Servers \cap Viewers = {}   \* who holds a list has one name

VARIABLES
  part,
  posts, announced, trending, catalog, ingests, req, changes, faults, raced,
  blurred, kept, flight, page, held, view, answers

Catalog == INSTANCE SharedLists WITH Posts <- AuthorPosts, MaxChanges <- CatalogChanges
Lists == INSTANCE SharedLists
           WITH Posts <- AuthorPosts, Requests <- ListRequests, MaxChanges <- ListChanges

sharedVars ==
  <<posts, announced, trending, catalog, ingests, req, changes, faults, raced,
    blurred, kept, flight, page, held, view, answers>>
all == <<part, vars, sharedVars>>

RecLists == {<<>>, <<3, 4, 2>>, <<2, Junk, 4, 1>>, <<3, Junk, Junk, Junk, 4>>}
Promised == [l \in RecLists |-> IF Len(l) = 4 THEN 5 ELSE Len(l)]

World ==
  /\ recs \in RecLists
  /\ total = Promised[recs]
  /\ following \in {{}, {3, 4}, {1, 2}, {1, 2, 4}}
  /\ own \in {{}, {4} \cap following}
  /\ public = Posts \ ({2} \cap following)
  /\ likes \in [Posts -> {Cold, 0, 1}]
  /\ \A p \in Posts : likes[p] \in {Cold, 1 - (p % 2)}

\* The world of the parts in which nobody scrolls.
Nowhere ==
  /\ recs = <<>> /\ total = 0 /\ following = {} /\ own = {} /\ public = Posts
  /\ likes = [p \in Posts |-> Cold]

MCInit ==
  \/ part = "scroll" /\ World /\ Init /\ Lists!SharedInit
  \/ part = "catalog" /\ Nowhere /\ Init /\ Catalog!SharedInit
  \/ part = "lists" /\ Nowhere /\ Init /\ Lists!SharedInit

Scrolling(A) == part = "scroll" /\ A /\ UNCHANGED <<part, sharedVars>>

MCNext ==
  \/ Scrolling(Next)
  \/ /\ part = "catalog" /\ Catalog!Next
     /\ UNCHANGED <<part, vars, flight, page, held, view, answers>>
  \/ part = "lists" /\ Lists!SharedNext /\ UNCHANGED <<part, vars>>

MCSpec == MCInit /\ [][MCNext]_all /\ WF_all(Scrolling(GetMixed \/ GetDiscover))

(* The properties of MixedFeed, Publishing and SharedLists, stated and     *)
(* explained there.                                                        *)
ScrollExact == ChargedOnce /\ NothingSteppedOver /\ EndsWithNothingLeft
ScrollsEnd == part = "scroll" => ScrollEnds
ChangesFollowed == part = "catalog" => Catalog!ChangesFollowed
ListsTrue == part = "lists" => Lists!MarksOwn /\ Lists!TrendingCurrent
=============================================================================
