----------------------------- MODULE MCTimelines ----------------------------
(* Instances for TLC: feed propagation at two sizes.  "fanout" sets one    *)
(* post against follows, more of them than a rebuild reads, and two kinds  *)
(* of rebuild, with retries; "privacy" has two posts that change           *)
(* visibility, are deleted, and compete for timelines of one entry, and a  *)
(* follower who leaves.  "lists" are the other lists, which PostgreSQL     *)
(* keeps; "reindex" is the walk of the repair pass over the catalog, and   *)
(* "codohue" the servers that provision it.                                *)
EXTENDS FeedTimeline

CONSTANTS alice, bob, carol, p1, p2, Rows, Times, Limits, MaxRows, MaxListChanges,
          PageSize, Threshold, MaxEdits, MaxFaults,
          Servers, Watched, MaxLen, MaxRemakes, MaxBehaviors

VARIABLES
  part,
  list, created, visibility, viewer, asked, cached, pc, cursor, request,
  shown, again, unsteady, shifted, changes,
  posts, catalog, calls, run, sent, failed, streak, edits, moved, blurred,
  namespace, made, reachable, server, answer, events, refused, published, faults

Lists == INSTANCE Listings WITH MaxChanges <- MaxListChanges

listVars == <<list, created, visibility, viewer, asked, cached, pc, cursor, request,
              shown, again, unsteady, shifted, changes>>

Reindex == INSTANCE Reindexing
             WITH Posts <- Rows, MaxChanges <- MaxEdits, changes <- edits, unsteady <- moved

reindexVars == <<posts, catalog, calls, run, sent, failed, streak, edits, moved, blurred>>

Codohue == INSTANCE Provisioning WITH MaxEvents <- MaxBehaviors

codohueVars == <<namespace, made, reachable, server, answer, events, refused, published>>

\* alice writes everything; bob may follow her, and carol.
MCAuthor == [p \in Posts |-> alice]
MCPairs == {<<bob, alice>>, <<bob, carol>>}

Privacy == INSTANCE FeedTimeline
             WITH Posts <- {p1, p2}, Author <- [p \in {p1, p2} |-> alice],
                  Pairs <- {<<bob, alice>>}, MaxItems <- 1, MaxTries <- 1, MaxClock <- 1,
                  Mutations <- {"create", "update", "delete", "unfollow"}

\* The lists of the parts that have none.
NoList ==
  /\ Lists!Init
  /\ list = "inbox"
  /\ \A r \in Rows : created[r] = Lists!Absent

NoRun ==
  /\ Reindex!Init
  /\ \A r \in Rows : posts[r] = Reindex!NoRow

NoCodohue == Codohue!Init /\ made = 0 /\ ~reachable

Propagating == Init /\ follows = {}

MCInit ==
  \/ part = "fanout" /\ Init /\ <<bob, alice>> \in follows /\ NoList /\ NoRun /\ NoCodohue
  \/ part = "privacy" /\ Privacy!Init /\ NoList /\ NoRun /\ NoCodohue
  \/ part = "lists" /\ Propagating /\ Lists!Init /\ NoRun /\ NoCodohue
  \/ part = "reindex" /\ Propagating /\ NoList /\ Reindex!Init /\ NoCodohue
  \/ part = "codohue" /\ Propagating /\ NoList /\ NoRun /\ Codohue!Init

MCNext ==
  /\ UNCHANGED part
  /\ \/ part = "fanout" /\ Next /\ UNCHANGED <<listVars, reindexVars, codohueVars, faults>>
     \/ /\ part = "privacy" /\ Privacy!Next
        /\ UNCHANGED <<listVars, reindexVars, codohueVars, faults>>
     \/ part = "lists" /\ Lists!Next /\ UNCHANGED <<vars, reindexVars, codohueVars, faults>>
     \/ part = "reindex" /\ Reindex!Next /\ UNCHANGED <<vars, listVars, codohueVars>>
     \/ part = "codohue" /\ Codohue!Next /\ UNCHANGED <<vars, listVars, reindexVars>>

\* Bound: no event is on the bus while a /health request is answered; neither
\* reads what the other writes.
OneQuestion == published = 0 \/ \A s \in Watched : answer[s].pc = "idle"

MCSpec == MCInit /\ [][MCNext]_<<part, vars, listVars, reindexVars, codohueVars, faults>>

(* The properties of Listings, Reindexing and Provisioning, stated and     *)
(* explained there.                                                        *)
ListingsExact == part = "lists" => Lists!ListingsExact
ReindexRepairs == part = "reindex" => Reindex!ReindexRepairs
ProvisioningHonest == part = "codohue" => Codohue!ProvisioningHonest

(* NoFanoutLost of FeedTimeline, stated and explained there, of the size   *)
(* whose timelines have room for every post.  NeverSharedStaysPrivate is   *)
(* asked of p1 in both: the two posts of "privacy" are interchangeable.    *)
FanoutsKept == part = "fanout" => NoFanoutLost
=============================================================================
