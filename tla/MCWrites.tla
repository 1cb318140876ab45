------------------------------ MODULE MCWrites -------------------------------
(* Instances for TLC: what a write leaves behind when it is done.          *)
(* "outbox": two instances consume the feed events of two mutations;       *)
(* instances are interchangeable (model values).  "liking": likes of a     *)
(* post and of a comment that may mention somebody and is deleted          *)
(* meanwhile.  "thread": a thread of comments with somebody paging         *)
(* through it.  "follows": follows and their counters.                     *)
EXTENDS FeedOutbox, TLC

CONSTANTS Author, Users, Strangers

VARIABLES part, post, following, comments, likes, likeCount, commentCount,
          mentions, notes, req, budget, blurred, walk,
          follows, followers, followees, tx

graph == <<follows, followers, followees, tx>>
engagement == <<post, following, comments, likes, likeCount, commentCount,
                mentions, notes, req, budget, blurred, walk>>

Liking == INSTANCE Engagement
            WITH Requests <- Instances, MaxComments <- 1, MaxRequests <- 2, MaxToggles <- 3,
                 MaxEdits <- 1, MaxMentions <- 1, Walks <- 0, Limit <- 1
Thread == INSTANCE Engagement
            WITH Requests <- Instances, Users <- {Author}, MaxComments <- 3,
                 MaxRequests <- 4, MaxToggles <- 0, MaxEdits <- 0,
                 MaxMentions <- 0, Walks <- 1, Limit <- 1

Graph == INSTANCE Follows
           WITH Members <- Users, Others <- Strangers, Requests <- Instances,
                following <- followees

MCInit ==
  /\ Init /\ Graph!Init
  /\ \/ part \in {"outbox", "liking", "follows"} /\ Liking!Init
     \/ part = "thread" /\ Thread!Init
  /\ part # "outbox" => enabled = [i \in Instances |-> TRUE]

MCNext ==
  /\ UNCHANGED part
  /\ \/ part = "outbox" /\ Next /\ UNCHANGED <<engagement, graph>>
     \/ part = "liking" /\ Liking!Next /\ UNCHANGED <<vars, graph>>
     \/ part = "thread" /\ Thread!Next /\ UNCHANGED <<vars, graph>>
     \/ part = "follows" /\ Graph!Next /\ UNCHANGED <<vars, engagement>>

MCSpec == MCInit /\ [][MCNext]_<<part, vars, engagement, graph>>

\* The requests of the other parts are the same model values.
Symmetry == Permutations(Instances)

(* The properties of Engagement and Follows, stated and explained there.  *)
CountsExact ==
  /\ part = "liking" => Liking!CountsExact
  /\ part = "thread" => Thread!CountsExact
  /\ part = "follows" => Graph!CountsExact
LikeNotesTrue == part = "liking" => Liking!LikeNotesTrue
ListedOnce == part = "thread" => Thread!ListedOnce
EveryToggleFlips == Liking!EveryToggleFlips
=============================================================================
