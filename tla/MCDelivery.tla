------------------------------ MODULE MCDelivery -----------------------------
(* Instances for TLC of the liveness of both halves of delivery: that the  *)
(* outbox settles its events, and that a settled event arrives in the      *)
(* timelines.  The halves meet in EventDelivery, so that a behaviour is    *)
(* one of either and the variables of the other stay put.                  *)
EXTENDS FeedOutbox

CONSTANTS alice, bob, p1, NoUser

VARIABLES
  part,
  post, birth, seen, follows, event, nextEvent, status, delivered, tries, job,
  timeline, written, clock, owed, expiries

\* alice writes one post; bob may follow her and opens his feed.
Feed == INSTANCE FeedTimeline
          WITH Users <- {alice, bob}, Posts <- {p1}, Author <- [p \in {p1} |-> alice],
               Pairs <- {<<bob, alice>>}, Readers <- {bob}, Mutations <- {"create"},
               MaxItems <- 2, FollowerCap <- 2, FollowingCap <- 2, MaxEvents <- 1,
               MaxTries <- 2, MaxClock <- 3, MaxExpiries <- 1

feedVars == <<post, birth, seen, follows, event, nextEvent, status, delivered,
              tries, job, timeline, written, clock, owed, expiries>>
all == <<part, vars, feedVars>>

MCInit ==
  /\ Init /\ Feed!Init
  /\ part \in {"outbox", "feed"}
  /\ part = "outbox" => follows = {}
  /\ part = "feed" => \A i \in Instances : enabled[i]

Leasing(A) == part = "outbox" /\ A /\ UNCHANGED <<part, feedVars>>
Feeding(A) == part = "feed" /\ A /\ UNCHANGED <<part, vars>>

MCNext == Leasing(Next) \/ Feeding(Feed!Next)

\* The fairness of the two specifications, of the half that runs.
MCSpec ==
  /\ MCInit /\ [][MCNext]_all
  /\ WF_all(Leasing(Tick))
  /\ \A i \in Instances :
       /\ WF_all(Leasing(Claim(i) \/ ClaimLost(i)))
       /\ WF_all(Leasing(Restart(i)))
       /\ WF_all(Leasing(Resume(i)))
       /\ \A e \in Events : WF_all(Leasing(Work(i, e)))
  /\ \A n \in Feed!EventIds :
       /\ WF_all(Feeding(Feed!StartHandler(n))) /\ WF_all(Feeding(Feed!Handle(n)))
       /\ WF_all(Feeding(Feed!Complete(n))) /\ WF_all(Feeding(Feed!DeadLetter(n)))

(* The property of FeedTimeline, stated and explained there.             *)
FanoutArrives == Feed!FanoutArrives
=============================================================================
