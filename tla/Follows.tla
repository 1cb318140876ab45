------------------------------- MODULE Follows -------------------------------
(***************************************************************************)
(* The follow graph and the counters a trigger keeps on the rows of users. *)
(* A request runs one transaction: the row of follows, the two counters,   *)
(* the event of the outbox.  What it has written stays locked until it     *)
(* ends, so two users who follow each other at once can wait for each      *)
(* other; PostgreSQL then aborts one of the transactions.                  *)
(***************************************************************************)
EXTENDS Naturals, FiniteSets

CONSTANTS
  Members,   \* ids with a row in users
  Others,    \* ids without one: only names are looked up before a follow
  Requests   \* request goroutines

Ids == Members \cup Others
Edge == {e \in Members \X Ids : e[1] # e[2]}

VARIABLES
  follows,   \* the table follows, as committed
  followers, \* users.follower_count
  following, \* users.following_count
  tx         \* the transaction of each request

vars == <<follows, followers, following, tx>>

\* fires: a row was inserted or deleted, so the trigger runs.
NoTx == [pc |-> "idle", edge |-> <<>>, create |-> FALSE, fires |-> FALSE]
Pcs == {"idle", "waiting", "edge", "followee", "follower"}

TypeOK ==
  /\ follows \subseteq Edge
  /\ followers \in [Members -> Nat]
  /\ following \in [Members -> Nat]
  /\ tx \in [Requests -> [pc : Pcs, edge : Edge \cup {<<>>}, create : BOOLEAN, fires : BOOLEAN]]

Init ==
  /\ follows = {}
  /\ followers = [m \in Members |-> 0]
  /\ following = [m \in Members |-> 0]
  /\ tx = [r \in Requests |-> NoTx]

At(r, pc) == tx[r].pc = pc
Become(r, p) == tx' = [tx EXCEPT ![r] = p]

-----------------------------------------------------------------------------
(* Locks: of the row of follows that was inserted or deleted, and of the   *)
(* rows of users the trigger has updated, followee first.                  *)

Writes(r) == tx[r].pc \in {"edge", "followee", "follower"} /\ tx[r].fires
EdgeFree(r) == \A q \in Requests \ {r} : Writes(q) => tx[q].edge # tx[r].edge

UsersHeld(r) ==
  CASE Writes(r) /\ At(r, "followee") -> {tx[r].edge[2]}
    [] Writes(r) /\ At(r, "follower") -> {tx[r].edge[1], tx[r].edge[2]}
    [] OTHER -> {}
UserFree(m, r) == m \in Others \/ \A q \in Requests \ {r} : m \notin UsersHeld(q)

-----------------------------------------------------------------------------
(* The request.                                                            *)

\* Nobody follows itself; persistFollowMutation begins.
Begin(r, e, create) ==
  /\ At(r, "idle")
  /\ e \in Edge
  /\ Become(r, [NoTx EXCEPT !.pc = "waiting", !.edge = e, !.create = create])
  /\ UNCHANGED <<follows, followers, following>>

\* The handlers: one of the Members, by its token, and the user it names.
Follow(r) == \E a \in Members, b \in Ids : Begin(r, <<a, b>>, TRUE)
Unfollow(r) == \E a \in Members, b \in Ids : Begin(r, <<a, b>>, FALSE)

\* Mutant: the trigger runs for a statement that changed no row.
WriteAndFire(r) ==
  /\ At(r, "waiting")
  /\ EdgeFree(r)
  /\ Become(r, [tx[r] EXCEPT !.pc = "edge", !.fires = TRUE])
  /\ UNCHANGED <<follows, followers, following>>

\* INSERT ... ON CONFLICT DO NOTHING, or DELETE: it waits for a transaction
\* that has written the same row, and changes no row if there is none to.
WriteEdge(r) ==
  /\ At(r, "waiting")
  /\ EdgeFree(r)
  /\ Become(r, [tx[r] EXCEPT !.pc = "edge", !.fires = tx[r].create # (tx[r].edge \in follows)])
  /\ UNCHANGED <<follows, followers, following>>

\* update_follow_counts, of the followee and then of the follower.
CountFollowee(r) ==
  /\ At(r, "edge")
  /\ tx[r].fires => UserFree(tx[r].edge[2], r)
  /\ Become(r, [tx[r] EXCEPT !.pc = "followee"])
  /\ UNCHANGED <<follows, followers, following>>

CountFollower(r) ==
  /\ At(r, "followee")
  /\ tx[r].fires => UserFree(tx[r].edge[1], r)
  /\ Become(r, [tx[r] EXCEPT !.pc = "follower"])
  /\ UNCHANGED <<follows, followers, following>>

Counted(create, n) == IF create THEN n + 1 ELSE IF n = 0 THEN 0 ELSE n - 1

\* The commit, with the event of the outbox, which nothing else locks.
Commit(r) ==
  /\ At(r, "follower")
  /\ LET a == tx[r].edge[1]
         b == tx[r].edge[2]
         create == tx[r].create IN
     IF ~tx[r].fires THEN UNCHANGED <<follows, followers, following>>
     ELSE /\ follows' = IF create THEN follows \cup {tx[r].edge} ELSE follows \ {tx[r].edge}
          /\ followers' = [m \in Members |->
                             IF m = b THEN Counted(create, followers[m]) ELSE followers[m]]
          /\ following' = [m \in Members |->
                             IF m = a THEN Counted(create, following[m]) ELSE following[m]]
  /\ Become(r, NoTx)

\* A statement fails, the request is cancelled, or PostgreSQL breaks a
\* deadlock: everything is rolled back and answered 500.
Abort(r) ==
  /\ ~At(r, "idle")
  /\ Become(r, NoTx)
  /\ UNCHANGED <<follows, followers, following>>

Next ==
  \E r \in Requests :
    \/ Follow(r) \/ Unfollow(r)
    \/ WriteEdge(r) \/ CountFollowee(r) \/ CountFollower(r) \/ Commit(r) \/ Abort(r)

Spec == Init /\ [][Next]_vars

-----------------------------------------------------------------------------
(* What is committed agrees: the counters of a profile are the numbers of  *)
(* its edges, though two requests follow or unfollow one user together.    *)
CountsExact ==
  \A m \in Members :
    /\ followers[m] = Cardinality({e \in follows : e[2] = m})
    /\ following[m] = Cardinality({e \in follows : e[1] = m})
=============================================================================
