---------------------------- MODULE Writes_proofs ----------------------------
(***************************************************************************)
(* Proofs about what a write leaves behind, under the names of MCWrites:   *)
(* the follow graph, Graph, and the outbox, whose specification MCWrites   *)
(* extends.  Nothing here uses more of a constant than its assumption.     *)
(***************************************************************************)
EXTENDS MCWrites, FiniteSetTheorems, TLAPS

(***************************************************************************)
(* The counters of every profile are the numbers of its edges, for any     *)
(* users and any number of requests at once: the row of an edge is locked  *)
(* from the statement that finds out whether the trigger fires to the      *)
(* commit, so that the edge is still missing, or still there, when it is   *)
(* counted.                                                                *)
(***************************************************************************)

Tx == [pc : Graph!Pcs, edge : Graph!Edge \cup {<<>>}, create : BOOLEAN, fires : BOOLEAN]

\* A transaction is about an edge.
EdgeChosen == \A r \in Instances : ~Graph!At(r, "idle") => tx[r].edge \in Graph!Edge

\* Two transactions that have written rows of follows have written two.
EdgesLocked ==
  \A q, r \in Instances :
    (q # r /\ Graph!Writes(q) /\ Graph!Writes(r)) => tx[q].edge # tx[r].edge

\* What a transaction has found of its edge is what is committed of it.
StillFires ==
  \A r \in Instances : Graph!Writes(r) => (tx[r].create <=> tx[r].edge \notin follows)

FollowInv ==
  /\ Graph!TypeOK /\ EdgeChosen /\ EdgesLocked /\ StillFires
  /\ IsFiniteSet(follows) /\ Graph!CountsExact

-----------------------------------------------------------------------------
(* Cardinality is the one of FiniteSets also as the module Follows sees it. *)
LEMMA SameCardinality == \A S : Graph!Cardinality(S) = Cardinality(S)
BY DEF Cardinality, Graph!Cardinality

(* A request moves within its type, and the others stay.                   *)
LEMMA BecomeTyped ==
  ASSUME tx \in [Instances -> Tx], NEW r \in Instances, NEW p \in Tx, Graph!Become(r, p)
  PROVE  /\ tx' \in [Instances -> Tx]
         /\ tx'[r] = p
         /\ \A q \in Instances : q # r => tx'[q] = tx[q]
BY DEF Graph!Become

\* The edges that end, or begin, at somebody.
EndsAt(S, i, m) == {e \in S : e[i] = m}

(* One edge more.                                                          *)
LEMMA OneMore ==
  ASSUME NEW S, IsFiniteSet(S), NEW e, e \notin S, NEW T, T = S \cup {e},
         NEW i \in {1, 2}, NEW m
  PROVE  /\ Cardinality(EndsAt(S, i, m)) \in Nat
         /\ e[i] = m => Cardinality(EndsAt(T, i, m)) = Cardinality(EndsAt(S, i, m)) + 1
         /\ e[i] # m => Cardinality(EndsAt(T, i, m)) = Cardinality(EndsAt(S, i, m))
<1>1. IsFiniteSet(EndsAt(S, i, m)) /\ Cardinality(EndsAt(S, i, m)) \in Nat
  BY FS_Subset, FS_CardinalityType DEF EndsAt
<1>2. CASE e[i] = m
  <2>1. EndsAt(T, i, m) = EndsAt(S, i, m) \cup {e} /\ e \notin EndsAt(S, i, m)
    BY <1>2 DEF EndsAt
  <2>2. QED
    BY <1>1, <1>2, <2>1, FS_AddElement
<1>3. CASE e[i] # m
  <2>1. EndsAt(T, i, m) = EndsAt(S, i, m)
    BY <1>3 DEF EndsAt
  <2>2. QED
    BY <1>1, <1>3, <2>1
<1>4. QED
  BY <1>2, <1>3

(* One edge less.                                                          *)
LEMMA OneLess ==
  ASSUME NEW S, IsFiniteSet(S), NEW e, e \in S, NEW T, T = S \ {e},
         NEW i \in {1, 2}, NEW m
  PROVE  /\ Cardinality(EndsAt(S, i, m)) \in Nat
         /\ e[i] = m => /\ Cardinality(EndsAt(S, i, m)) # 0
                        /\ Cardinality(EndsAt(T, i, m)) = Cardinality(EndsAt(S, i, m)) - 1
         /\ e[i] # m => Cardinality(EndsAt(T, i, m)) = Cardinality(EndsAt(S, i, m))
<1>1. IsFiniteSet(EndsAt(S, i, m)) /\ Cardinality(EndsAt(S, i, m)) \in Nat
  BY FS_Subset, FS_CardinalityType DEF EndsAt
<1>2. CASE e[i] = m
  <2>1. EndsAt(T, i, m) = EndsAt(S, i, m) \ {e} /\ e \in EndsAt(S, i, m)
    BY <1>2 DEF EndsAt
  <2>2. Cardinality(EndsAt(T, i, m)) = Cardinality(EndsAt(S, i, m)) - 1
    BY <1>1, <2>1, FS_RemoveElement
  <2>3. Cardinality(EndsAt(S, i, m)) # 0
    BY <1>1, <2>1, FS_EmptySet
  <2>4. QED
    BY <1>1, <1>2, <2>2, <2>3
<1>3. CASE e[i] # m
  <2>1. EndsAt(T, i, m) = EndsAt(S, i, m)
    BY <1>3 DEF EndsAt
  <2>2. QED
    BY <1>1, <1>3, <2>1
<1>4. QED
  BY <1>2, <1>3

(* A step that changes no row keeps the invariant, if what the request has *)
(* become is about an edge that nobody else has locked.                    *)
LEMMA StepKeeps ==
  ASSUME FollowInv, NEW r \in Instances, NEW p \in Tx, Graph!Become(r, p),
         UNCHANGED <<follows, followers, followees>>,
         p.pc # "idle" => p.edge \in Graph!Edge,
         (p.pc \in {"edge", "followee", "follower"} /\ p.fires) =>
           /\ p.create <=> p.edge \notin follows
           /\ \A q \in Instances \ {r} : Graph!Writes(q) => tx[q].edge # p.edge
  PROVE  FollowInv'
<1>1. /\ tx' \in [Instances -> Tx] /\ tx'[r] = p
      /\ \A q \in Instances : q # r => tx'[q] = tx[q]
  BY BecomeTyped DEF FollowInv, Graph!TypeOK, Tx
<1>2. Graph!TypeOK' /\ EdgeChosen'
  BY <1>1 DEF FollowInv, Graph!TypeOK, EdgeChosen, Graph!At, Tx
<1>3. EdgesLocked' /\ StillFires'
  BY <1>1 DEF FollowInv, EdgesLocked, StillFires, Graph!Writes
<1>4. IsFiniteSet(follows)' /\ Graph!CountsExact'
  BY DEF FollowInv, Graph!CountsExact
<1>5. QED
  BY <1>2, <1>3, <1>4 DEF FollowInv

(* A commit: nobody else has locked its edge, so what others have found of *)
(* theirs still holds.                                                     *)
LEMMA CommitKeeps ==
  ASSUME FollowInv, NEW r \in Instances, Graph!Commit(r)
  PROVE  FollowInv'
<1>1. Graph!NoTx \in Tx /\ Graph!NoTx.pc = "idle"
  BY DEF Graph!NoTx, Tx, Graph!Pcs
<1>2. /\ Graph!At(r, "follower") /\ Graph!Become(r, Graph!NoTx)
      /\ tx[r] \in Tx /\ tx[r].edge \in Graph!Edge
  BY DEF Graph!Commit, FollowInv, EdgeChosen, Graph!TypeOK, Graph!At, Tx
<1>3. CASE ~tx[r].fires
  BY <1>1, <1>2, <1>3, StepKeeps DEF Graph!Commit
<1>4. CASE tx[r].fires
  <2> DEFINE e == tx[r].edge
             create == tx[r].create
  <2>1. /\ follows' = IF create THEN follows \cup {e} ELSE follows \ {e}
        /\ followers' = [m \in Users |->
                            IF m = e[2] THEN Graph!Counted(create, followers[m])
                            ELSE followers[m]]
        /\ followees' = [m \in Users |->
                            IF m = e[1] THEN Graph!Counted(create, followees[m])
                            ELSE followees[m]]
    BY <1>4 DEF Graph!Commit
  <2>2. /\ tx' \in [Instances -> Tx] /\ tx'[r] = Graph!NoTx
        /\ \A q \in Instances : q # r => tx'[q] = tx[q]
    BY <1>1, <1>2, BecomeTyped DEF FollowInv, Graph!TypeOK, Tx
  <2>3. /\ Graph!Writes(r) /\ e \in Graph!Edge
        /\ create \in BOOLEAN /\ (create <=> e \notin follows)
    BY <1>2, <1>4 DEF FollowInv, StillFires, Graph!Writes, Graph!At, Tx
  <2>4. /\ follows \subseteq Graph!Edge
        /\ followers \in [Users -> Nat] /\ followees \in [Users -> Nat]
    BY DEF FollowInv, Graph!TypeOK
  <2> HIDE DEF e, create
  <2>5. ASSUME NEW n \in Nat PROVE Graph!Counted(create, n) \in Nat
    BY DEF Graph!Counted
  <2>6. Graph!TypeOK' /\ EdgeChosen'
    <3>1. follows' \subseteq Graph!Edge
      BY <2>1, <2>3, <2>4
    <3>2. followers' \in [Users -> Nat] /\ followees' \in [Users -> Nat]
      BY <2>1, <2>4, <2>5
    <3>3. QED
      BY <1>1, <2>2, <3>1, <3>2 DEF FollowInv, Graph!TypeOK, EdgeChosen, Graph!At, Tx
  <2>7. EdgesLocked'
    BY <1>1, <2>2 DEF FollowInv, EdgesLocked, Graph!Writes
  <2>8. StillFires'
    <3> SUFFICES ASSUME NEW q \in Instances, Graph!Writes(q)'
                 PROVE  tx'[q].create <=> tx'[q].edge \notin follows'
      BY DEF StillFires
    <3>1. q # r /\ tx'[q] = tx[q] /\ Graph!Writes(q)
      BY <1>1, <2>2 DEF Graph!Writes
    <3>2. tx[q].edge # e
      BY <2>3, <3>1 DEF FollowInv, EdgesLocked, e
    <3>3. tx[q].create <=> tx[q].edge \notin follows
      BY <3>1 DEF FollowInv, StillFires
    <3>4. QED
      BY <2>1, <3>1, <3>2, <3>3
  <2>9. IsFiniteSet(follows')
    BY <2>1, FS_AddElement, FS_RemoveElement DEF FollowInv
  <2>10. Graph!CountsExact'
    <3> SUFFICES ASSUME NEW m \in Users
                 PROVE  /\ followers'[m] = Cardinality(EndsAt(follows', 2, m))
                        /\ followees'[m] = Cardinality(EndsAt(follows', 1, m))
      BY SameCardinality DEF Graph!CountsExact, EndsAt
    <3>1. /\ followers[m] = Cardinality(EndsAt(follows, 2, m))
          /\ followees[m] = Cardinality(EndsAt(follows, 1, m))
      BY SameCardinality DEF FollowInv, Graph!CountsExact, EndsAt
    <3>0. IsFiniteSet(follows)
      BY DEF FollowInv
    <3>2. /\ create => follows' = follows \cup {e} /\ e \notin follows
          /\ ~create => follows' = follows \ {e} /\ e \in follows
      BY <2>1, <2>3
    <3>3. ASSUME NEW i \in {1, 2}, NEW n, n = Cardinality(EndsAt(follows, i, m))
          PROVE  (IF m = e[i] THEN Graph!Counted(create, n) ELSE n)
                   = Cardinality(EndsAt(follows', i, m))
      <4>1. CASE create
        <5>1. /\ e[i] = m => Cardinality(EndsAt(follows', i, m)) = n + 1
              /\ e[i] # m => Cardinality(EndsAt(follows', i, m)) = n
          BY <3>0, <3>2, <3>3, <4>1, OneMore
        <5>2. QED
          BY <4>1, <5>1 DEF Graph!Counted
      <4>2. CASE ~create
        <5>1. /\ e[i] = m => n # 0 /\ Cardinality(EndsAt(follows', i, m)) = n - 1
              /\ e[i] # m => Cardinality(EndsAt(follows', i, m)) = n
          BY <3>0, <3>2, <3>3, <4>2, OneLess
        <5>2. QED
          BY <4>2, <5>1 DEF Graph!Counted
      <4>3. QED
        BY <4>1, <4>2
    <3>4. /\ followers'[m] =
                IF m = e[2] THEN Graph!Counted(create, followers[m]) ELSE followers[m]
          /\ followees'[m] =
                IF m = e[1] THEN Graph!Counted(create, followees[m]) ELSE followees[m]
      BY <2>1
    <3>5. QED
      BY <3>1, <3>3, <3>4
  <2>11. QED
    BY <2>6, <2>7, <2>8, <2>9, <2>10 DEF FollowInv
<1>5. QED
  BY <1>2, <1>3, <1>4 DEF Tx

-----------------------------------------------------------------------------
(* CountsExact holds of every behaviour: the counters the trigger          *)
(* update_follow_counts keeps equal the edges, for any users, among them   *)
(* some without an account, and any number of requests of one edge at once. *)
THEOREM FollowersCounted == Graph!Spec => []Graph!CountsExact
<1>1. Graph!Init => FollowInv
  <2> SUFFICES ASSUME Graph!Init PROVE FollowInv
    OBVIOUS
  <2>1. IsFiniteSet(follows) /\ Graph!CountsExact
    <3>1. \A m \in Users : EndsAt(follows, 1, m) = {} /\ EndsAt(follows, 2, m) = {}
      BY DEF Graph!Init, EndsAt
    <3>2. QED
      BY <3>1, FS_EmptySet, SameCardinality DEF Graph!Init, Graph!CountsExact, EndsAt
  <2>2. QED
    BY <2>1 DEF Graph!Init, FollowInv, Graph!TypeOK, EdgeChosen, EdgesLocked, StillFires,
                Graph!NoTx, Graph!Pcs,
                Graph!Writes, Graph!At
<1>2. FollowInv /\ [Graph!Next]_Graph!vars => FollowInv'
  <2> SUFFICES ASSUME FollowInv, [Graph!Next]_Graph!vars PROVE FollowInv'
    OBVIOUS
  <2>0. Graph!NoTx \in Tx /\ \A r \in Instances : tx[r] \in Tx
    BY DEF FollowInv, Graph!TypeOK, Graph!NoTx, Tx, Graph!Pcs
  <2>1. ASSUME NEW r \in Instances, NEW e, NEW create \in BOOLEAN, Graph!Begin(r, e, create)
        PROVE  FollowInv'
    <3> DEFINE p == [Graph!NoTx EXCEPT !.pc = "waiting", !.edge = e, !.create = create]
    <3>1. p \in Tx /\ p.pc = "waiting" /\ p.edge \in Graph!Edge
      BY <2>1 DEF Graph!Begin, Graph!NoTx, Tx, Graph!Pcs
    <3>2. Graph!Become(r, p) /\ UNCHANGED <<follows, followers, followees>>
      BY <2>1 DEF Graph!Begin
    <3> HIDE DEF p
    <3>3. QED
      BY <3>1, <3>2, StepKeeps
  <2>2. ASSUME NEW r \in Instances, Graph!WriteEdge(r) PROVE FollowInv'
    <3> DEFINE p == [tx[r] EXCEPT !.pc = "edge",
                                  !.fires = tx[r].create # (tx[r].edge \in follows)]
    <3>1. /\ p \in Tx /\ p.pc = "edge" /\ p.edge = tx[r].edge /\ p.create = tx[r].create
          /\ p.fires <=> (tx[r].create # (tx[r].edge \in follows))
      BY <2>0 DEF Tx, Graph!Pcs
    <3>2. Graph!Become(r, p) /\ UNCHANGED <<follows, followers, followees>>
      BY <2>2 DEF Graph!WriteEdge
    <3>3. tx[r].edge \in Graph!Edge /\ Graph!EdgeFree(r) /\ tx[r].create \in BOOLEAN
      BY <2>0, <2>2 DEF Graph!WriteEdge, FollowInv, EdgeChosen, Graph!At, Tx
    <3> HIDE DEF p
    <3>4. QED
      BY <3>1, <3>2, <3>3, StepKeeps DEF Graph!EdgeFree
  <2>3. ASSUME NEW r \in Instances, Graph!CountFollowee(r) \/ Graph!CountFollower(r)
        PROVE  FollowInv'
    <3>1. PICK pc \in {"followee", "follower"} : Graph!Become(r, [tx[r] EXCEPT !.pc = pc])
      BY <2>3 DEF Graph!CountFollowee, Graph!CountFollower
    <3> DEFINE p == [tx[r] EXCEPT !.pc = pc]
    <3>2. /\ p \in Tx /\ p.pc = pc /\ p.edge = tx[r].edge /\ p.create = tx[r].create
          /\ p.fires = tx[r].fires
      BY <2>0 DEF Tx, Graph!Pcs
    <3>3. tx[r].edge \in Graph!Edge /\ (tx[r].fires => Graph!Writes(r))
      BY <2>3 DEF Graph!CountFollowee, Graph!CountFollower, Graph!At, Graph!Writes,
                  FollowInv, EdgeChosen
    <3>4. tx[r].fires =>
            /\ tx[r].create <=> tx[r].edge \notin follows
            /\ \A q \in Instances \ {r} : Graph!Writes(q) => tx[q].edge # tx[r].edge
      BY <3>3 DEF FollowInv, StillFires, EdgesLocked
    <3>5. UNCHANGED <<follows, followers, followees>>
      BY <2>3 DEF Graph!CountFollowee, Graph!CountFollower
    <3> HIDE DEF p
    <3>6. QED
      BY <3>1, <3>2, <3>3, <3>4, <3>5, StepKeeps DEF p
  <2>4. ASSUME NEW r \in Instances, Graph!Commit(r) PROVE FollowInv'
    BY <2>4, CommitKeeps
  <2>5. ASSUME NEW r \in Instances, Graph!Abort(r) PROVE FollowInv'
    <3>1. Graph!NoTx.pc = "idle"
      BY DEF Graph!NoTx
    <3>2. QED
      BY <2>0, <2>5, <3>1, StepKeeps DEF Graph!Abort
  <2>6. CASE UNCHANGED Graph!vars
    BY <2>6 DEF Graph!vars, Graph!TypeOK, Graph!CountsExact,
                FollowInv, EdgeChosen, EdgesLocked, StillFires,
                Graph!Writes, Graph!At
  <2>7. ASSUME NEW r \in Instances, Graph!Follow(r) \/ Graph!Unfollow(r) PROVE FollowInv'
    BY <2>1, <2>7 DEF Graph!Follow, Graph!Unfollow
  <2>8. QED
    BY <2>2, <2>3, <2>4, <2>5, <2>6, <2>7 DEF Graph!Next
<1>3. FollowInv => Graph!CountsExact
  BY DEF FollowInv
<1>4. QED
  BY <1>1, <1>2, <1>3, PTL DEF Graph!Spec

-----------------------------------------------------------------------------
(***************************************************************************)
(* The outbox, for every set of events and instances and every value of    *)
(* the limits and deadlines that satisfies the assumptions.                *)
(***************************************************************************)

USE AttemptsAssumption, BackoffAssumption, TicksAssumption, FaultAssumption

(* The backoff is a number of ticks.                                       *)
LEMMA BackoffType == \A n \in Nat : Backoff(n) \in Nat
<1> SUFFICES ASSUME NEW n \in Nat PROVE Backoff(n) \in Nat
  OBVIOUS
<1>1. Lesser(n, BackoffExpCap) \in 0..BackoffExpCap
  BY DEF Lesser
<1> QED  BY <1>1 DEF Backoff

(* What a failed attempt writes is a row, live or dead.                    *)
LEMMA FailedType ==
  ASSUME NEW r \in Row, NEW att \in Nat
  PROVE  Failed(r, att) \in Row
<1>1. Backoff(att) \in Nat
  BY BackoffType
<1> QED  BY <1>1 DEF Failed, Row, RowStates

(* A countdown stays a number.                                             *)
LEMMA DecType == \A n \in Nat : Dec(n) \in Nat
BY DEF Dec

-----------------------------------------------------------------------------
(* The initial state has the types.                                        *)
LEMMA InitTypeOK == Init => TypeOK
BY DEF Init, TypeOK, Row, RowStates, Task, Phases, NoTask

(* Every step keeps every variable in its type.                            *)
LEMMA NextTypeOK == TypeOK /\ [Next]_vars => TypeOK'
<1> SUFFICES ASSUME TypeOK, [Next]_vars PROVE TypeOK'
  OBVIOUS
<1> USE DEF TypeOK
<1>1. ASSUME NEW e \in Events, Enqueue(e) PROVE TypeOK'
  BY <1>1 DEF Enqueue, Row, RowStates
<1> DEFINE LeasedRow(e) == [st |-> row[e].st, attempts |-> row[e].attempts + 1,
                            wait |-> LeaseTicks]
<1>2. ASSUME NEW e \in Events PROVE LeasedRow(e) \in Row
  BY DEF Row
<1>3. ASSUME NEW S \in Batches, Lease(S) PROVE row' \in [Events -> Row]
  BY <1>2, <1>3 DEF Lease
<1>4. ASSUME NEW i \in Instances, Claim(i) PROVE TypeOK'
  <2>1. PICK S \in Batches : /\ Lease(S)
                             /\ task' = [task EXCEPT ![i] =
                                  [e \in Events |->
                                     IF e \in S
                                     THEN [phase |-> "handling",
                                           att |-> row[e].attempts + 1,
                                           left |-> ClaimTicks + HandlerTicks]
                                     ELSE NoTask]]
    BY <1>4 DEF Claim
  <2>2. row' \in [Events -> Row]
    BY <1>3, <2>1
  <2>3. ASSUME NEW e \in Events
        PROVE  [phase |-> "handling", att |-> row[e].attempts + 1,
                left |-> ClaimTicks + HandlerTicks] \in Task
    BY DEF Task, Phases, Row
  <2>4. NoTask \in Task
    BY DEF NoTask, Task, Phases
  <2>5. task' \in [Instances -> [Events -> Task]]
    BY <2>1, <2>3, <2>4
  <2> QED  BY <1>4, <2>2, <2>5 DEF Claim
<1>5. ASSUME NEW i \in Instances, ClaimLost(i) PROVE TypeOK'
  BY <1>5, <1>3 DEF ClaimLost, Fault
<1>6. ASSUME NEW i \in Instances, NEW e \in Events, Work(i, e) PROVE TypeOK'
  <2>1. CASE HandleOk(i, e)
    BY <2>1 DEF HandleOk, Outcome, Task, Phases
  <2>2. CASE HandleError(i, e)
    BY <2>2 DEF HandleError, Outcome, Task, Phases
  <2>3. NoTask \in Task
    BY DEF NoTask, Task, Phases
  <2>4. CASE Complete(i, e)
    BY <2>3, <2>4 DEF Complete, Row, RowStates
  <2>5. CASE Fail(i, e)
    <3>1. Failed(row[e], task[i][e].att) \in Row
      BY FailedType DEF Task
    <3> QED  BY <2>3, <2>5, <3>1 DEF Fail
  <2>6. CASE PersistLost(i, e)
    BY <2>3, <2>6 DEF PersistLost, Fault
  <2> QED  BY <1>6, <2>1, <2>2, <2>4, <2>5, <2>6 DEF Work
<1>7. ASSUME NEW i \in Instances, Crash(i) PROVE TypeOK'
  <2>1. NoTask \in Task
    BY DEF NoTask, Task, Phases
  <2> QED  BY <1>7, <2>1 DEF Crash, Fault
<1>8. ASSUME NEW i \in Instances, Restart(i) \/ Stall(i) \/ Resume(i)
      PROVE  TypeOK'
  BY <1>8 DEF Restart, Stall, Resume, Fault, Active
<1>11. ASSUME NEW i \in Instances, SetFanout(i) PROVE TypeOK'
  <2>1. enabled' \in [Instances -> BOOLEAN]
    BY <1>11, Zenon DEF SetFanout
  <2> QED  BY <1>11, <2>1 DEF SetFanout
<1>9. CASE Tick
  <2>1. \A r \in Row : [r EXCEPT !.wait = Dec(r.wait)] \in Row
    BY DecType DEF Row
  <2>2. \A t \in Task : [t EXCEPT !.left = Dec(t.left)] \in Task
    BY DecType DEF Task
  <2> QED  BY <1>9, <2>1, <2>2 DEF Tick
<1>10. CASE UNCHANGED vars
  BY <1>10 DEF vars
<1> QED  BY <1>1, <1>4, <1>5, <1>6, <1>7, <1>8, <1>9, <1>10, <1>11 DEF Next, Control

(* Every variable has its type in every reachable state.                   *)
THEOREM TypeCorrect == Spec => []TypeOK
BY InitTypeOK, NextTypeOK, PTL DEF Spec

-----------------------------------------------------------------------------
(* What NoEventLost and DeadLetterFinal rest on.  A result waits to be     *)
(* recorded as a success only after the handler accepted the event; a      *)
(* worker has a row to work on; a dead row has used up its attempts, so    *)
(* that a failure reported late cannot revive it.                          *)
CompletingHandled ==
  \A i \in Instances, e \in Events :
    task[i][e].phase = "completing" => e \in handled

TaskHasRow ==
  \A i \in Instances, e \in Events :
    task[i][e].phase # "none" => row[e].st # "absent"

DeadExhausted ==
  \A e \in Events : row[e].st = "dead" => row[e].attempts >= MaxAttempts

DeliveryInv ==
  /\ TypeOK
  /\ NoEventLost
  /\ CompletingHandled
  /\ TaskHasRow
  /\ DeadExhausted

(* Nothing is stored or handled at first.                                  *)
LEMMA InitDeliveryInv == Init => DeliveryInv
<1> SUFFICES ASSUME Init PROVE DeliveryInv
  OBVIOUS
<1>1. TypeOK
  BY InitTypeOK
<1> QED
  BY <1>1 DEF Init, DeliveryInv, NoEventLost, CompletingHandled, TaskHasRow,
              DeadExhausted, NoTask

(* A claim hands out rows that are live, and leaves their state alone.     *)
LEMMA LeaseKeepsState ==
  ASSUME TypeOK, NEW S \in Batches, Lease(S)
  PROVE  /\ S \subseteq Events
         /\ \A e \in S : row[e].st = "live"
         /\ \A e \in Events : row'[e].st = row[e].st
         /\ \A e \in Events : row[e].st = "dead" => row'[e] = row[e]
BY DEF TypeOK, Batches, Claimable, Lease

(* The passing of time changes countdowns only.                            *)
LEMMA TickKeepsState ==
  ASSUME TypeOK, Tick
  PROVE  /\ handled' = handled
         /\ \A e \in Events : /\ row'[e].st = row[e].st
                              /\ row'[e].attempts = row[e].attempts
                              /\ row'[e].wait = Dec(row[e].wait)
         /\ \A i \in Instances, e \in Events :
              /\ task'[i][e].phase = task[i][e].phase
              /\ task'[i][e].left = Dec(task[i][e].left)
<1>1. \A r \in Row : LET q == [r EXCEPT !.wait = Dec(r.wait)]
                     IN  q.st = r.st /\ q.attempts = r.attempts /\ q.wait = Dec(r.wait)
  BY DEF Row
<1>2. \A t \in Task : LET s == [t EXCEPT !.left = Dec(t.left)]
                      IN  s.phase = t.phase /\ s.left = Dec(t.left)
  BY DEF Task
<1>3. \A e \in Events : row[e] \in Row
  BY DEF TypeOK
<1>4. \A i \in Instances, e \in Events : task[i][e] \in Task
  BY DEF TypeOK
<1>5. \A e \in Events : row'[e] = [row[e] EXCEPT !.wait = Dec(row[e].wait)]
  BY DEF Tick
<1>6. \A i \in Instances, e \in Events :
        task'[i][e] = [task[i][e] EXCEPT !.left = Dec(task[i][e].left)]
  BY DEF Tick
<1> QED  BY <1>1, <1>2, <1>3, <1>4, <1>5, <1>6 DEF Tick

(* DeliveryInv is inductive.                                               *)
LEMMA NextDeliveryInv == DeliveryInv /\ [Next]_vars => DeliveryInv'
<1> SUFFICES ASSUME DeliveryInv, [Next]_vars PROVE DeliveryInv'
  OBVIOUS
<1>0. TypeOK /\ TypeOK'
  BY NextTypeOK DEF DeliveryInv
<1> DEFINE Goal == NoEventLost' /\ CompletingHandled' /\ TaskHasRow' /\ DeadExhausted'
<1> USE DEF DeliveryInv, NoEventLost, CompletingHandled, TaskHasRow, DeadExhausted
<1>1. ASSUME NEW e \in Events, Enqueue(e) PROVE Goal
  BY <1>0, <1>1 DEF Enqueue, TypeOK
<1>2. ASSUME NEW i \in Instances, Claim(i) PROVE Goal
  <2>1. PICK S \in Batches : /\ Lease(S)
                             /\ task' = [task EXCEPT ![i] =
                                  [e \in Events |->
                                     IF e \in S
                                     THEN [phase |-> "handling",
                                           att |-> row[e].attempts + 1,
                                           left |-> ClaimTicks + HandlerTicks]
                                     ELSE NoTask]]
    BY <1>2 DEF Claim
  <2>2. /\ \A e \in S : row[e].st = "live"
        /\ \A e \in Events : row'[e].st = row[e].st
        /\ \A e \in Events : row[e].st = "dead" => row'[e] = row[e]
    BY <1>0, <2>1, LeaseKeepsState
  <2>3. handled' = handled
    BY <1>2 DEF Claim
  <2> QED  BY <1>0, <2>1, <2>2, <2>3 DEF TypeOK, NoTask
<1>3. ASSUME NEW i \in Instances, ClaimLost(i) PROVE Goal
  <2>1. PICK S \in Batches : Lease(S)
    BY <1>3 DEF ClaimLost
  <2>2. /\ \A e \in Events : row'[e].st = row[e].st
        /\ \A e \in Events : row[e].st = "dead" => row'[e] = row[e]
    BY <1>0, <2>1, LeaseKeepsState
  <2> QED  BY <1>3, <2>2 DEF ClaimLost
<1>4. ASSUME NEW i \in Instances, NEW e \in Events, Work(i, e) PROVE Goal
  <2>1. CASE HandleOk(i, e)
    BY <1>0, <2>1 DEF HandleOk, Outcome, TypeOK
  <2>2. CASE HandleError(i, e)
    BY <1>0, <2>2 DEF HandleError, Outcome, TypeOK
  <2>3. CASE Complete(i, e)
    BY <1>0, <2>3 DEF Complete, NoTask, TypeOK
  <2>4. CASE Fail(i, e)
    <3>1. row'[e].st = "dead" => row'[e].attempts >= MaxAttempts
      BY <1>0, <2>4 DEF Fail, Failed, Stored, TypeOK
    <3>2. row'[e].st = "gone" => row[e].st = "gone"
      BY <1>0, <2>4 DEF Fail, Failed, Stored, TypeOK
    <3>3. row'[e].st # "absent"
      BY <1>0, <2>4 DEF Fail, Failed, Stored, TypeOK
    <3>4. \A f \in Events \ {e} : row'[f] = row[f]
      BY <1>0, <2>4 DEF Fail, TypeOK
    <3>5. /\ task' = [task EXCEPT ![i][e] = NoTask]
          /\ handled' = handled
      BY <2>4 DEF Fail
    <3> QED  BY <1>0, <3>1, <3>2, <3>3, <3>4, <3>5 DEF NoTask, TypeOK
  <2>5. CASE PersistLost(i, e)
    BY <1>0, <2>5 DEF PersistLost, NoTask, TypeOK
  <2> QED  BY <1>4, <2>1, <2>2, <2>3, <2>4, <2>5 DEF Work
<1>5. ASSUME NEW i \in Instances, Crash(i) PROVE Goal
  BY <1>0, <1>5 DEF Crash, NoTask, TypeOK
<1>6. ASSUME NEW i \in Instances,
             Restart(i) \/ Stall(i) \/ Resume(i) \/ SetFanout(i)
      PROVE  Goal
  BY <1>6 DEF Restart, Stall, Resume, SetFanout
<1>7. ASSUME Tick PROVE Goal
  BY <1>0, <1>7, TickKeepsState
<1>8. ASSUME UNCHANGED vars PROVE Goal
  <2>1. row' = row /\ task' = task /\ handled' = handled
    BY <1>8 DEF vars
  <2> QED  BY <2>1
<1>9. Goal
  BY <1>1, <1>2, <1>3, <1>4, <1>5, <1>6, <1>7, <1>8 DEF Next, Control
<1> QED  BY <1>0, <1>9

(* So it holds in every reachable state.                                   *)
LEMMA Invariance == Spec => []DeliveryInv
BY InitDeliveryInv, NextDeliveryInv, PTL DEF Spec

(* No event is lost: a row is deleted only after its event was handled to  *)
(* the end, whatever crashes, times out, is paused or claimed twice.       *)
THEOREM EventsSurvive == Spec => []NoEventLost
<1>1. DeliveryInv => NoEventLost
  BY DEF DeliveryInv
<1> QED  BY <1>1, Invariance, PTL

(* A dead-lettered row stays dead until it is deleted, although fail can   *)
(* write NULL into dead_lettered_at and checks no lease.                   *)
THEOREM DeadLettersStay == Spec => DeadLetterFinal
<1> DEFINE A == \A e \in Events : row[e].st = "dead" => row'[e].st \in {"dead", "gone"}
<1>1. ASSUME DeliveryInv, [Next]_vars PROVE [A]_vars
  <2> SUFFICES ASSUME NEW e \in Events, row[e].st = "dead", Next
               PROVE  row'[e].st \in {"dead", "gone"}
    BY <1>1
  <2>0. TypeOK /\ row[e].attempts >= MaxAttempts
    BY <1>1 DEF DeliveryInv, DeadExhausted
  <2>1. ASSUME NEW f \in Events, Enqueue(f) PROVE row'[e].st = "dead"
    BY <2>0, <2>1 DEF Enqueue, TypeOK
  <2>2. ASSUME NEW i \in Instances, Control(i) PROVE row'[e].st = "dead"
    <3>1. ASSUME NEW S \in Batches, Lease(S) PROVE row'[e].st = "dead"
      BY <2>0, <3>1, LeaseKeepsState
    <3>2. CASE Claim(i) \/ ClaimLost(i)
      BY <3>1, <3>2 DEF Claim, ClaimLost
    <3>3. CASE Crash(i) \/ Restart(i) \/ Stall(i) \/ Resume(i) \/ SetFanout(i)
      BY <3>3 DEF Crash, Restart, Stall, Resume, SetFanout
    <3> QED  BY <2>2, <3>2, <3>3 DEF Control
  <2>3. ASSUME NEW i \in Instances, NEW f \in Events, Work(i, f)
        PROVE  row'[e].st \in {"dead", "gone"}
    <3>1. CASE HandleOk(i, f) \/ HandleError(i, f) \/ PersistLost(i, f)
      BY <3>1 DEF HandleOk, HandleError, PersistLost
    <3>2. CASE Complete(i, f)
      BY <2>0, <3>2 DEF Complete, TypeOK
    <3>3. CASE Fail(i, f)
      BY <2>0, <3>3 DEF Fail, Failed, TypeOK
    <3> QED  BY <2>3, <3>1, <3>2, <3>3 DEF Work
  <2>4. CASE Tick
    BY <2>0, <2>4, TickKeepsState
  <2> QED  BY <2>1, <2>2, <2>3, <2>4 DEF Next
<1> QED  BY <1>1, Invariance, PTL DEF Spec, DeadLetterFinal

-----------------------------------------------------------------------------
(* The lease outlives the worker.  Whoever works on an event runs in a     *)
(* live process, and the row's wait exceeds what is left of the worker's   *)
(* deadlines, so that nobody else can claim the row before it is done.     *)
Budget(t) == t.left + IF t.phase = "handling" THEN PersistTicks ELSE 0

NobodyPaused == stalled = {}

WorkersRun ==
  \A i \in Instances, e \in Events : task[i][e].phase # "none" => i \in up

LeaseOutlivesWorker ==
  \A i \in Instances, e \in Events :
    task[i][e].phase # "none" => row[e].wait > Budget(task[i][e])

LeaseInv ==
  /\ TypeOK
  /\ NobodyPaused
  /\ WorkersRun
  /\ LeaseOutlivesWorker
  /\ ExclusiveHandling

(* Nobody works at first.                                                  *)
LEMMA InitLeaseInv == Init => LeaseInv
<1> SUFFICES ASSUME Init PROVE LeaseInv
  OBVIOUS
<1>1. TypeOK
  BY InitTypeOK
<1> QED
  BY <1>1 DEF Init, LeaseInv, NobodyPaused, WorkersRun, LeaseOutlivesWorker,
              ExclusiveHandling, NoTask

(* A row that somebody works on is not due.                                *)
LEMMA WorkedOnIsLeased ==
  ASSUME LeaseInv, NEW i \in Instances, NEW S \in Batches, NEW e \in S
  PROVE  task[i][e].phase = "none"
<1>1. e \in Events /\ row[e].wait = 0
  BY DEF Batches, Claimable
<1>2. task[i][e] \in Task
  BY <1>1 DEF LeaseInv, TypeOK
<1>3. Budget(task[i][e]) \in Nat
  BY <1>2, TicksAssumption DEF Budget, Task
<1> QED  BY <1>1, <1>3 DEF LeaseInv, LeaseOutlivesWorker

(* A claim makes new leases and shortens none that somebody relies on.     *)
LEMMA ClaimKeepsLeases ==
  ASSUME LeaseInv, NEW S \in Batches, Lease(S)
  PROVE  \A i \in Instances, e \in Events :
           task[i][e].phase # "none" => e \notin S /\ row'[e] = row[e]
BY WorkedOnIsLeased DEF Lease

(* LeaseInv is inductive if nobody is paused.                              *)
LEMMA NextLeaseInv ==
  ASSUME Stalls = FALSE
  PROVE  LeaseInv /\ [Next]_vars => LeaseInv'
<1> SUFFICES ASSUME LeaseInv, [Next]_vars PROVE LeaseInv'
  OBVIOUS
<1>0. TypeOK /\ TypeOK'
  BY NextTypeOK DEF LeaseInv
<1> DEFINE Goal == NobodyPaused' /\ WorkersRun' /\ LeaseOutlivesWorker' /\ ExclusiveHandling'
<1> USE LeaseAssumption DEF NobodyPaused, WorkersRun, LeaseOutlivesWorker, ExclusiveHandling
<1>1. ASSUME NEW e \in Events, Enqueue(e) PROVE Goal
  <2>1. \A f \in Events : row'[f].wait = row[f].wait
    BY <1>0, <1>1 DEF Enqueue, TypeOK, Row
  <2> QED  BY <1>1, <2>1 DEF Enqueue, LeaseInv
<1>2. ASSUME NEW i \in Instances, Claim(i) PROVE Goal
  <2> DEFINE Claimed(e) == [phase |-> "handling", att |-> row[e].attempts + 1,
                            left |-> ClaimTicks + HandlerTicks]
  <2>1. PICK S \in Batches : /\ Lease(S)
                             /\ task' = [task EXCEPT ![i] =
                                  [e \in Events |->
                                     IF e \in S THEN Claimed(e) ELSE NoTask]]
    BY <1>2 DEF Claim
  <2>2. i \in up /\ up' = up /\ stalled' = stalled
    BY <1>2 DEF Claim, Active
  <2>3. \A e \in S : /\ row'[e].wait = LeaseTicks
                    /\ task'[i][e].phase = "handling"
                    /\ task'[i][e].left = ClaimTicks + HandlerTicks
    BY <1>0, <2>1 DEF Lease, Batches, Claimable, TypeOK
  <2>4. \A e \in Events \ S : task'[i][e].phase = "none"
    BY <1>0, <2>1 DEF TypeOK, NoTask
  <2>5. \A j \in Instances \ {i}, e \in Events : task'[j][e] = task[j][e]
    BY <1>0, <2>1 DEF TypeOK
  <2>6. \A j \in Instances, e \in Events :
          task[j][e].phase # "none" => e \notin S /\ row'[e] = row[e]
    BY <2>1, ClaimKeepsLeases
  <2>7. \A e \in S : Budget(task'[i][e]) = ClaimTicks + HandlerTicks + PersistTicks
    BY <2>3 DEF Budget
  <2>8. NobodyPaused' /\ WorkersRun'
    BY <2>2, <2>4, <2>5 DEF LeaseInv
  <2>9. LeaseOutlivesWorker'
    <3> SUFFICES ASSUME NEW j \in Instances, NEW e \in Events,
                        task'[j][e].phase # "none"
                 PROVE  row'[e].wait > Budget(task'[j][e])
      BY DEF Budget
    <3>1. CASE j = i
      BY <3>1, <2>3, <2>4, <2>7
    <3>2. CASE j # i
      BY <3>2, <2>5, <2>6 DEF LeaseInv
    <3> QED  BY <3>1, <3>2
  <2>10. ExclusiveHandling'
    BY <2>4, <2>5, <2>6 DEF LeaseInv
  <2> QED  BY <2>8, <2>9, <2>10
<1>3. ASSUME NEW i \in Instances, ClaimLost(i) PROVE Goal
  <2>1. PICK S \in Batches : Lease(S)
    BY <1>3 DEF ClaimLost
  <2>2. \A j \in Instances, e \in Events :
          task[j][e].phase # "none" => row'[e] = row[e]
    BY <2>1, ClaimKeepsLeases
  <2> QED  BY <1>3, <2>2 DEF ClaimLost, LeaseInv, Budget
<1>4. ASSUME NEW i \in Instances, NEW e \in Events, Work(i, e) PROVE Goal
  <2>1. /\ up' = up /\ stalled' = stalled
        /\ task[i][e].phase # "none"
        /\ \A f \in Events \ {e} : row'[f] = row[f]
    BY <1>0, <1>4 DEF Work, HandleOk, HandleError, Complete, Fail, PersistLost, TypeOK
  <2>2. \A j \in Instances, f \in Events :
          j # i \/ f # e => task'[j][f] = task[j][f]
    BY <1>0, <1>4 DEF Work, HandleOk, HandleError, Complete, Fail, PersistLost, TypeOK
  <2>3. \A j \in Instances \ {i} : task[j][e].phase = "none"
    BY <2>1 DEF LeaseInv
  <2>4. task'[i][e].phase = "none" \/ row'[e].wait > Budget(task'[i][e])
    <3>1. CASE HandleOk(i, e) \/ HandleError(i, e)
      <4>1. PICK phase \in {"completing", "failing"} :
              /\ task'[i][e] = Outcome(phase, task[i][e])
              /\ task[i][e].phase = "handling"
              /\ row' = row
        BY <1>0, <3>1 DEF HandleOk, HandleError, TypeOK
      <4>2. task[i][e] \in Task /\ row[e] \in Row
        BY <1>0 DEF TypeOK
      <4>3. row[e].wait > task[i][e].left + PersistTicks
        BY <4>1 DEF LeaseInv, Budget
      <4>4. Budget(task'[i][e]) = PersistTicks
        BY <4>1 DEF Budget, Outcome
      <4> QED  BY <4>1, <4>2, <4>3, <4>4 DEF Task, Row
    <3>2. CASE Complete(i, e) \/ Fail(i, e) \/ PersistLost(i, e)
      BY <1>0, <3>2 DEF Complete, Fail, PersistLost, NoTask, TypeOK
    <3> QED  BY <1>4, <3>1, <3>2 DEF Work
  <2>5. NobodyPaused' /\ WorkersRun'
    BY <2>1, <2>2 DEF LeaseInv
  <2>6. LeaseOutlivesWorker'
    BY <2>1, <2>2, <2>3, <2>4 DEF LeaseInv
  <2>7. ExclusiveHandling'
    BY <2>2, <2>3 DEF LeaseInv
  <2> QED  BY <2>5, <2>6, <2>7
<1>5. ASSUME NEW i \in Instances, Crash(i) PROVE Goal
  <2>1. \A j \in Instances, e \in Events :
          task'[j][e].phase # "none" => j # i /\ task'[j][e] = task[j][e]
    BY <1>0, <1>5 DEF Crash, NoTask, TypeOK
  <2> QED  BY <1>5, <2>1 DEF Crash, LeaseInv
<1>6. ASSUME NEW i \in Instances,
             Restart(i) \/ Stall(i) \/ Resume(i) \/ SetFanout(i)
      PROVE  Goal
  <2>1. /\ row' = row /\ task' = task
        /\ up \subseteq up' /\ stalled' = {}
    BY <1>6 DEF Restart, Stall, Resume, SetFanout, LeaseInv
  <2> QED  BY <2>1 DEF LeaseInv
<1>7. ASSUME Tick PROVE Goal
  <2>1. up' = up /\ stalled' = stalled
    BY <1>7 DEF Tick
  <2>2. ASSUME NEW i \in Instances, NEW e \in Events, task'[i][e].phase # "none"
        PROVE  row'[e].wait > Budget(task'[i][e])
    <3>1. task[i][e] \in Task /\ row[e] \in Row
      BY <1>0 DEF TypeOK
    <3>2. /\ row'[e].wait = Dec(row[e].wait)
          /\ task'[i][e].phase = task[i][e].phase
          /\ task'[i][e].left = Dec(task[i][e].left)
      BY <1>0, <1>7, TickKeepsState
    <3>3. task[i][e].left > 0
      BY <1>7, <2>2, <3>2 DEF Tick, LeaseInv
    <3>4. row[e].wait > Budget(task[i][e])
      BY <2>2, <3>2 DEF LeaseInv
    <3> QED  BY <3>1, <3>2, <3>3, <3>4 DEF Budget, Dec, Task, Row
  <2>3. \A i \in Instances, e \in Events : task'[i][e].phase = task[i][e].phase
    BY <1>0, <1>7, TickKeepsState
  <2> QED  BY <2>1, <2>2, <2>3 DEF LeaseInv, Budget
<1>8. ASSUME UNCHANGED vars PROVE Goal
  <2>1. row' = row /\ task' = task /\ up' = up /\ stalled' = stalled
    BY <1>8 DEF vars
  <2> QED  BY <2>1 DEF LeaseInv, Budget
<1> HIDE DEF Goal
<1>9. Goal
  BY <1>1, <1>2, <1>3, <1>4, <1>5, <1>6, <1>7, <1>8 DEF Next, Control
<1> QED  BY <1>0, <1>9 DEF Goal, LeaseInv

(* Unless a process is paused past its deadlines, no two workers ever work *)
(* on one event: the lease alone makes complete and fail safe.             *)
THEOREM LeaseExcludes ==
  ASSUME Stalls = FALSE
  PROVE  Spec => []ExclusiveHandling
<1>1. LeaseInv => ExclusiveHandling
  BY DEF LeaseInv
<1> QED  BY <1>1, InitLeaseInv, NextLeaseInv, PTL DEF Spec

-----------------------------------------------------------------------------
(* Why a fault pays for every attempt beyond the cap.  A row whose         *)
(* attempts are used up is dead as soon as any failure is recorded, so to  *)
(* be claimed again it must wait out the lease; and its last worker is     *)
(* done before that unless a fault befell it after its own claim.          *)
Attended(e) ==
  \E i \in up \ stalled : /\ task[i][e].phase # "none"
                          /\ row[e].wait > Budget(task[i][e])

LastAttemptAttended ==
  \A e \in Events : (row[e].st = "live" /\ row[e].attempts >= MaxAttempts) =>
    row[e].attempts < MaxAttempts + faults \/ Attended(e)

AbsentUntried == \A e \in Events : row[e].st = "absent" => row[e].attempts = 0

AttemptsInv == TypeOK /\ AttemptsPaidFor /\ LastAttemptAttended /\ AbsentUntried

(* Nothing was attempted at first.                                         *)
LEMMA InitAttemptsInv == Init => AttemptsInv
<1> SUFFICES ASSUME Init PROVE AttemptsInv
  OBVIOUS
<1>1. TypeOK
  BY InitTypeOK
<1> QED
  BY <1>1 DEF Init, AttemptsInv, AttemptsPaidFor, LastAttemptAttended, AbsentUntried

(* After a fault no attendant is needed.                                   *)
LEMMA FaultPays ==
  ASSUME AttemptsInv, TypeOK', Fault,
         \A e \in Events : row'[e].attempts = row[e].attempts /\ row'[e].st = row[e].st
  PROVE  AttemptsInv'
<1>1. faults \in Nat /\ faults' = faults + 1 /\ \A e \in Events : row[e].attempts \in Nat
  BY DEF Fault, AttemptsInv, TypeOK, Row
<1>2. \A e \in Events : row'[e].attempts < MaxAttempts + faults'
  BY <1>1 DEF AttemptsInv, AttemptsPaidFor
<1>3. AttemptsPaidFor'
  BY <1>1, <1>2 DEF AttemptsPaidFor, AttemptsInv
<1> QED
  BY <1>2, <1>3 DEF AttemptsInv, LastAttemptAttended, AbsentUntried

(* A step that keeps the attempts of every row, and the attendant of every *)
(* row that is still live and has used them up, keeps the invariant.       *)
LEMMA AttendedStays ==
  ASSUME AttemptsInv, TypeOK', faults' = faults,
         \A e \in Events : row'[e].attempts = row[e].attempts,
         \A e \in Events : row'[e].st = "absent" => row[e].st = "absent",
         \A e \in Events : (row'[e].st = "live" /\ row[e].attempts >= MaxAttempts)
                             => row[e].st = "live" /\ (Attended(e) => Attended(e)')
  PROVE  AttemptsInv'
BY DEF AttemptsInv, AttemptsPaidFor, LastAttemptAttended, AbsentUntried

(* A claim counts an attempt, which the row can afford.                    *)
LEMMA ClaimPays ==
  ASSUME AttemptsInv, TypeOK', NEW i \in Instances, Claim(i) \/ ClaimLost(i)
  PROVE  AttemptsInv'
<1>1. PICK S \in Batches : Lease(S)
  BY DEF Claim, ClaimLost
<1>2. /\ S \subseteq Events /\ faults \in Nat /\ LeaseTicks \in Nat /\ MaxAttempts \in Nat
      /\ \A e \in Events : row[e].attempts \in Nat
      /\ \A j \in Instances, e \in Events : task[j][e] \in Task
      /\ up \subseteq Instances
  BY DEF Batches, Claimable, AttemptsInv, TypeOK, Row
<1>3. /\ \A e \in S : /\ row[e].st = "live" /\ row[e].wait = 0
                      /\ row'[e].attempts = row[e].attempts + 1
                      /\ row'[e].st = "live" /\ row'[e].wait = LeaseTicks
      /\ \A e \in Events \ S : row'[e] = row[e]
  BY <1>1, <1>2 DEF Lease, Batches, Claimable
<1>4. \A e \in S : row[e].attempts < MaxAttempts + faults
  <2> SUFFICES ASSUME NEW e \in S PROVE row[e].attempts < MaxAttempts + faults
    OBVIOUS
  <2>1. \A j \in Instances : Budget(task[j][e]) \in Nat
    BY <1>2 DEF Budget, Task
  <2>2. ~Attended(e)
    BY <1>2, <1>3, <2>1 DEF Attended
  <2>3. CASE row[e].attempts >= MaxAttempts
    BY <1>2, <1>3, <2>2, <2>3 DEF AttemptsInv, LastAttemptAttended
  <2>4. CASE row[e].attempts < MaxAttempts
    BY <1>2, <2>4
  <2> QED
    BY <1>2, <2>3, <2>4
<1>5. CASE ClaimLost(i)
  <2>1. faults' = faults + 1
    BY <1>5 DEF ClaimLost, Fault
  <2>2. \A e \in Events : row'[e].attempts \in Nat /\ row'[e].attempts < MaxAttempts + faults'
    BY <1>2, <1>3, <1>4, <2>1 DEF AttemptsInv, AttemptsPaidFor
  <2>3. AttemptsPaidFor' /\ LastAttemptAttended'
    BY <1>2, <2>1, <2>2 DEF AttemptsPaidFor, LastAttemptAttended
  <2>4. AbsentUntried'
    BY <1>3 DEF AttemptsInv, AbsentUntried
  <2> QED
    BY <2>3, <2>4 DEF AttemptsInv
<1>6. CASE Claim(i)
  <2> DEFINE Claimed(e) == [phase |-> "handling", att |-> row[e].attempts + 1,
                            left |-> ClaimTicks + HandlerTicks]
  <2>1. PICK T \in Batches : /\ Lease(T)
                             /\ task' = [task EXCEPT ![i] =
                                  [e \in Events |-> IF e \in T THEN Claimed(e) ELSE NoTask]]
    BY <1>6 DEF Claim
  <2>2. T = S
    <3>1. \A e \in Events : e \in T <=> row'[e].attempts = row[e].attempts + 1
      BY <1>2, <2>1 DEF Lease
    <3>2. \A e \in Events : e \in S <=> row'[e].attempts = row[e].attempts + 1
      BY <1>1, <1>2 DEF Lease
    <3> QED
      BY <3>1, <3>2 DEF Batches, Claimable
  <2>3. i \in up \ stalled /\ up' = up /\ stalled' = stalled /\ faults' = faults /\ Idle(i)
    BY <1>6 DEF Claim, Active
  <2>4. \A e \in S : /\ task'[i][e].phase = "handling"
                     /\ task'[i][e].left = ClaimTicks + HandlerTicks
    BY <1>2, <2>1, <2>2 DEF AttemptsInv, TypeOK
  <2>5. \A e \in S : Attended(e)'
    <3>1. \A e \in S : row'[e].wait > Budget(task'[i][e])
      BY <1>3, <2>4, LeaseAssumption DEF Budget
    <3> QED
      BY <2>3, <2>4, <3>1 DEF Attended, Budget
  <2>6. \A j \in Instances \ {i}, e \in Events : task'[j][e] = task[j][e]
    BY <2>1 DEF AttemptsInv, TypeOK
  <2>7. \A e \in Events \ S : Attended(e) => Attended(e)'
    BY <1>2, <1>3, <2>3, <2>6 DEF Attended, Idle, Budget
  <2>8. AttemptsPaidFor'
    BY <1>2, <1>3, <1>4, <2>3 DEF AttemptsInv, AttemptsPaidFor
  <2>9. LastAttemptAttended'
    BY <1>3, <2>3, <2>5, <2>7 DEF AttemptsInv, LastAttemptAttended
  <2>10. AbsentUntried'
    BY <1>3 DEF AttemptsInv, AbsentUntried
  <2> QED
    BY <2>8, <2>9, <2>10 DEF AttemptsInv
<1> QED
  BY <1>5, <1>6

(* AttemptsInv is inductive.                                               *)
LEMMA NextAttemptsInv == AttemptsInv /\ [Next]_vars => AttemptsInv'
<1> SUFFICES ASSUME AttemptsInv, [Next]_vars PROVE AttemptsInv'
  OBVIOUS
<1>0. TypeOK /\ TypeOK'
  BY NextTypeOK DEF AttemptsInv
<1>1. ASSUME NEW e \in Events, Enqueue(e) PROVE AttemptsInv'
  <2>1. /\ row[e].attempts = 0
        /\ \A f \in Events : row'[f].attempts = row[f].attempts /\ row'[f].wait = row[f].wait
        /\ \A f \in Events \ {e} : row'[f].st = row[f].st
        /\ row'[e].st = "live"
    BY <1>0, <1>1 DEF Enqueue, TypeOK, Row, AttemptsInv, AbsentUntried
  <2>2. UNCHANGED <<task, up, stalled, faults>>
    BY <1>1 DEF Enqueue
  <2>3. \A f \in Events : Attended(f) => Attended(f)'
    BY <2>1, <2>2 DEF Attended, Budget
  <2> QED
    BY <1>0, <2>1, <2>2, <2>3, AttendedStays
<1>2. ASSUME NEW i \in Instances, Claim(i) \/ ClaimLost(i) PROVE AttemptsInv'
  BY <1>0, <1>2, ClaimPays
<1>3. ASSUME NEW i \in Instances, NEW e \in Events, Work(i, e) PROVE AttemptsInv'
  <2>1. CASE HandleOk(i, e) \/ HandleError(i, e)
    <3>1. PICK phase \in {"completing", "failing"} :
            task' = [task EXCEPT ![i][e] = Outcome(phase, task[i][e])]
      BY <2>1 DEF HandleOk, HandleError
    <3>2. /\ task[i][e] \in Task /\ task[i][e].phase = "handling"
          /\ UNCHANGED <<row, up, stalled, faults>>
      BY <1>0, <2>1 DEF HandleOk, HandleError, TypeOK
    <3>3. /\ task'[i][e].phase # "none" /\ Budget(task'[i][e]) <= Budget(task[i][e])
          /\ Budget(task'[i][e]) \in Nat /\ Budget(task[i][e]) \in Nat
      <4>1. task'[i][e] = Outcome(phase, task[i][e])
        BY <1>0, <3>1 DEF TypeOK
      <4>2. /\ task'[i][e].phase = phase /\ task'[i][e].left = PersistTicks
            /\ task[i][e].left \in Nat
        BY <3>2, <4>1 DEF Outcome, Task
      <4>3. phase # "none" /\ phase # "handling"
        BY <3>1
      <4>4. Budget(task'[i][e]) = PersistTicks
        BY <4>2, <4>3 DEF Budget
      <4>5. Budget(task[i][e]) = task[i][e].left + PersistTicks
        BY <3>2 DEF Budget
      <4> QED
        BY <4>2, <4>3, <4>4, <4>5
    <3>4. \A j \in Instances, f \in Events : (j # i \/ f # e) => task'[j][f] = task[j][f]
      BY <1>0, <3>1 DEF TypeOK
    <3>5. \A f \in Events : row[f].wait \in Nat
      BY <1>0 DEF TypeOK, Row
    <3>6. \A f \in Events : Attended(f) => Attended(f)'
      <4> SUFFICES ASSUME NEW f \in Events, Attended(f) PROVE Attended(f)'
        OBVIOUS
      <4>1. PICK j \in up \ stalled :
              task[j][f].phase # "none" /\ row[f].wait > Budget(task[j][f])
        BY DEF Attended
      <4>2. j \in Instances
        BY <1>0 DEF TypeOK
      <4>3. CASE j = i /\ f = e
        BY <3>2, <3>3, <3>5, <4>1, <4>3 DEF Attended, Budget
      <4>4. CASE j # i \/ f # e
        <5>1. task'[j][f] = task[j][f]
          BY <3>4, <4>2, <4>4
        <5> QED
          BY <3>2, <4>1, <5>1 DEF Attended, Budget
      <4> QED
        BY <4>3, <4>4
    <3> QED
      BY <1>0, <3>2, <3>6, AttendedStays
  <2>2. CASE Complete(i, e) \/ Fail(i, e)
    <3>1. /\ UNCHANGED <<up, stalled, faults>>
          /\ \A f \in Events \ {e} : row'[f] = row[f]
          /\ \A f \in Events : row'[f].attempts = row[f].attempts
          /\ row'[e].st = "live" => row[e].attempts < MaxAttempts
          /\ row'[e].st = "absent" => row[e].st = "absent"
      <4>1. CASE Complete(i, e)
        BY <1>0, <4>1 DEF Complete, TypeOK, Row
      <4>2. CASE Fail(i, e)
        <5>1. /\ Failed(row[e], task[i][e].att).attempts = row[e].attempts
              /\ Failed(row[e], task[i][e].att).st = "live" => row[e].attempts < MaxAttempts
              /\ Failed(row[e], task[i][e].att).st # "absent"
          BY <1>0 DEF Failed, TypeOK, Row
        <5>2. CASE Stored(e)
          <6>1. row' = [row EXCEPT ![e] = Failed(row[e], task[i][e].att)]
            BY <4>2, <5>2 DEF Fail
          <6> QED
            BY <1>0, <4>2, <5>1, <6>1 DEF Fail, TypeOK
        <5>3. CASE ~Stored(e)
          BY <4>2, <5>3 DEF Fail, Stored
        <5> QED
          BY <5>2, <5>3
      <4> QED
        BY <2>2, <4>1, <4>2
    <3>2. \A j \in Instances, f \in Events \ {e} : task'[j][f] = task[j][f]
      BY <1>0, <2>2 DEF Complete, Fail, TypeOK
    <3>3. \A f \in Events \ {e} : Attended(f) => Attended(f)'
      BY <1>0, <3>1, <3>2 DEF Attended, Budget, TypeOK
    <3>4. \A f \in Events : row[f].attempts \in Nat
      BY <1>0 DEF TypeOK, Row
    <3> QED
      BY <1>0, <3>1, <3>3, <3>4, AttendedStays
  <2>3. CASE PersistLost(i, e)
    BY <1>0, <2>3, FaultPays DEF PersistLost
  <2> QED
    BY <1>3, <2>1, <2>2, <2>3 DEF Work
<1>4. ASSUME NEW i \in Instances, Crash(i) \/ Stall(i) PROVE AttemptsInv'
  BY <1>0, <1>4, FaultPays DEF Crash, Stall
<1>5. ASSUME NEW i \in Instances, Restart(i) \/ Resume(i) \/ SetFanout(i) PROVE AttemptsInv'
  <2>1. UNCHANGED <<row, task, faults>> /\ up \ stalled \subseteq up' \ stalled'
    BY <1>0, <1>5 DEF Restart, Resume, SetFanout, TypeOK
  <2>2. \A e \in Events : Attended(e) => Attended(e)'
    BY <2>1 DEF Attended, Budget
  <2> QED
    BY <1>0, <2>1, <2>2, AttendedStays
<1>6. ASSUME Tick PROVE AttemptsInv'
  <2>1. UNCHANGED <<up, stalled, faults>>
    BY <1>6 DEF Tick
  <2>2. \A e \in Events : row'[e].st = row[e].st /\ row'[e].attempts = row[e].attempts
    BY <1>0, <1>6, TickKeepsState
  <2>3. \A e \in Events : Attended(e) => Attended(e)'
    <3> SUFFICES ASSUME NEW e \in Events, Attended(e) PROVE Attended(e)'
      OBVIOUS
    <3>1. PICK i \in up \ stalled :
            task[i][e].phase # "none" /\ row[e].wait > Budget(task[i][e])
      BY DEF Attended
    <3>2. task[i][e] \in Task /\ row[e] \in Row /\ task[i][e].left > 0 /\ i \in Instances
      BY <1>0, <1>6, <3>1 DEF Tick, TypeOK
    <3>3. /\ row'[e].wait = Dec(row[e].wait) /\ task'[i][e].phase = task[i][e].phase
          /\ task'[i][e].left = Dec(task[i][e].left)
      BY <1>0, <1>6, <3>2, TickKeepsState
    <3>4. row'[e].wait > Budget(task'[i][e])
      BY <3>1, <3>2, <3>3 DEF Budget, Dec, Task, Row
    <3> QED
      BY <2>1, <3>1, <3>3, <3>4 DEF Attended, Budget
  <2> QED
    BY <1>0, <2>1, <2>2, <2>3, AttendedStays
<1>7. CASE UNCHANGED vars
  BY <1>7 DEF vars, AttemptsInv, TypeOK, AttemptsPaidFor, LastAttemptAttended, AbsentUntried,
              Attended, Budget
<1> QED
  BY <1>1, <1>2, <1>3, <1>4, <1>5, <1>6, <1>7 DEF Next, Control

(* Every attempt beyond outboxMaxAttempts is paid for by a fault, whatever *)
(* is paused, lost or reported late (claim counts the attempt, fail        *)
(* decides on the dead letter).                                            *)
THEOREM AttemptsBounded == Spec => []AttemptsPaidFor
<1>1. AttemptsInv => AttemptsPaidFor
  BY DEF AttemptsInv
<1> QED  BY <1>1, InitAttemptsInv, NextAttemptsInv, PTL DEF Spec

-----------------------------------------------------------------------------
(* The outbox implements EventDelivery: every step is a step of the        *)
(* abstract specification or leaves its variables alone.                   *)
LEMMA InitImplements == Init => Delivery!Init
BY DEF Init, Delivery!Init, Status

(* What leaves states and results alone is a stutter.                      *)
LEMMA SameStates ==
  ASSUME \A e \in Events : row'[e].st = row[e].st, handled' = handled
  PROVE  UNCHANGED Delivery!vars
<1>1. \A e \in Events : Status(e)' = Status(e)
  BY DEF Status
<1> QED  BY <1>1 DEF Delivery!vars

(* A change of one row is a change of one status.                          *)
LEMMA OneStatusChanges ==
  ASSUME NEW e \in Events, \A f \in Events \ {e} : row'[f].st = row[f].st
  PROVE  [f \in Events |-> Status(f)]' =
           [[f \in Events |-> Status(f)] EXCEPT ![e] = Status(e)']
<1>1. \A f \in Events \ {e} : Status(f)' = Status(f)
  BY DEF Status
<1> QED  BY <1>1

(* Every step maps to a step or a stutter.                                 *)
LEMMA NextImplements ==
  DeliveryInv /\ [Next]_vars => [Delivery!Next]_(Delivery!vars)
<1> SUFFICES ASSUME DeliveryInv, [Next]_vars
             PROVE  Delivery!Next \/ UNCHANGED Delivery!vars
  OBVIOUS
<1>0. TypeOK
  BY DEF DeliveryInv
<1> DEFINE Goal == Delivery!Next \/ UNCHANGED Delivery!vars
<1>1. ASSUME NEW e \in Events, Enqueue(e) PROVE Goal
  <2>1. Delivery!Publish(e)
    <3>1. /\ row[e].st = "absent" /\ row'[e].st = "live"
          /\ \A f \in Events \ {e} : row'[f].st = row[f].st
          /\ handled' = handled
      BY <1>0, <1>1 DEF Enqueue, TypeOK, Row
    <3>2. Status(e) = "absent" /\ Status(e)' = "pending"
      BY <3>1 DEF Status
    <3> QED  BY <3>1, <3>2, OneStatusChanges DEF Delivery!Publish
  <2> QED  BY <2>1 DEF Delivery!Next
<1>2. ASSUME NEW i \in Instances, Control(i) PROVE Goal
  <2>1. ASSUME NEW S \in Batches, Lease(S), handled' = handled PROVE Goal
    BY <1>0, <2>1, LeaseKeepsState, SameStates
  <2>2. CASE Claim(i) \/ ClaimLost(i)
    BY <2>1, <2>2 DEF Claim, ClaimLost
  <2>3. CASE Crash(i) \/ Restart(i) \/ Stall(i) \/ Resume(i) \/ SetFanout(i)
    BY <2>3, SameStates DEF Crash, Restart, Stall, Resume, SetFanout
  <2> QED  BY <1>2, <2>2, <2>3 DEF Control
<1>3. ASSUME NEW i \in Instances, NEW e \in Events, Work(i, e) PROVE Goal
  <2>1. CASE HandleOk(i, e)
    <3>1. row[e].st \in RowStates \ {"absent"}
      BY <1>0, <2>1 DEF HandleOk, DeliveryInv, TaskHasRow, TypeOK, Row
    <3>2. Delivery!Deliver(e)
      BY <2>1, <3>1 DEF HandleOk, Delivery!Deliver, Status, RowStates
    <3> QED  BY <3>2 DEF Delivery!Next
  <2>2. CASE HandleError(i, e) \/ PersistLost(i, e)
    BY <2>2, SameStates DEF HandleError, PersistLost
  <2>3. CASE Complete(i, e)
    <3>1. row[e].st \in RowStates \ {"absent"} /\ e \in handled
      BY <1>0, <2>3 DEF Complete, DeliveryInv, TaskHasRow, CompletingHandled, TypeOK, Row
    <3>2. /\ row'[e].st = "gone"
          /\ \A f \in Events \ {e} : row'[f] = row[f]
          /\ handled' = handled
      BY <1>0, <2>3 DEF Complete, TypeOK, Row
    <3>3. CASE row[e].st = "gone"
      BY <3>2, <3>3, SameStates
    <3>4. CASE row[e].st # "gone"
      <4>1. Delivery!Finish(e)
        <5>1. Status(e) \in {"pending", "parked"} /\ Status(e)' = "done"
          BY <3>1, <3>2, <3>4 DEF Status, RowStates
        <5> QED  BY <3>1, <3>2, <5>1, OneStatusChanges DEF Delivery!Finish
      <4> QED  BY <4>1 DEF Delivery!Next
    <3> QED  BY <3>3, <3>4
  <2>4. CASE Fail(i, e)
    <3>1. /\ \A f \in Events \ {e} : row'[f] = row[f]
          /\ handled' = handled
      BY <1>0, <2>4 DEF Fail, TypeOK, Row
    <3>2. \/ row'[e].st = row[e].st
          \/ row[e].st = "live" /\ row'[e].st = "dead"
      BY <1>0, <2>4 DEF Fail, Failed, Stored, DeliveryInv, DeadExhausted, TypeOK, Row
    <3>3. CASE row'[e].st = row[e].st
      BY <3>1, <3>3, SameStates
    <3>4. CASE row[e].st = "live" /\ row'[e].st = "dead"
      <4>1. Delivery!Park(e)
        <5>1. Status(e) = "pending" /\ Status(e)' = "parked"
          BY <3>4 DEF Status
        <5> QED  BY <3>1, <5>1, OneStatusChanges DEF Delivery!Park
      <4> QED  BY <4>1 DEF Delivery!Next
    <3> QED  BY <3>2, <3>3, <3>4
  <2> QED  BY <1>3, <2>1, <2>2, <2>3, <2>4 DEF Work
<1>4. CASE Tick
  BY <1>0, <1>4, TickKeepsState, SameStates
<1>5. CASE UNCHANGED vars
  BY <1>5, SameStates DEF vars
<1> QED  BY <1>1, <1>2, <1>3, <1>4, <1>5 DEF Next

(* Leases, retries, batches, crashes and pauses are invisible to the       *)
(* services that enqueue: the outbox delivers at least once, or parks.     *)
THEOREM OutboxImplementsDelivery == Spec => ImplementsDelivery
BY Invariance, InitImplements, NextImplements, PTL
   DEF Spec, ImplementsDelivery, Delivery!Spec

-----------------------------------------------------------------------------
(***************************************************************************)
(* Likes and comments.  Engagement_proofs proves what is said of them for  *)
(* any users, requests and bounds, the two sizes of the run among them;    *)
(* the module is taken in twice, by MCWrites and with its proofs, and this *)
(* is shown to be the same.                                                *)
(***************************************************************************)

LikingProofs ==
  INSTANCE Engagement_proofs
    WITH Requests <- Instances, MaxComments <- 1, MaxRequests <- 2, MaxToggles <- 3,
         MaxEdits <- 1, MaxMentions <- 1, Walks <- 0, Limit <- 1
ThreadProofs ==
  INSTANCE Engagement_proofs
    WITH Requests <- Instances, Users <- {Author}, MaxComments <- 3, MaxRequests <- 4,
         MaxToggles <- 0, MaxEdits <- 0, MaxMentions <- 0, Walks <- 1, Limit <- 1

(* The lists, and the operators of the libraries they are made with.       *)
LEMMA LikingLists ==
  /\ \A S : Liking!Cardinality(S) = LikingProofs!Cardinality(S)
  /\ \A S : Liking!Min(S) = LikingProofs!Min(S)
  /\ \A t : Liking!Listed(t) = LikingProofs!Listed(t)
  /\ \A r : Liking!AfterCreate(r) = LikingProofs!AfterCreate(r)
<1>1. \A S : Liking!Cardinality(S) = LikingProofs!Cardinality(S)
  BY DEF Liking!Cardinality, LikingProofs!Cardinality
<1>2. \A S : Liking!Min(S) = LikingProofs!Min(S)
  BY DEF Liking!Min, LikingProofs!Min
<1>3. \A S : Liking!SetToSeq(S) = LikingProofs!SetToSeq(S)
  BY <1>1, Zenon DEF Liking!SetToSeq, Liking!IsInjective, LikingProofs!SetToSeq,
                     LikingProofs!IsInjective
<1>4. \A t : Liking!Children(t) = LikingProofs!Children(t)
  BY Zenon DEF Liking!Children, Liking!Live, Liking!Ids, LikingProofs!Children,
               LikingProofs!Live, LikingProofs!Ids
<1>5. \A t : Liking!Listed(t) = LikingProofs!Listed(t)
  <2>1. \A S : Liking!InOrder(S) = LikingProofs!InOrder(S)
    BY DEF Liking!InOrder, Liking!Cardinality, LikingProofs!InOrder, LikingProofs!Cardinality
  <2>2. QED
    BY <1>4, <2>1, Zenon
    DEF Liking!Listed, Liking!Replies, Liking!CommentsByPost, Liking!Post,
        LikingProofs!Listed, LikingProofs!Replies, LikingProofs!CommentsByPost, LikingProofs!Post
<1>6. ASSUME NEW r PROVE Liking!AfterCreate(r) = LikingProofs!AfterCreate(r)
  <2>1. /\ Liking!SetToSeq(req[r].mentioned) = LikingProofs!SetToSeq(req[r].mentioned)
        /\ Liking!Cardinality(req[r].mentioned) = LikingProofs!Cardinality(req[r].mentioned)
    BY <1>1, <1>3
  <2>2. QED
    BY <2>1, SMT DEF Liking!AfterCreate, Liking!ToEmit, Liking!Post, Liking!Owner,
                     LikingProofs!AfterCreate, LikingProofs!ToEmit, LikingProofs!Post,
                     LikingProofs!Owner
<1>7. QED
  BY <1>1, <1>2, <1>5, <1>6

(* The rest of it.                                                         *)
LEMMA LikingSame ==
  /\ Liking!Init <=> LikingProofs!Init
  /\ Liking!Next <=> LikingProofs!Next
  /\ Liking!vars = LikingProofs!vars
  /\ Liking!CountsExact <=> LikingProofs!CountsExact
  /\ Liking!LikeNotesTrue <=> LikingProofs!LikeNotesTrue
<1>1. /\ \A r : Liking!ToggleLike(r) <=> LikingProofs!ToggleLike(r)
      /\ \A r : Liking!ToggleCommentLike(r) <=> LikingProofs!ToggleCommentLike(r)
      /\ \A r : Liking!Look(r) <=> LikingProofs!Look(r)
      /\ \A r : Liking!Flip(r) <=> LikingProofs!Flip(r)
  BY LikingLists, Zenon
  DEF Liking!rows, Liking!told, Liking!Post, Liking!Ids, Liking!Live, Liking!Owner,
      Liking!Idle, Liking!At, Liking!Pair, Liking!Visible, Liking!VisiblePost,
      Liking!CommentCount, Liking!LikeCount, Liking!Relike, Liking!AcceptToggle,
      Liking!ToggleLike, Liking!ToggleCommentLike, Liking!Unlocked, Liking!IsLiked,
      Liking!LikePost, Liking!UnlikePost, Liking!Look, Liking!LikeKey, Liking!ToEmit,
      Liking!ToDelete, Liking!AfterToggle, Liking!Crossing, Liking!Flip, LikingProofs!rows,
      LikingProofs!told, LikingProofs!Post, LikingProofs!Ids, LikingProofs!Live,
      LikingProofs!Owner, LikingProofs!Idle, LikingProofs!At, LikingProofs!Pair,
      LikingProofs!Visible, LikingProofs!VisiblePost, LikingProofs!CommentCount,
      LikingProofs!LikeCount, LikingProofs!Relike, LikingProofs!AcceptToggle,
      LikingProofs!ToggleLike, LikingProofs!ToggleCommentLike, LikingProofs!Unlocked,
      LikingProofs!IsLiked, LikingProofs!LikePost, LikingProofs!UnlikePost,
      LikingProofs!Look, LikingProofs!LikeKey, LikingProofs!ToEmit, LikingProofs!ToDelete,
      LikingProofs!AfterToggle, LikingProofs!Crossing, LikingProofs!Flip
<1>2. /\ \A r : Liking!CreateComment(r) <=> LikingProofs!CreateComment(r)
      /\ \A r : Liking!Begin(r) <=> LikingProofs!Begin(r)
      /\ \A r : Liking!CommitComment(r) <=> LikingProofs!CommitComment(r)
  BY LikingLists, Zenon
  DEF Liking!rows, Liking!told, Liking!Post, Liking!Ids, Liking!Live, Liking!Owner,
      Liking!Idle, Liking!At, Liking!Visible, Liking!VisiblePost, Liking!CommentCount,
      Liking!Accept, Liking!CreateComment, Liking!Inserted, Liking!Begin,
      Liking!CommitComment, Liking!Last, LikingProofs!rows, LikingProofs!told,
      LikingProofs!Post, LikingProofs!Ids, LikingProofs!Live, LikingProofs!Owner,
      LikingProofs!Idle, LikingProofs!At, LikingProofs!Visible, LikingProofs!VisiblePost,
      LikingProofs!CommentCount, LikingProofs!Accept, LikingProofs!CreateComment,
      LikingProofs!Inserted, LikingProofs!Begin, LikingProofs!CommitComment,
      LikingProofs!Last
<1>3. /\ \A r : Liking!DeleteComment(r) <=> LikingProofs!DeleteComment(r)
      /\ \A r : Liking!SoftDelete(r) <=> LikingProofs!SoftDelete(r)
      /\ \A r : Liking!Fail(r) <=> LikingProofs!Fail(r)
      /\ \A r : Liking!Tell(r) <=> LikingProofs!Tell(r)
      /\ Liking!Edit <=> LikingProofs!Edit
  BY LikingLists, Zenon
  DEF Liking!rows, Liking!told, Liking!Post, Liking!Ids, Liking!Live, Liking!Children,
      Liking!Idle, Liking!At, Liking!Pair, Liking!Edit, Liking!CommentCount, Liking!Accept,
      Liking!DeleteComment, Liking!SoftDelete, Liking!Fail, Liking!Emitted, Liking!Removed,
      Liking!Mentioned, Liking!Tell, LikingProofs!rows, LikingProofs!told,
      LikingProofs!Post, LikingProofs!Ids, LikingProofs!Live, LikingProofs!Children,
      LikingProofs!Idle, LikingProofs!At, LikingProofs!Pair, LikingProofs!Edit,
      LikingProofs!CommentCount, LikingProofs!Accept, LikingProofs!DeleteComment,
      LikingProofs!SoftDelete, LikingProofs!Fail, LikingProofs!Emitted,
      LikingProofs!Removed, LikingProofs!Mentioned, LikingProofs!Tell
<1>4. /\ Liking!StartWalk <=> LikingProofs!StartWalk
      /\ Liking!ReadPage <=> LikingProofs!ReadPage
      /\ Liking!ReadTotal <=> LikingProofs!ReadTotal
      /\ Liking!ReadRefused <=> LikingProofs!ReadRefused
  BY LikingLists, Zenon
  DEF Liking!rows, Liking!told, Liking!Post, Liking!Ids, Liking!Live, Liking!Children,
      Liking!NoWalk, Liking!Readable, Liking!CountByPost, Liking!ReplyCount, Liking!Total,
      Liking!StartWalk, Liking!ReadPage, Liking!ReadTotal, Liking!ReadRefused,
      LikingProofs!rows, LikingProofs!told, LikingProofs!Post, LikingProofs!Ids,
      LikingProofs!Live, LikingProofs!Children, LikingProofs!NoWalk, LikingProofs!Readable,
      LikingProofs!CountByPost, LikingProofs!ReplyCount, LikingProofs!Total,
      LikingProofs!StartWalk, LikingProofs!ReadPage, LikingProofs!ReadTotal,
      LikingProofs!ReadRefused
<1>5. /\ Liking!Init <=> LikingProofs!Init
      /\ Liking!vars = LikingProofs!vars
      /\ Liking!CountsExact <=> LikingProofs!CountsExact
      /\ Liking!LikeNotesTrue <=> LikingProofs!LikeNotesTrue
  BY LikingLists, Zenon
  DEF Liking!vars, Liking!Post, Liking!Ids, Liking!Things, Liking!NoComment, Liking!Live,
      Liking!Owner, Liking!Idle, Liking!At, Liking!Pair, Liking!NoWalk, Liking!Init,
      Liking!LikeKey, Liking!CountsExact, Liking!Telling, Liking!LikeNotesTrue,
      LikingProofs!vars, LikingProofs!Post, LikingProofs!Ids, LikingProofs!Things,
      LikingProofs!NoComment, LikingProofs!Live, LikingProofs!Owner, LikingProofs!Idle,
      LikingProofs!At, LikingProofs!Pair, LikingProofs!NoWalk, LikingProofs!Init,
      LikingProofs!LikeKey, LikingProofs!CountsExact, LikingProofs!Telling,
      LikingProofs!LikeNotesTrue
<1>6. QED
  BY <1>1, <1>2, <1>3, <1>4, <1>5, Zenon DEF Liking!Next, LikingProofs!Next

(* The lists, and the operators of the libraries they are made with.       *)
LEMMA ThreadLists ==
  /\ \A S : Thread!Cardinality(S) = ThreadProofs!Cardinality(S)
  /\ \A S : Thread!Min(S) = ThreadProofs!Min(S)
  /\ \A t : Thread!Listed(t) = ThreadProofs!Listed(t)
  /\ \A r : Thread!AfterCreate(r) = ThreadProofs!AfterCreate(r)
<1>1. \A S : Thread!Cardinality(S) = ThreadProofs!Cardinality(S)
  BY DEF Thread!Cardinality, ThreadProofs!Cardinality
<1>2. \A S : Thread!Min(S) = ThreadProofs!Min(S)
  BY DEF Thread!Min, ThreadProofs!Min
<1>3. \A S : Thread!SetToSeq(S) = ThreadProofs!SetToSeq(S)
  BY <1>1, Zenon DEF Thread!SetToSeq, Thread!IsInjective, ThreadProofs!SetToSeq,
                     ThreadProofs!IsInjective
<1>4. \A t : Thread!Children(t) = ThreadProofs!Children(t)
  BY Zenon DEF Thread!Children, Thread!Live, Thread!Ids, ThreadProofs!Children,
               ThreadProofs!Live, ThreadProofs!Ids
<1>5. \A t : Thread!Listed(t) = ThreadProofs!Listed(t)
  <2>1. \A S : Thread!InOrder(S) = ThreadProofs!InOrder(S)
    BY DEF Thread!InOrder, Thread!Cardinality, ThreadProofs!InOrder, ThreadProofs!Cardinality
  <2>2. QED
    BY <1>4, <2>1, Zenon
    DEF Thread!Listed, Thread!Replies, Thread!CommentsByPost, Thread!Post,
        ThreadProofs!Listed, ThreadProofs!Replies, ThreadProofs!CommentsByPost, ThreadProofs!Post
<1>6. ASSUME NEW r PROVE Thread!AfterCreate(r) = ThreadProofs!AfterCreate(r)
  <2>1. /\ Thread!SetToSeq(req[r].mentioned) = ThreadProofs!SetToSeq(req[r].mentioned)
        /\ Thread!Cardinality(req[r].mentioned) = ThreadProofs!Cardinality(req[r].mentioned)
    BY <1>1, <1>3
  <2>2. QED
    BY <2>1, SMT DEF Thread!AfterCreate, Thread!ToEmit, Thread!Post, Thread!Owner,
                     ThreadProofs!AfterCreate, ThreadProofs!ToEmit, ThreadProofs!Post,
                     ThreadProofs!Owner
<1>7. QED
  BY <1>1, <1>2, <1>5, <1>6

(* The rest of it.                                                         *)
LEMMA ThreadSame ==
  /\ Thread!Init <=> ThreadProofs!Init
  /\ Thread!Next <=> ThreadProofs!Next
  /\ Thread!vars = ThreadProofs!vars
  /\ Thread!CountsExact <=> ThreadProofs!CountsExact
  /\ Thread!ListedOnce <=> ThreadProofs!ListedOnce
<1>1. /\ \A r : Thread!ToggleLike(r) <=> ThreadProofs!ToggleLike(r)
      /\ \A r : Thread!ToggleCommentLike(r) <=> ThreadProofs!ToggleCommentLike(r)
      /\ \A r : Thread!Look(r) <=> ThreadProofs!Look(r)
      /\ \A r : Thread!Flip(r) <=> ThreadProofs!Flip(r)
  BY ThreadLists, Zenon
  DEF Thread!rows, Thread!told, Thread!Post, Thread!Ids, Thread!Live, Thread!Owner,
      Thread!Idle, Thread!At, Thread!Pair, Thread!Visible, Thread!VisiblePost,
      Thread!CommentCount, Thread!LikeCount, Thread!Relike, Thread!AcceptToggle,
      Thread!ToggleLike, Thread!ToggleCommentLike, Thread!Unlocked, Thread!IsLiked,
      Thread!LikePost, Thread!UnlikePost, Thread!Look, Thread!LikeKey, Thread!ToEmit,
      Thread!ToDelete, Thread!AfterToggle, Thread!Crossing, Thread!Flip, ThreadProofs!rows,
      ThreadProofs!told, ThreadProofs!Post, ThreadProofs!Ids, ThreadProofs!Live,
      ThreadProofs!Owner, ThreadProofs!Idle, ThreadProofs!At, ThreadProofs!Pair,
      ThreadProofs!Visible, ThreadProofs!VisiblePost, ThreadProofs!CommentCount,
      ThreadProofs!LikeCount, ThreadProofs!Relike, ThreadProofs!AcceptToggle,
      ThreadProofs!ToggleLike, ThreadProofs!ToggleCommentLike, ThreadProofs!Unlocked,
      ThreadProofs!IsLiked, ThreadProofs!LikePost, ThreadProofs!UnlikePost,
      ThreadProofs!Look, ThreadProofs!LikeKey, ThreadProofs!ToEmit, ThreadProofs!ToDelete,
      ThreadProofs!AfterToggle, ThreadProofs!Crossing, ThreadProofs!Flip
<1>2. /\ \A r : Thread!CreateComment(r) <=> ThreadProofs!CreateComment(r)
      /\ \A r : Thread!Begin(r) <=> ThreadProofs!Begin(r)
      /\ \A r : Thread!CommitComment(r) <=> ThreadProofs!CommitComment(r)
  BY ThreadLists, Zenon
  DEF Thread!rows, Thread!told, Thread!Post, Thread!Ids, Thread!Live, Thread!Owner,
      Thread!Idle, Thread!At, Thread!Visible, Thread!VisiblePost, Thread!CommentCount,
      Thread!Accept, Thread!CreateComment, Thread!Inserted, Thread!Begin,
      Thread!CommitComment, Thread!Last, ThreadProofs!rows, ThreadProofs!told,
      ThreadProofs!Post, ThreadProofs!Ids, ThreadProofs!Live, ThreadProofs!Owner,
      ThreadProofs!Idle, ThreadProofs!At, ThreadProofs!Visible, ThreadProofs!VisiblePost,
      ThreadProofs!CommentCount, ThreadProofs!Accept, ThreadProofs!CreateComment,
      ThreadProofs!Inserted, ThreadProofs!Begin, ThreadProofs!CommitComment,
      ThreadProofs!Last
<1>3. /\ \A r : Thread!DeleteComment(r) <=> ThreadProofs!DeleteComment(r)
      /\ \A r : Thread!SoftDelete(r) <=> ThreadProofs!SoftDelete(r)
      /\ \A r : Thread!Fail(r) <=> ThreadProofs!Fail(r)
      /\ \A r : Thread!Tell(r) <=> ThreadProofs!Tell(r)
      /\ Thread!Edit <=> ThreadProofs!Edit
  BY ThreadLists, Zenon
  DEF Thread!rows, Thread!told, Thread!Post, Thread!Ids, Thread!Live, Thread!Children,
      Thread!Idle, Thread!At, Thread!Pair, Thread!Edit, Thread!CommentCount, Thread!Accept,
      Thread!DeleteComment, Thread!SoftDelete, Thread!Fail, Thread!Emitted, Thread!Removed,
      Thread!Mentioned, Thread!Tell, ThreadProofs!rows, ThreadProofs!told,
      ThreadProofs!Post, ThreadProofs!Ids, ThreadProofs!Live, ThreadProofs!Children,
      ThreadProofs!Idle, ThreadProofs!At, ThreadProofs!Pair, ThreadProofs!Edit,
      ThreadProofs!CommentCount, ThreadProofs!Accept, ThreadProofs!DeleteComment,
      ThreadProofs!SoftDelete, ThreadProofs!Fail, ThreadProofs!Emitted,
      ThreadProofs!Removed, ThreadProofs!Mentioned, ThreadProofs!Tell
<1>4. /\ Thread!StartWalk <=> ThreadProofs!StartWalk
      /\ Thread!ReadPage <=> ThreadProofs!ReadPage
      /\ Thread!ReadTotal <=> ThreadProofs!ReadTotal
      /\ Thread!ReadRefused <=> ThreadProofs!ReadRefused
  BY ThreadLists, Zenon
  DEF Thread!rows, Thread!told, Thread!Post, Thread!Ids, Thread!Live, Thread!Children,
      Thread!NoWalk, Thread!Readable, Thread!CountByPost, Thread!ReplyCount, Thread!Total,
      Thread!StartWalk, Thread!ReadPage, Thread!ReadTotal, Thread!ReadRefused,
      ThreadProofs!rows, ThreadProofs!told, ThreadProofs!Post, ThreadProofs!Ids,
      ThreadProofs!Live, ThreadProofs!Children, ThreadProofs!NoWalk, ThreadProofs!Readable,
      ThreadProofs!CountByPost, ThreadProofs!ReplyCount, ThreadProofs!Total,
      ThreadProofs!StartWalk, ThreadProofs!ReadPage, ThreadProofs!ReadTotal,
      ThreadProofs!ReadRefused
<1>5. /\ Thread!Init <=> ThreadProofs!Init
      /\ Thread!vars = ThreadProofs!vars
      /\ Thread!CountsExact <=> ThreadProofs!CountsExact
  BY ThreadLists, Zenon
  DEF Thread!vars, Thread!Post, Thread!Ids, Thread!Things, Thread!NoComment, Thread!Live,
      Thread!Idle, Thread!NoWalk, Thread!Init, Thread!CountsExact, ThreadProofs!vars,
      ThreadProofs!Post, ThreadProofs!Ids, ThreadProofs!Things, ThreadProofs!NoComment,
      ThreadProofs!Live, ThreadProofs!Idle, ThreadProofs!NoWalk, ThreadProofs!Init,
      ThreadProofs!CountsExact
<1>6. Thread!ListedOnce <=> ThreadProofs!ListedOnce
  BY Zenon DEF Thread!ListedOnce, Thread!Live, Thread!Ids, Thread!IsInjective,
               ThreadProofs!ListedOnce, ThreadProofs!Live, ThreadProofs!Ids,
               ThreadProofs!IsInjective
<1>7. QED
  BY <1>1, <1>2, <1>3, <1>4, <1>5, <1>6, Zenon DEF Thread!Next, ThreadProofs!Next

(* Each part of the run goes as its specification says, and alone.         *)
LEMMA LikingApart == part = "liking" /\ MCSpec => LikingProofs!Spec /\ [](part = "liking")
<1>1. part = "liking" /\ MCInit => LikingProofs!Init
  BY LikingSame DEF MCInit
<1>2. part = "liking" /\ [MCNext]_<<part, vars, engagement, graph>> =>
        [LikingProofs!Next]_LikingProofs!vars /\ (part = "liking")'
  <2>1. LikingProofs!vars = engagement
    BY DEF engagement, LikingProofs!vars
  <2>2. LikingProofs!vars' = engagement'
    BY DEF engagement, LikingProofs!vars
  <2>3. part = "liking" /\ MCNext => Liking!Next /\ part' = part
    BY DEF MCNext
  <2>4. QED
    BY <2>1, <2>2, <2>3, LikingSame
<1>3. QED
  BY <1>1, <1>2, PTL DEF MCSpec, LikingProofs!Spec

LEMMA ThreadApart == part = "thread" /\ MCSpec => ThreadProofs!Spec /\ [](part = "thread")
<1>1. part = "thread" /\ MCInit => ThreadProofs!Init
  BY ThreadSame DEF MCInit
<1>2. part = "thread" /\ [MCNext]_<<part, vars, engagement, graph>> =>
        [ThreadProofs!Next]_ThreadProofs!vars /\ (part = "thread")'
  <2>1. ThreadProofs!vars = engagement
    BY DEF engagement, ThreadProofs!vars
  <2>2. ThreadProofs!vars' = engagement'
    BY DEF engagement, ThreadProofs!vars
  <2>3. part = "thread" /\ MCNext => Thread!Next /\ part' = part
    BY DEF MCNext
  <2>4. QED
    BY <2>1, <2>2, <2>3, ThreadSame
<1>3. QED
  BY <1>1, <1>2, PTL DEF MCSpec, ThreadProofs!Spec

LEMMA FollowsApart == part = "follows" /\ MCSpec => Graph!Spec /\ [](part = "follows")
<1>1. part = "follows" /\ MCInit => Graph!Init
  BY DEF MCInit
<1>2. part = "follows" /\ [MCNext]_<<part, vars, engagement, graph>> =>
        [Graph!Next]_Graph!vars /\ (part = "follows")'
  BY DEF MCNext, graph, Graph!vars
<1>3. QED
  BY <1>1, <1>2, PTL DEF MCSpec, Graph!Spec

(* The outbox leaves the likes and comments alone.                         *)
LEMMA OthersApart ==
  part \notin {"liking", "thread"} /\ MCSpec =>
    [](part \notin {"liking", "thread"}) /\ [][UNCHANGED engagement]_engagement
<1>1. part \notin {"liking", "thread"} /\ [MCNext]_<<part, vars, engagement, graph>> =>
        (part \notin {"liking", "thread"})' /\ UNCHANGED engagement
  BY DEF MCNext
<1>2. QED
  BY <1>1, PTL DEF MCSpec

(* In whatever part of the run the counters are compared, they equal the   *)
(* rows they count: those of likes and comments (the triggers of           *)
(* 000004_post_schema and 000018_comment_likes) and those of the profiles  *)
(* (000007_follow_schema).                                                 *)
THEOREM CountersExact == MCSpec => []CountsExact
<1>1. LikingProofs!Spec => []LikingProofs!CountsExact
  BY LikingProofs!CountersExact DEF LikingProofs!CountersExact
<1>2. ThreadProofs!Spec => []ThreadProofs!CountsExact
  BY ThreadProofs!CountersExact DEF ThreadProofs!CountersExact
<1>3. part = "liking" /\ LikingProofs!CountsExact => CountsExact
  BY LikingSame DEF CountsExact
<1>4. part = "thread" /\ ThreadProofs!CountsExact => CountsExact
  BY ThreadSame DEF CountsExact
<1>5. part = "follows" /\ Graph!CountsExact => CountsExact
  BY DEF CountsExact
<1>6. part \notin {"liking", "thread", "follows"} => CountsExact
  BY DEF CountsExact
<1>7. part \notin {"liking", "thread", "follows"} /\ [MCNext]_<<part, vars, engagement, graph>>
        => (part \notin {"liking", "thread", "follows"})'
  BY DEF MCNext
<1>8. \/ part = "liking" \/ part = "thread" \/ part = "follows"
      \/ part \notin {"liking", "thread", "follows"}
  OBVIOUS
<1>9. QED
  BY <1>1, <1>2, <1>3, <1>4, <1>5, <1>6, <1>7, <1>8, FollowersCounted,
     LikingApart, ThreadApart, FollowsApart, PTL DEF MCSpec

(* A like is announced to its owner exactly while it is there, but for a   *)
(* call that failed or a toggle that overtook another (ToggleLike and      *)
(* ToggleCommentLike, which tell after the commit).                        *)
THEOREM LikesAnnounced ==
  ASSUME IsFiniteSet(Users)
  PROVE  MCSpec => []LikeNotesTrue
<1>1. LikingProofs!Spec => []LikingProofs!LikeNotesTrue
  <2>1. IsFiniteSet(Users) <=> LikingProofs!IsFiniteSet(Users)
    BY DEF IsFiniteSet, LikingProofs!IsFiniteSet
  <2>2. QED
    BY <2>1, LikingProofs!LikesAnnounced DEF LikingProofs!LikesAnnounced
<1>2. part = "liking" /\ LikingProofs!LikeNotesTrue => LikeNotesTrue
  BY LikingSame DEF LikeNotesTrue
<1>3. part # "liking" => LikeNotesTrue
  BY DEF LikeNotesTrue
<1>4. part # "liking" /\ [MCNext]_<<part, vars, engagement, graph>> => (part # "liking")'
  BY DEF MCNext
<1>5. part = "liking" \/ part # "liking"
  OBVIOUS
<1>6. QED
  BY <1>1, <1>2, <1>3, <1>4, <1>5, LikingApart, PTL DEF MCSpec

(* No toggle of a like is lost, whatever the part: one that commits turns  *)
(* the like it found (the advisory lock of ToggleLike and                  *)
(* ToggleCommentLike, held from the look to the commit).                   *)
THEOREM TogglesFlip == MCSpec => EveryToggleFlips
<1> DEFINE A == \A r \in Instances : (Liking!At(r, "looked") /\ req'[r].pc = "telling") =>
                  /\ (Liking!Pair(r) \in likes') # (Liking!Pair(r) \in likes)
                  /\ (Liking!Pair(r) \in likes') # req[r].liked
           B == \A r \in Instances :
                  (LikingProofs!At(r, "looked") /\ req'[r].pc = "telling") =>
                     /\ (LikingProofs!Pair(r) \in likes') # (LikingProofs!Pair(r) \in likes)
                     /\ (LikingProofs!Pair(r) \in likes') # req[r].liked
           C == \A r \in Instances :
                  (ThreadProofs!At(r, "looked") /\ req'[r].pc = "telling") =>
                     /\ (ThreadProofs!Pair(r) \in likes') # (ThreadProofs!Pair(r) \in likes)
                     /\ (ThreadProofs!Pair(r) \in likes') # req[r].liked
<1>1. [B]_LikingProofs!vars => [A]_Liking!vars
  <2>1. Liking!vars = LikingProofs!vars /\ Liking!vars' = LikingProofs!vars'
    BY DEF Liking!vars, LikingProofs!vars
  <2>2. QED
    BY <2>1, Zenon DEF Liking!At, LikingProofs!At, Liking!Pair, LikingProofs!Pair
<1>2. [C]_ThreadProofs!vars => [A]_Liking!vars
  <2>1. Liking!vars = ThreadProofs!vars /\ Liking!vars' = ThreadProofs!vars'
    BY DEF Liking!vars, ThreadProofs!vars
  <2>2. QED
    BY <2>1, Zenon DEF Liking!At, ThreadProofs!At, Liking!Pair, ThreadProofs!Pair
<1>3. [UNCHANGED engagement]_engagement => [A]_Liking!vars
  BY DEF engagement, Liking!vars
<1>4. LikingProofs!Spec => [][B]_LikingProofs!vars
  BY LikingProofs!TogglesFlip DEF LikingProofs!TogglesFlip, LikingProofs!EveryToggleFlips
<1>5. ThreadProofs!Spec => [][C]_ThreadProofs!vars
  BY ThreadProofs!TogglesFlip DEF ThreadProofs!TogglesFlip, ThreadProofs!EveryToggleFlips
<1>6. part = "liking" \/ part = "thread" \/ part \notin {"liking", "thread"}
  OBVIOUS
<1>7. MCSpec => [][A]_Liking!vars
  BY <1>1, <1>2, <1>3, <1>4, <1>5, <1>6, LikingApart, ThreadApart, OthersApart, PTL
<1>8. QED
  BY <1>7 DEF EveryToggleFlips, Liking!EveryToggleFlips

(* A reader who pages through comments or replies is shown each of them    *)
(* once, but for those a deletion brought forward and those that committed *)
(* late (GetComments and GetReplies beside CreateComment and               *)
(* DeleteComment).                                                         *)
THEOREM PagesShowAllOnce == MCSpec => []ListedOnce
<1>1. ThreadProofs!Spec => []ThreadProofs!ListedOnce
  BY ThreadProofs!PagesShowAllOnce DEF ThreadProofs!PagesShowAllOnce
<1>2. part = "thread" /\ ThreadProofs!ListedOnce => ListedOnce
  BY ThreadSame DEF ListedOnce
<1>3. part # "thread" => ListedOnce
  BY DEF ListedOnce
<1>4. part # "thread" /\ [MCNext]_<<part, vars, engagement, graph>> => (part # "thread")'
  BY DEF MCNext
<1>5. part = "thread" \/ part # "thread"
  OBVIOUS
<1>6. QED
  BY <1>1, <1>2, <1>3, <1>4, <1>5, ThreadApart, PTL DEF MCSpec

=============================================================================
