-------------------------- MODULE Engagement_proofs --------------------------
(***************************************************************************)
(* The counters of likes and comments equal the rows they count, no toggle *)
(* of a like is lost, a like is announced while it is there, and paging    *)
(* through the comments by offset shows each of them once: for any users,  *)
(* requests, comments, page sizes and bounds.                              *)
(*                                                                         *)
(* What a request is about (Placed) makes the trigger on comments safe:    *)
(* the comment of a like was live once, so counting the like never counts  *)
(* the comment anew, and the one a transaction inserted is its own.  The   *)
(* advisory lock (LockHeld) keeps the answer of IsLiked true until the     *)
(* toggle writes.  A like is told by one request at a time (Telling), or   *)
(* it is blurred.                                                          *)
(*                                                                         *)
(* The pages of comments: the row of a comment is how many of the list are *)
(* not after it (RowIn).  While nothing comes late, no row that was shown  *)
(* is past the offset (Climbs), so no page repeats one; while nothing is   *)
(* deleted, the rows of those who stay only grow, so what the offset has   *)
(* passed was shown (Passed).                                              *)
(***************************************************************************)
EXTENDS Engagement, FiniteSetTheorems, SequenceTheorems, TLAPS

People == Users \cup {Author}
States == {"none", "open", "live", "deleted", "undone"}
\* The states of a comment that was committed.
Standing == {"live", "deleted"}

\* A request is a record with these fields.
Fields == {"pc", "user", "thing", "liked", "mentioned", "todo"}
Shaped ==
  /\ req = [r \in Requests |-> req[r]]
  /\ \A r \in Requests : DOMAIN req[r] = Fields

\* What is told may be liked: the post, or a comment that was committed.
Likeable(t) == t \in Things /\ (t \in Ids => comments[t].state \in Standing)

\* What a request is about, by where it is.
Placed(x) ==
  /\ x.pc \in {"like", "looked"} =>
       x.user \in Users /\ Likeable(x.thing) /\ x.user # Owner(x.thing)
  /\ x.pc = "create" =>
       x.user \in People /\ x.thing \in Things /\ x.mentioned \subseteq Users
  /\ x.pc = "open" =>
       /\ x.thing \in Ids /\ x.mentioned \subseteq Users
       /\ comments[x.thing].state = "open" /\ comments[x.thing].by = x.user
  /\ x.pc = "delete" => x.thing \in Ids /\ comments[x.thing].state \in Standing

PlacesInv ==
  /\ Shaped
  /\ comments \in [Ids -> [state : States, by : People, parent : Things]]
  /\ \A r \in Requests : Placed(req[r])
  /\ \A r, q \in Requests :
       (At(r, "open") /\ At(q, "open") /\ r # q) => req[r].thing # req[q].thing

-----------------------------------------------------------------------------
LEMMA PostNoComment == Post \notin Ids
BY DEF Post, Ids

LEMMA IdleShaped == DOMAIN Idle = Fields /\ Idle.pc = "idle" /\ Placed(Idle)
BY DEF Idle, Fields, Placed

LEMMA InitPlaces == Init => PlacesInv
<1> SUFFICES ASSUME Init PROVE PlacesInv
  OBVIOUS
<1>1. Shaped /\ \A r \in Requests : req[r] = Idle
  BY IdleShaped DEF Init, Shaped
<1>2. comments \in [Ids -> [state : States, by : People, parent : Things]]
  BY DEF Init, NoComment, States, People, Things, Post
<1>3. QED
  BY <1>1, <1>2, IdleShaped DEF PlacesInv, At

(* One request moves and the comments stay.                                *)
LEMMA MoveKeeps ==
  ASSUME PlacesInv, NEW r \in Requests, NEW x, req' = [req EXCEPT ![r] = x],
         DOMAIN x = Fields, Placed(x), x.pc # "open", comments' = comments
  PROVE  PlacesInv'
<1>1. /\ req'[r] = x
      /\ \A q \in Requests : q # r => req'[q] = req[q]
      /\ req' = [q \in Requests |-> req'[q]]
  BY DEF PlacesInv, Shaped
<1>2. Shaped'
  BY <1>1 DEF PlacesInv, Shaped
<1>3. \A y : Placed(y)' <=> Placed(y)
  BY DEF Placed, Likeable, Owner
<1>4. \A q \in Requests : Placed(req'[q])
  BY <1>1 DEF PlacesInv
<1>5. \A q \in Requests : (Placed(req[q]))'
  BY <1>3, <1>4
<1>6. QED
  BY <1>1, <1>2, <1>5 DEF PlacesInv, At

(* The state of one comment changes, not to "none"; the others and whose   *)
(* it is stay.                                                             *)
LEMMA CommentMoves ==
  ASSUME PlacesInv, NEW c \in Ids, NEW s \in States \ {"none"},
         comments' = [comments EXCEPT ![c].state = s]
  PROVE  /\ comments' \in [Ids -> [state : States, by : People, parent : Things]]
         /\ comments'[c].state = s
         /\ \A d \in Ids \ {c} : comments'[d] = comments[d]
         /\ \A d \in Ids : comments'[d].by = comments[d].by
         /\ \A d \in Ids : comments'[d].parent = comments[d].parent
BY DEF PlacesInv

(* One request moves with its comment.                                     *)
LEMMA CommentKeeps ==
  ASSUME PlacesInv, NEW r \in Requests, NEW x, req' = [req EXCEPT ![r] = x],
         DOMAIN x = Fields, x.pc \in {"idle", "telling"},
         NEW c \in Ids, NEW s \in States \ {"none"},
         comments' = [comments EXCEPT ![c].state = s],
         \/ At(r, "open") /\ c = req[r].thing /\ s \in {"live", "undone"}
         \/ comments[c].state \in Standing /\ s = "deleted"
  PROVE  PlacesInv'
<1>1. /\ req'[r] = x
      /\ \A q \in Requests : q # r => req'[q] = req[q]
      /\ req' = [q \in Requests |-> req'[q]]
  BY DEF PlacesInv, Shaped
<1>2. Shaped'
  BY <1>1 DEF PlacesInv, Shaped
<1>3. /\ comments' \in [Ids -> [state : States, by : People, parent : Things]]
      /\ comments'[c].state = s
      /\ \A d \in Ids \ {c} : comments'[d] = comments[d]
      /\ \A d \in Ids : comments'[d].by = comments[d].by
  BY CommentMoves
<1>4. \A d \in Ids : comments[d].state \in Standing => comments'[d].state \in Standing
  BY <1>3 DEF Standing, PlacesInv, Placed, At
<1>5. ASSUME NEW q \in Requests \ {r} PROVE (Placed(req[q]))'
  <2>1. Placed(req[q]) /\ req'[q] = req[q]
    BY <1>1 DEF PlacesInv
  <2>2. req[q].pc = "open" => req[q].thing # c
    BY DEF PlacesInv, Placed, At, Standing
  <2>3. QED
    BY <1>3, <1>4, <2>1, <2>2 DEF Placed, Likeable, Owner
<1>6. (Placed(req[r]))'
  BY <1>1 DEF Placed
<1>7. QED
  BY <1>1, <1>2, <1>3, <1>5, <1>6 DEF PlacesInv, At

-----------------------------------------------------------------------------
(* Every step, by what it does to the rows of comments.                    *)
LEMMA AcceptKeeps ==
  ASSUME PlacesInv, NEW r \in Requests, ToggleLike(r) \/ ToggleCommentLike(r)
  PROVE  PlacesInv' /\ UNCHANGED <<rows, told, post>>
         /\ \E x : req' = [req EXCEPT ![r] = x] /\ x.pc = "like"
<1>1. PICK u \in Users, t \in Things :
         Likeable(t) /\ u # Owner(t) /\ AcceptToggle(r, u, t)
  <2>1. CASE ToggleLike(r)
    BY <2>1, PostNoComment DEF ToggleLike, Likeable, Owner, Things
  <2>2. CASE ToggleCommentLike(r)
    BY <2>2, PostNoComment DEF ToggleCommentLike, Likeable, Owner, Things, Live, Standing
  <2>3. QED
    BY <2>1, <2>2
<1> DEFINE x == [Idle EXCEPT !.pc = "like", !.user = u, !.thing = t]
<1>2. DOMAIN x = Fields /\ x.pc = "like" /\ x.user = u /\ x.thing = t
  BY DEF Idle, Fields
<1>3. req' = [req EXCEPT ![r] = x] /\ UNCHANGED <<rows, told, post>>
  BY <1>1 DEF AcceptToggle
<1> HIDE DEF x
<1>4. Placed(x)
  BY <1>1, <1>2 DEF Placed
<1>5. PlacesInv'
  BY <1>2, <1>3, <1>4, MoveKeeps DEF rows
<1>6. QED
  BY <1>2, <1>3, <1>5

LEMMA AcceptCommentKeeps ==
  ASSUME PlacesInv, NEW r \in Requests, CreateComment(r) \/ DeleteComment(r)
  PROVE  PlacesInv' /\ UNCHANGED <<rows, told, post>>
         /\ \E x : req' = [req EXCEPT ![r] = x] /\ x.pc \in {"create", "delete"}
<1>1. PICK x : /\ Accept(r, x) /\ DOMAIN x = Fields /\ x.pc \in {"create", "delete"}
               /\ Placed(x)
  <2>1. CASE CreateComment(r)
    <3>1. PICK u \in Users, parent \in {Post} \cup Live, ms \in SUBSET Users :
            Accept(r, [Idle EXCEPT !.pc = "create", !.user = u, !.thing = parent,
                                   !.mentioned = ms])
      BY <2>1 DEF CreateComment
    <3>2. parent \in Things
      BY DEF Live, Things
    <3> DEFINE x == [Idle EXCEPT !.pc = "create", !.user = u, !.thing = parent,
                                 !.mentioned = ms]
    <3>3. /\ DOMAIN x = Fields /\ x.pc = "create"
          /\ x.user = u /\ x.thing = parent /\ x.mentioned = ms
      BY DEF Idle, Fields
    <3>4. Accept(r, x)
      BY <3>1
    <3> HIDE DEF x
    <3>5. QED
      BY <3>2, <3>3, <3>4 DEF Placed, People
  <2>2. CASE DeleteComment(r)
    <3>1. PICK c \in Live :
            Accept(r, [Idle EXCEPT !.pc = "delete", !.user = comments[c].by, !.thing = c])
      BY <2>2 DEF DeleteComment
    <3>2. c \in Ids /\ comments[c].state \in Standing
      BY DEF Live, Standing
    <3> DEFINE x == [Idle EXCEPT !.pc = "delete", !.user = comments[c].by, !.thing = c]
    <3>3. DOMAIN x = Fields /\ x.pc = "delete" /\ x.thing = c
      BY DEF Idle, Fields
    <3>4. Accept(r, x)
      BY <3>1
    <3> HIDE DEF x
    <3>5. QED
      BY <3>2, <3>3, <3>4 DEF Placed
  <2>3. QED
    BY <2>1, <2>2
<1>2. req' = [req EXCEPT ![r] = x] /\ UNCHANGED <<rows, told, post>>
  BY <1>1 DEF Accept
<1>3. PlacesInv'
  BY <1>1, <1>2, MoveKeeps DEF rows
<1>4. QED
  BY <1>1, <1>2, <1>3

(* Looking, flipping and telling: the request stays with its thing.        *)
LEMMA StaysKeeps ==
  ASSUME PlacesInv, NEW r \in Requests, Look(r) \/ Flip(r) \/ Tell(r)
  PROVE  PlacesInv'
<1>1. CASE Look(r)
  <2> DEFINE x == [req[r] EXCEPT !.pc = "looked", !.liked = IsLiked(Pair(r))]
  <2>1. DOMAIN x = Fields /\ x.pc = "looked" /\ x.user = req[r].user /\ x.thing = req[r].thing
    BY DEF PlacesInv, Shaped, Fields
  <2>2. req' = [req EXCEPT ![r] = x] /\ comments' = comments
    BY <1>1 DEF Look, rows
  <2> HIDE DEF x
  <2>3. Placed(x)
    BY <1>1, <2>1 DEF PlacesInv, Placed, Look, At
  <2>4. QED
    BY <2>1, <2>2, <2>3, MoveKeeps
<1>2. CASE Flip(r)
  <2> DEFINE x == [req[r] EXCEPT !.pc = "telling", !.todo = AfterToggle(r)]
  <2>1. DOMAIN x = Fields /\ x.pc = "telling"
    BY DEF PlacesInv, Shaped, Fields
  <2>2. req' = [req EXCEPT ![r] = x] /\ comments' = comments
    BY <1>2 DEF Flip
  <2> HIDE DEF x
  <2>3. Placed(x)
    BY <2>1 DEF Placed
  <2>4. QED
    BY <2>1, <2>2, <2>3, MoveKeeps
<1>3. CASE Tell(r)
  <2> DEFINE x == IF Len(req[r].todo) > 1 THEN [req[r] EXCEPT !.todo = Tail(req[r].todo)]
                                          ELSE Idle
  <2>1. DOMAIN x = Fields /\ x.pc \in {"telling", "idle"}
    <3>1. CASE Len(req[r].todo) > 1
      BY <1>3, <3>1 DEF PlacesInv, Shaped, Fields, Tell, At
    <3>2. CASE ~(Len(req[r].todo) > 1)
      BY <3>2, IdleShaped
    <3>3. QED
      BY <3>1, <3>2
  <2>2. req' = [req EXCEPT ![r] = x] /\ comments' = comments
    BY <1>3 DEF Tell, rows
  <2> HIDE DEF x
  <2>3. Placed(x)
    BY <2>1 DEF Placed
  <2>4. QED
    BY <2>1, <2>2, <2>3, MoveKeeps
<1>4. QED
  BY <1>1, <1>2, <1>3

(* A comment is inserted where there was none.                             *)
LEMMA BeginKeeps ==
  ASSUME PlacesInv, NEW r \in Requests, Begin(r)
  PROVE  PlacesInv'
<1>1. PICK c \in Ids :
         /\ At(r, "create") /\ comments[c].state = "none"
         /\ comments' = [comments EXCEPT ![c] = Inserted(r)]
         /\ req' = [req EXCEPT ![r].pc = "open", ![r].thing = c]
  BY DEF Begin
<1> DEFINE x == [req[r] EXCEPT !.pc = "open", !.thing = c]
<1>2. /\ DOMAIN x = Fields /\ x.pc = "open" /\ x.user = req[r].user /\ x.thing = c
      /\ x.mentioned = req[r].mentioned
  BY DEF PlacesInv, Shaped, Fields
<1>3. req' = [req EXCEPT ![r] = x]
  BY <1>1 DEF PlacesInv, Shaped, Fields
<1> HIDE DEF x
<1>4. /\ req'[r] = x
      /\ \A q \in Requests : q # r => req'[q] = req[q]
      /\ req' = [q \in Requests |-> req'[q]]
  BY <1>3 DEF PlacesInv, Shaped
<1>5. Shaped'
  BY <1>2, <1>4 DEF PlacesInv, Shaped
<1>6. /\ req[r].user \in People /\ req[r].thing \in Things
      /\ req[r].mentioned \subseteq Users
  BY <1>1 DEF PlacesInv, Placed, At
<1>7. /\ comments' \in [Ids -> [state : States, by : People, parent : Things]]
      /\ comments'[c].state = "open" /\ comments'[c].by = req[r].user
      /\ \A d \in Ids \ {c} : comments'[d] = comments[d]
  BY <1>1, <1>6 DEF Inserted, PlacesInv, States
<1>8. ASSUME NEW q \in Requests \ {r}
      PROVE  (Placed(req[q]))' /\ ~(At(q, "open") /\ req[q].thing = c)
  <2>1. Placed(req[q]) /\ req'[q] = req[q]
    BY <1>4 DEF PlacesInv
  <2>2. req[q].pc \in {"like", "looked", "open", "delete"} => req[q].thing # c
    BY <1>1, <2>1 DEF Placed, Likeable, Standing
  <2>3. \A t \in Things : t # c => (Likeable(t)' <=> Likeable(t)) /\ Owner(t)' = Owner(t)
    BY <1>7, PostNoComment DEF Likeable, Owner, Things
  <2>4. QED
    BY <1>7, <2>1, <2>2, <2>3 DEF Placed, Likeable, At
<1>9. (Placed(req[r]))'
  BY <1>2, <1>4, <1>6, <1>7 DEF Placed
<1>10. QED
  BY <1>2, <1>4, <1>5, <1>7, <1>8, <1>9 DEF PlacesInv, At

(* A comment is committed, deleted, or rolled back.                        *)
LEMMA CommitKeeps ==
  ASSUME PlacesInv, NEW r \in Requests, CommitComment(r)
  PROVE  PlacesInv'
<1> DEFINE x == [req[r] EXCEPT !.pc = "telling", !.todo = AfterCreate(r)]
<1>1. DOMAIN x = Fields /\ x.pc = "telling"
  BY DEF PlacesInv, Shaped, Fields
<1>2. At(r, "open") /\ req' = [req EXCEPT ![r] = x]
      /\ comments' = [comments EXCEPT ![req[r].thing].state = "live"]
  BY DEF CommitComment
<1> HIDE DEF x
<1>3. req[r].thing \in Ids
  BY <1>2 DEF PlacesInv, Placed, At
<1>4. "live" \in States \ {"none"} /\ x.pc \in {"idle", "telling"}
  BY <1>1 DEF States
<1>5. QED
  BY <1>1, <1>2, <1>3, <1>4, CommentKeeps

LEMMA SoftDeleteKeeps ==
  ASSUME PlacesInv, NEW r \in Requests, SoftDelete(r)
  PROVE  PlacesInv'
<1>1. At(r, "delete") /\ req' = [req EXCEPT ![r] = Idle]
      /\ comments' = [comments EXCEPT ![req[r].thing].state = "deleted"]
  BY DEF SoftDelete
<1>2. req[r].thing \in Ids /\ comments[req[r].thing].state \in Standing
  BY <1>1 DEF PlacesInv, Placed, At
<1>3. QED
  BY <1>1, <1>2, IdleShaped, CommentKeeps DEF States

LEMMA FailKeeps ==
  ASSUME PlacesInv, NEW r \in Requests, Fail(r)
  PROVE  PlacesInv'
<1>1. req' = [req EXCEPT ![r] = Idle]
  BY DEF Fail
<1>2. CASE At(r, "open")
  <2>1. req[r].thing \in Ids
    BY <1>2 DEF PlacesInv, Placed, At
  <2>2. comments' = [comments EXCEPT ![req[r].thing].state = "undone"]
    BY <1>2 DEF Fail
  <2>3. "undone" \in States \ {"none"} /\ Idle.pc \in {"idle", "telling"}
    BY IdleShaped DEF States
  <2>4. QED
    BY <1>1, <1>2, <2>1, <2>2, <2>3, IdleShaped, CommentKeeps
<1>3. CASE ~At(r, "open")
  <2>1. comments' = comments /\ Idle.pc # "open"
    BY <1>3, IdleShaped DEF Fail
  <2>2. QED
    BY <1>1, <2>1, IdleShaped, MoveKeeps
<1>4. QED
  BY <1>2, <1>3

(* What changes neither rows nor requests.                                 *)
LEMMA ReadsOnly ==
  ASSUME Edit \/ StartWalk \/ ReadPage \/ ReadTotal \/ ReadRefused
  PROVE  UNCHANGED <<rows, told, req>>
<1>1. CASE Edit
  BY <1>1 DEF Edit
<1>2. CASE StartWalk
  BY <1>2 DEF StartWalk
<1>3. CASE ReadPage
  BY <1>3 DEF ReadPage
<1>4. CASE ReadTotal
  BY <1>4 DEF ReadTotal
<1>5. CASE ReadRefused
  BY <1>5 DEF ReadRefused
<1>6. QED
  BY <1>1, <1>2, <1>3, <1>4, <1>5

LEMMA NextPlaces == PlacesInv /\ [Next]_vars => PlacesInv'
<1> SUFFICES ASSUME PlacesInv, [Next]_vars PROVE PlacesInv'
  OBVIOUS
<1>1. CASE Edit \/ StartWalk \/ ReadPage \/ ReadTotal \/ ReadRefused \/ UNCHANGED vars
  <2>1. UNCHANGED <<req, comments>>
    BY <1>1, ReadsOnly DEF vars, rows, told
  <2>2. \A y : Placed(y)' <=> Placed(y)
    BY <2>1 DEF Placed, Likeable, Owner
  <2>3. \A q \in Requests : (Placed(req[q]))'
    BY <2>1, <2>2 DEF PlacesInv
  <2>4. QED
    BY <2>1, <2>3 DEF PlacesInv, Shaped, At
<1>2. QED
  BY <1>1, AcceptKeeps, AcceptCommentKeeps, StaysKeeps, BeginKeeps, CommitKeeps,
     SoftDeleteKeeps, FailKeeps DEF Next

-----------------------------------------------------------------------------
\* The lock: two toggles that have looked are about different pairs.
LockHeld ==
  \A r, q \in Requests : (At(r, "looked") /\ At(q, "looked") /\ r # q) => Pair(r) # Pair(q)

\* What a toggle has found is what it will write over.
AnswerHolds ==
  \A r \in Requests : At(r, "looked") =>
    /\ req[r].liked \in BOOLEAN
    /\ req[r].liked <=> Pair(r) \in likes

LockInv == PlacesInv /\ LockHeld /\ AnswerHolds

(* Whatever a request does but look and flip, it writes no like and is not *)
(* past the lock afterwards.                                               *)
Elsewhere(r) ==
  \/ ToggleLike(r) \/ ToggleCommentLike(r)
  \/ CreateComment(r) \/ Begin(r) \/ CommitComment(r)
  \/ DeleteComment(r) \/ SoftDelete(r)
  \/ Fail(r) \/ Tell(r)

LEMMA ElsewhereUnlooked ==
  ASSUME PlacesInv, NEW r \in Requests, Elsewhere(r)
  PROVE  /\ UNCHANGED <<likes, likeCount>>
         /\ \E x : req' = [req EXCEPT ![r] = x] /\ x.pc # "looked"
<1>1. CASE ToggleLike(r) \/ ToggleCommentLike(r)
  BY <1>1, AcceptKeeps DEF rows
<1>2. CASE CreateComment(r) \/ DeleteComment(r)
  BY <1>2, AcceptCommentKeeps DEF rows
<1>3. CASE Begin(r)
  <2>1. PICK c \in Ids : req' = [req EXCEPT ![r] = [req[r] EXCEPT !.pc = "open", !.thing = c]]
    BY <1>3 DEF Begin, PlacesInv, Shaped, Fields
  <2> DEFINE x == [req[r] EXCEPT !.pc = "open", !.thing = c]
  <2>2. x.pc = "open"
    BY DEF PlacesInv, Shaped, Fields
  <2>3. QED
    BY <1>3, <2>1, <2>2 DEF Begin
<1>4. CASE CommitComment(r)
  <2> DEFINE x == [req[r] EXCEPT !.pc = "telling", !.todo = AfterCreate(r)]
  <2>1. x.pc = "telling" /\ req' = [req EXCEPT ![r] = x]
    BY <1>4 DEF CommitComment, PlacesInv, Shaped, Fields
  <2>2. QED
    BY <1>4, <2>1 DEF CommitComment
<1>5. CASE SoftDelete(r) \/ Fail(r)
  BY <1>5, IdleShaped DEF SoftDelete, Fail
<1>6. CASE Tell(r)
  <2> DEFINE x == IF Len(req[r].todo) > 1 THEN [req[r] EXCEPT !.todo = Tail(req[r].todo)]
                                          ELSE Idle
  <2>1. req' = [req EXCEPT ![r] = x] /\ UNCHANGED <<likes, likeCount>> /\ At(r, "telling")
    BY <1>6 DEF Tell, rows
  <2>2. x.pc \in {"telling", "idle"}
    BY <2>1, IdleShaped DEF PlacesInv, Shaped, Fields, At
  <2> HIDE DEF x
  <2>3. QED
    BY <2>1, <2>2
<1>7. QED
  BY <1>1, <1>2, <1>3, <1>4, <1>5, <1>6 DEF Elsewhere

(* Waiting for the lock and reading under it.                              *)
LEMMA LookKeeps ==
  ASSUME LockInv, NEW r \in Requests, Look(r)
  PROVE  LockHeld' /\ AnswerHolds'
<1> DEFINE x == [req[r] EXCEPT !.pc = "looked", !.liked = IsLiked(Pair(r))]
<1>1. /\ x.pc = "looked" /\ x.user = req[r].user /\ x.thing = req[r].thing
      /\ x.liked = IsLiked(Pair(r))
  BY DEF LockInv, PlacesInv, Shaped, Fields
<1>2. req' = [req EXCEPT ![r] = x] /\ likes' = likes
  BY DEF Look, rows
<1>3. req'[r] = x /\ \A q \in Requests : q # r => req'[q] = req[q]
  BY <1>2 DEF LockInv, PlacesInv, Shaped
<1> HIDE DEF x
<1>4. Pair(r)' = Pair(r) /\ \A q \in Requests : q # r => Pair(q)' = Pair(q)
  BY <1>1, <1>3 DEF Pair
<1>5. \A q \in Requests : q # r => (At(q, "looked")' <=> At(q, "looked"))
  BY <1>3 DEF At
<1>6. \A q \in Requests \ {r} : At(q, "looked") => Pair(q) # Pair(r)
  BY DEF Look, Unlocked
<1>7. LockHeld'
  BY <1>4, <1>5, <1>6 DEF LockInv, LockHeld
<1>8. /\ req'[r].liked \in BOOLEAN
      /\ req'[r].liked <=> Pair(r)' \in likes'
  <2>1. req'[r].liked = IsLiked(Pair(r)) /\ (Pair(r)' \in likes' <=> Pair(r) \in likes)
    BY <1>1, <1>2, <1>3, <1>4
  <2>2. CASE Pair(r) \in likes
    <3>1. IsLiked(Pair(r)) = TRUE
      BY <2>2 DEF IsLiked
    <3>2. QED
      BY <2>1, <2>2, <3>1
  <2>3. CASE Pair(r) \notin likes
    <3>1. IsLiked(Pair(r)) = FALSE
      BY <2>3 DEF IsLiked
    <3>2. QED
      BY <2>1, <2>3, <3>1
  <2>4. QED
    BY <2>2, <2>3
<1>9. ASSUME NEW q \in Requests, q # r, At(q, "looked")'
      PROVE  /\ req'[q].liked \in BOOLEAN
             /\ req'[q].liked <=> Pair(q)' \in likes'
  BY <1>9, <1>2, <1>3, <1>4, <1>5 DEF LockInv, AnswerHolds
<1>10. QED
  BY <1>7, <1>8, <1>9 DEF AnswerHolds

(* The write changes the like of its own pair only, which nobody else has  *)
(* looked at.                                                              *)
LEMMA FlipKeeps ==
  ASSUME LockInv, NEW r \in Requests, Flip(r)
  PROVE  LockHeld' /\ AnswerHolds'
<1> DEFINE x == [req[r] EXCEPT !.pc = "telling", !.todo = AfterToggle(r)]
<1>1. x.pc = "telling" /\ req' = [req EXCEPT ![r] = x]
  BY DEF LockInv, PlacesInv, Shaped, Fields, Flip
<1> HIDE DEF x
<1>2. req'[r] = x /\ \A q \in Requests : q # r => req'[q] = req[q]
  BY <1>1 DEF LockInv, PlacesInv, Shaped
<1>3. LockHeld'
  BY <1>1, <1>2 DEF LockInv, LockHeld, At, Pair
<1>4. \A p : p # Pair(r) => (p \in likes' <=> p \in likes)
  BY DEF Flip, Relike, LikePost, UnlikePost
<1>5. \A q \in Requests \ {r} : At(q, "looked") => Pair(q) # Pair(r)
  BY DEF LockInv, LockHeld, Flip
<1>6. AnswerHolds'
  <2> SUFFICES ASSUME NEW q \in Requests, At(q, "looked")'
               PROVE  /\ req'[q].liked \in BOOLEAN
                      /\ req'[q].liked <=> Pair(q)' \in likes'
    BY DEF AnswerHolds
  <2>1. q # r
    BY <1>1, <1>2 DEF At
  <2>2. At(q, "looked") /\ req'[q] = req[q] /\ Pair(q)' = Pair(q)
    BY <2>1, <1>2 DEF At, Pair
  <2>3. Pair(q) # Pair(r)
    BY <2>1, <2>2, <1>5
  <2>4. req[q].liked \in BOOLEAN /\ (req[q].liked <=> Pair(q) \in likes)
    BY <2>2 DEF LockInv, AnswerHolds
  <2>5. QED
    BY <2>2, <2>3, <2>4, <1>4
<1>7. QED
  BY <1>3, <1>6

LEMMA NextLock == LockInv /\ [Next]_vars => LockInv'
<1> SUFFICES ASSUME LockInv, [Next]_vars PROVE LockHeld' /\ AnswerHolds'
  BY NextPlaces DEF LockInv
<1>1. CASE Edit \/ StartWalk \/ ReadPage \/ ReadTotal \/ ReadRefused \/ UNCHANGED vars
  <2>1. UNCHANGED <<req, likes>>
    BY <1>1, ReadsOnly DEF vars, rows, told
  <2>2. QED
    BY <2>1 DEF LockInv, LockHeld, AnswerHolds, At, Pair
<1>2. ASSUME NEW r \in Requests, Elsewhere(r) PROVE LockHeld' /\ AnswerHolds'
  <2>1. PICK x : likes' = likes /\ req' = [req EXCEPT ![r] = x] /\ x.pc # "looked"
    BY <1>2, ElsewhereUnlooked DEF LockInv
  <2>2. req'[r] = x /\ \A q \in Requests : q # r => req'[q] = req[q]
    BY <2>1 DEF LockInv, PlacesInv, Shaped
  <2>3. \A q \in Requests : At(q, "looked")' => At(q, "looked") /\ req'[q] = req[q]
    BY <2>1, <2>2 DEF At
  <2>4. QED
    BY <2>1, <2>3 DEF LockInv, LockHeld, AnswerHolds, Pair
<1>3. QED
  BY <1>1, <1>2, LookKeeps, FlipKeeps DEF Next, Elsewhere

(* A toggle that commits turns the like it found.                          *)
LEMMA FlipTurns ==
  ASSUME LockInv, NEW r \in Requests, Flip(r)
  PROVE  /\ (Pair(r) \in likes') # (Pair(r) \in likes)
         /\ (Pair(r) \in likes') # req[r].liked
<1>1. req[r].liked \in BOOLEAN /\ (req[r].liked <=> Pair(r) \in likes)
  BY DEF LockInv, AnswerHolds, Flip
<1>2. Pair(r) \in likes' <=> ~req[r].liked
  BY DEF Flip, Relike, LikePost, UnlikePost
<1>3. QED
  BY <1>1, <1>2

LEMMA LockAlways == Spec => []LockInv
<1>1. Init => LockInv
  <2> SUFFICES ASSUME Init PROVE LockInv
    OBVIOUS
  <2>1. \A r \in Requests : ~At(r, "looked")
    BY IdleShaped DEF Init, At
  <2>2. QED
    BY <2>1, InitPlaces DEF LockInv, LockHeld, AnswerHolds
<1>2. QED
  BY <1>1, NextLock, PTL DEF Spec

(* No toggle is lost: each one that commits turns the like it found, and   *)
(* what it answers is what it committed (Toggle of the repositories under  *)
(* their advisory lock).                                                   *)
THEOREM TogglesFlip == Spec => EveryToggleFlips
<1> DEFINE A == \A r \in Requests : (At(r, "looked") /\ req'[r].pc = "telling") =>
                  /\ (Pair(r) \in likes') # (Pair(r) \in likes)
                  /\ (Pair(r) \in likes') # req[r].liked
<1>1. ASSUME LockInv, [Next]_vars PROVE [A]_vars
  <2> SUFFICES ASSUME Next, NEW r \in Requests, At(r, "looked"), req'[r].pc = "telling"
               PROVE  /\ (Pair(r) \in likes') # (Pair(r) \in likes)
                      /\ (Pair(r) \in likes') # req[r].liked
    BY <1>1
  <2>1. CASE Edit \/ StartWalk \/ ReadPage \/ ReadTotal \/ ReadRefused
    BY <2>1, ReadsOnly DEF At
  <2>2. ASSUME NEW q \in Requests, (Elsewhere(q) /\ ~Fail(q)) \/ Look(q) PROVE FALSE
    <3>1. q # r => req'[r] = req[r]
      <4>1. \E x : req' = [req EXCEPT ![q] = x]
        BY <1>1, <2>2, ElsewhereUnlooked DEF Look, LockInv
      <4>2. QED
        BY <1>1, <4>1 DEF LockInv, PlacesInv, Shaped
    <3>2. q = r
      BY <3>1 DEF At
    <3>3. ~At(r, "looked")
      BY <2>2, <3>2 DEF At, Elsewhere, Look, ToggleLike, ToggleCommentLike, AcceptToggle,
         CreateComment, DeleteComment, Accept, Begin, CommitComment, SoftDelete, Tell
    <3>4. QED
      BY <3>3
  <2>3. ASSUME NEW q \in Requests, Flip(q) PROVE q = r
    BY <1>1, <2>3 DEF Flip, At, LockInv, PlacesInv, Shaped
  <2>4. ASSUME NEW q \in Requests, Fail(q) PROVE FALSE
    <3>1. req' = [req EXCEPT ![q] = Idle]
      BY <2>4 DEF Fail
    <3>2. req'[r] \in {req[r], Idle}
      BY <1>1, <3>1 DEF LockInv, PlacesInv, Shaped
    <3>3. QED
      BY <3>2, IdleShaped DEF At
  <2>5. QED
    BY <1>1, <2>1, <2>2, <2>3, <2>4, FlipTurns DEF Next, Elsewhere
<1>2. QED
  BY <1>1, LockAlways, PTL DEF Spec, EveryToggleFlips

-----------------------------------------------------------------------------
Likers(t) == {u \in Users : <<u, t>> \in likes}

CountInv ==
  /\ PlacesInv /\ CountsExact
  /\ IsFiniteSet(Live) /\ \A t \in Things : IsFiniteSet(Likers(t))
  /\ likeCount \in [Things -> Nat]

(* Nothing that is counted changes.                                        *)
LEMMA UncountedKeeps ==
  ASSUME CountInv, PlacesInv', UNCHANGED <<likes, likeCount, commentCount>>, Live' = Live
  PROVE  CountInv'
BY DEF CountInv, CountsExact, Likers

(* A like is written: the trigger counts it where a row came or went, and  *)
(* the update of the counter counts no comment.                            *)
LEMMA RelikeKeeps ==
  ASSUME CountInv, PlacesInv', NEW u \in Users, NEW t \in Things, Likeable(t),
         comments' = comments,
         NEW after \in {likes \cup {<<u, t>>}, likes \ {<<u, t>>}}, Relike(<<u, t>>, after)
  PROVE  CountInv'
<1>1. likes' = after /\ likeCount' = LikeCount(<<u, t>>, after)
  BY DEF Relike
<1>2. Live' = Live
  BY DEF Live
<1>3. commentCount' = commentCount
  <2>1. t \in Ids => comments[t].state \in Standing
    BY DEF Likeable
  <2>2. QED
    BY <2>1 DEF Relike, CommentCount, Standing
<1>4. \A s \in Things \ {t} : Likers(s)' = Likers(s)
  BY <1>1 DEF Likers
<1>5. /\ likeCount' \in [Things -> Nat]
      /\ \A s \in Things \ {t} : likeCount'[s] = likeCount[s]
      /\ IsFiniteSet(Likers(t)') /\ likeCount'[t] = Cardinality(Likers(t)')
  <2>1. likeCount[t] = Cardinality(Likers(t)) /\ IsFiniteSet(Likers(t))
    BY DEF CountInv, CountsExact, Likers
  <2>2. CASE <<u, t>> \in after \ likes
    <3>1. Likers(t)' = Likers(t) \cup {u} /\ u \notin Likers(t)
      BY <1>1, <2>2 DEF Likers
    <3>2. IsFiniteSet(Likers(t)') /\ Cardinality(Likers(t)') = Cardinality(Likers(t)) + 1
      BY <2>1, <3>1, FS_AddElement
    <3>3. likeCount' = [likeCount EXCEPT ![t] = likeCount[t] + 1]
      BY <1>1, <2>2 DEF LikeCount
    <3>4. QED
      BY <2>1, <3>2, <3>3 DEF CountInv
  <2>3. CASE <<u, t>> \in likes \ after
    <3>1. Likers(t)' = Likers(t) \ {u} /\ u \in Likers(t)
      BY <1>1, <2>3 DEF Likers
    <3>2. IsFiniteSet(Likers(t)') /\ Cardinality(Likers(t)') = Cardinality(Likers(t)) - 1
      BY <2>1, <3>1, FS_RemoveElement
    <3>3. Cardinality(Likers(t)) > 0
      <4>1. Cardinality(Likers(t)) # 0
        BY <2>1, <3>1, FS_EmptySet
      <4>2. QED
        BY <2>1, <4>1, FS_CardinalityType
    <3>4. likeCount' = [likeCount EXCEPT ![t] = likeCount[t] - 1]
      BY <1>1, <2>1, <2>3, <3>3 DEF LikeCount
    <3>5. QED
      BY <2>1, <3>2, <3>3, <3>4 DEF CountInv
  <2>4. CASE <<u, t>> \notin after \ likes /\ <<u, t>> \notin likes \ after
    <3>1. likes' = likes
      BY <1>1, <2>4
    <3>2. Likers(t)' = Likers(t) /\ likeCount' = likeCount
      BY <1>1, <2>4, <3>1 DEF LikeCount, Likers
    <3>3. QED
      BY <2>1, <3>2 DEF CountInv
  <2>5. QED
    BY <2>2, <2>3, <2>4
<1>6. CountsExact'
  <2>1. \A s \in Things : likeCount'[s] = Cardinality(Likers(s)')
    BY <1>4, <1>5 DEF CountInv, CountsExact, Likers
  <2>2. QED
    BY <1>2, <1>3, <2>1 DEF CountInv, CountsExact, Likers
<1>7. QED
  BY <1>2, <1>4, <1>5, <1>6 DEF CountInv

(* A comment is committed: one more is there.                              *)
LEMMA CommitCounts ==
  ASSUME CountInv, PlacesInv', NEW r \in Requests, CommitComment(r)
  PROVE  CountInv'
<1> DEFINE c == req[r].thing
<1>1. /\ c \in Ids /\ comments[c].state = "open"
      /\ comments' = [comments EXCEPT ![c].state = "live"]
      /\ commentCount' = commentCount + 1 /\ UNCHANGED <<likes, likeCount>>
  BY DEF CommitComment, CountInv, PlacesInv, Placed, At, CommentCount
<1> HIDE DEF c
<1>2. Live' = Live \cup {c} /\ c \notin Live
  <2>1. \A d \in Ids : comments'[d].state = IF d = c THEN "live" ELSE comments[d].state
    BY <1>1 DEF CountInv, PlacesInv
  <2>2. QED
    BY <1>1, <2>1 DEF Live
<1>3. IsFiniteSet(Live') /\ Cardinality(Live') = Cardinality(Live) + 1
  BY <1>2, FS_AddElement DEF CountInv
<1>4. QED
  BY <1>1, <1>3 DEF CountInv, CountsExact, Likers

(* A comment is deleted: one fewer, unless it was deleted before.          *)
LEMMA SoftDeleteCounts ==
  ASSUME CountInv, PlacesInv', NEW r \in Requests, SoftDelete(r)
  PROVE  CountInv'
<1> DEFINE c == req[r].thing
<1>1. /\ c \in Ids /\ comments[c].state \in Standing
      /\ comments' = [comments EXCEPT ![c].state = "deleted"]
      /\ commentCount' = CommentCount(comments[c].state, "deleted")
      /\ UNCHANGED <<likes, likeCount>>
  BY DEF SoftDelete, CountInv, PlacesInv, Placed, At
<1> HIDE DEF c
<1>2. \A d \in Ids : comments'[d].state = IF d = c THEN "deleted" ELSE comments[d].state
  BY <1>1 DEF CountInv, PlacesInv
<1>3. CASE comments[c].state = "live"
  <2>1. Live' = Live \ {c} /\ c \in Live
    BY <1>1, <1>2, <1>3 DEF Live
  <2>2. IsFiniteSet(Live') /\ Cardinality(Live') = Cardinality(Live) - 1
    BY <2>1, FS_RemoveElement DEF CountInv
  <2>3. Cardinality(Live) > 0
    <3>1. Cardinality(Live) # 0
      BY <2>1, FS_EmptySet DEF CountInv
    <3>2. QED
      BY <3>1, FS_CardinalityType DEF CountInv
  <2>4. commentCount' = commentCount - 1
    BY <1>1, <1>3, <2>3 DEF CommentCount, CountInv, CountsExact
  <2>5. QED
    BY <1>1, <2>2, <2>4 DEF CountInv, CountsExact, Likers
<1>4. CASE comments[c].state = "deleted"
  <2>1. Live' = Live
    BY <1>2, <1>4 DEF Live
  <2>2. commentCount' = commentCount
    BY <1>1, <1>4 DEF CommentCount
  <2>3. QED
    BY <1>1, <2>1, <2>2, UncountedKeeps
<1>5. QED
  BY <1>1, <1>3, <1>4 DEF Standing

LEMMA NextCounts == CountInv /\ [Next]_vars => CountInv'
<1> SUFFICES ASSUME CountInv, [Next]_vars PROVE CountInv'
  OBVIOUS
<1>1. PlacesInv'
  BY NextPlaces DEF CountInv
<1>2. CASE Edit \/ StartWalk \/ ReadPage \/ ReadTotal \/ ReadRefused \/ UNCHANGED vars
  <2>1. UNCHANGED rows
    BY <1>2, ReadsOnly DEF vars, rows
  <2>2. QED
    BY <1>1, <2>1, UncountedKeeps DEF rows, Live
<1>3. ASSUME NEW r \in Requests,
             \/ ToggleLike(r) \/ ToggleCommentLike(r) \/ CreateComment(r) \/ DeleteComment(r)
             \/ Look(r) \/ Tell(r)
      PROVE  CountInv'
  <2>1. UNCHANGED rows
    BY <1>3, AcceptKeeps, AcceptCommentKeeps DEF CountInv, Look, Tell
  <2>2. QED
    BY <1>1, <2>1, UncountedKeeps DEF rows, Live
<1>4. ASSUME NEW r \in Requests, Begin(r) \/ Fail(r) PROVE CountInv'
  <2>1. UNCHANGED <<likes, likeCount, commentCount>>
    BY <1>4 DEF Begin, Fail
  <2>2. \A d \in Ids : comments'[d].state = "live" <=> comments[d].state = "live"
    <3>1. CASE Begin(r)
      <4>1. PICK c \in Ids : /\ comments[c].state = "none"
                             /\ comments' = [comments EXCEPT ![c] = Inserted(r)]
        BY <3>1 DEF Begin
      <4>2. QED
        BY <4>1 DEF Inserted, CountInv, PlacesInv
    <3>2. CASE Fail(r) /\ At(r, "open")
      <4>1. comments' = [comments EXCEPT ![req[r].thing].state = "undone"]
        BY <3>2 DEF Fail
      <4>2. req[r].thing \in Ids /\ comments[req[r].thing].state = "open"
        BY <3>2 DEF CountInv, PlacesInv, Placed, At
      <4>3. QED
        BY <4>1, <4>2 DEF CountInv, PlacesInv
    <3>3. CASE Fail(r) /\ ~At(r, "open")
      BY <3>3 DEF Fail
    <3>4. QED
      BY <1>4, <3>1, <3>2, <3>3
  <2>3. QED
    BY <1>1, <2>1, <2>2, UncountedKeeps DEF Live
<1>5. ASSUME NEW r \in Requests, Flip(r) PROVE CountInv'
  <2>1. req[r].user \in Users /\ Likeable(req[r].thing)
    BY <1>5 DEF Flip, CountInv, PlacesInv, Placed, At
  <2>2. QED
    BY <1>1, <1>5, <2>1, RelikeKeeps DEF Flip, Pair, LikePost, UnlikePost, Likeable
<1>6. QED
  BY <1>1, <1>2, <1>3, <1>4, <1>5, CommitCounts, SoftDeleteCounts DEF Next

(* The counters equal the rows in every reachable state: the likes of each *)
(* thing and the comments that are there (the triggers update_like_count,  *)
(* update_comment_like_count and update_comment_count).                    *)
THEOREM CountersExact == Spec => []CountsExact
<1>1. Init => CountInv
  <2> SUFFICES ASSUME Init PROVE CountInv
    OBVIOUS
  <2>1. Live = {} /\ \A t \in Things : Likers(t) = {}
    BY DEF Init, Live, NoComment, Likers
  <2>2. IsFiniteSet({}) /\ Cardinality({}) = 0
    BY FS_EmptySet
  <2>3. CountsExact
    BY <2>1, <2>2 DEF Init, CountsExact, Likers
  <2>4. QED
    BY <2>1, <2>2, <2>3, InitPlaces DEF CountInv, Init
<1>2. CountInv => CountsExact
  BY DEF CountInv
<1>3. QED
  BY <1>1, <1>2, NextCounts, PTL DEF Spec

-----------------------------------------------------------------------------
\* What a request that toggled a like has to tell, and one that commented.
LikeTodo(x) ==
  \/ x.todo = <<ToEmit(LikeKey(x.thing), Owner(x.thing))>>
  \/ x.todo = <<ToDelete(LikeKey(x.thing))>>
CommentOp(op) == op.do \in {"emit", "mention"} /\ \A t \in Things : op.key # LikeKey(t)
CommentTodo(x) ==
  \E S : x.todo \in Seq(S) /\ x.todo # <<>> /\ \A op \in S : CommentOp(op)

ToldLike(x) ==
  x.user \in Users /\ Likeable(x.thing) /\ x.user # Owner(x.thing) /\ LikeTodo(x)
ToldComment(x) ==
  /\ x.thing \in Ids /\ comments[x.thing].state \in Standing
  /\ x.user = comments[x.thing].by /\ CommentTodo(x)
TellsPlaced ==
  \A r \in Requests : At(r, "telling") => ToldLike(req[r]) \/ ToldComment(req[r])

\* A comment that does not exist has neither likes nor notifications of them.
LikesPlaced == \A c \in Ids, u \in Users : <<u, c>> \in likes => comments[c].state # "none"
NotesPlaced == \A n \in notes, c \in Ids : n.key = LikeKey(c) => comments[c].state # "none"

\* Who tells of a like that is not blurred tells the truth, and is the only one.
TellsTrue ==
  \A r \in Requests : (At(r, "telling") /\ ToldLike(req[r]) /\ Pair(r) \notin blurred) =>
    /\ Head(req[r].todo).do = "emit" <=> Pair(r) \in likes
    /\ \A q \in Requests \ {r} : At(q, "telling") => Pair(q) # Pair(r)

TellInv ==
  LockInv /\ TellsPlaced /\ LikesPlaced /\ NotesPlaced /\ TellsTrue /\ LikeNotesTrue

-----------------------------------------------------------------------------
\* No comment disappears or changes hands, and a committed one stays committed.
CommentsStay ==
  \A c \in Ids : comments[c].state # "none" =>
    /\ comments'[c].state # "none" /\ comments'[c].by = comments[c].by
    /\ comments[c].state \in Standing => comments'[c].state \in Standing

LEMMA NextComments == PlacesInv /\ [Next]_vars => CommentsStay
<1> SUFFICES ASSUME PlacesInv, [Next]_vars PROVE CommentsStay
  OBVIOUS
<1>1. CASE UNCHANGED comments
  BY <1>1 DEF CommentsStay
<1>2. ASSUME NEW r \in Requests, Begin(r) PROVE CommentsStay
  <2>1. PICK c \in Ids : /\ comments[c].state = "none"
                         /\ comments' = [comments EXCEPT ![c] = Inserted(r)]
    BY <1>2 DEF Begin
  <2>2. QED
    BY <2>1 DEF CommentsStay, PlacesInv
<1>3. ASSUME NEW r \in Requests, NEW s \in States \ {"none"}, req[r].thing \in Ids,
             comments[req[r].thing].state \in Standing => s \in Standing,
             comments' = [comments EXCEPT ![req[r].thing].state = s]
      PROVE  CommentsStay
  BY <1>3, CommentMoves DEF CommentsStay
<1>4. ASSUME NEW r \in Requests, CommitComment(r) \/ SoftDelete(r) PROVE CommentsStay
  <2>1. req[r].thing \in Ids
    BY <1>4 DEF CommitComment, SoftDelete, PlacesInv, Placed, At
  <2>2. PICK s \in {"live", "deleted"} :
          comments' = [comments EXCEPT ![req[r].thing].state = s]
    BY <1>4 DEF CommitComment, SoftDelete
  <2>3. QED
    BY <1>3, <2>1, <2>2 DEF States, Standing
<1>5. ASSUME NEW r \in Requests, Fail(r) PROVE CommentsStay
  <2>1. CASE At(r, "open")
    <3>1. req[r].thing \in Ids /\ comments[req[r].thing].state = "open"
      BY <2>1 DEF PlacesInv, Placed, At
    <3>2. comments' = [comments EXCEPT ![req[r].thing].state = "undone"]
      BY <1>5, <2>1 DEF Fail
    <3>3. "undone" \in States \ {"none"} /\ "open" \notin Standing
      BY DEF States, Standing
    <3>4. QED
      BY <1>3, <3>1, <3>2, <3>3
  <2>2. QED
    BY <1>1, <1>5, <2>1 DEF Fail
<1>6. ASSUME NEW r \in Requests,
             \/ ToggleLike(r) \/ ToggleCommentLike(r) \/ CreateComment(r) \/ DeleteComment(r)
             \/ Look(r) \/ Tell(r) \/ Flip(r)
      PROVE  UNCHANGED comments
  BY <1>6, AcceptKeeps, AcceptCommentKeeps DEF Look, Tell, Flip, rows
<1>7. CASE Edit \/ StartWalk \/ ReadPage \/ ReadTotal \/ ReadRefused \/ UNCHANGED vars
  BY <1>1, <1>7, ReadsOnly DEF vars, rows
<1>8. QED
  BY <1>1, <1>2, <1>4, <1>5, <1>6, <1>7 DEF Next

(* What is said of a thing that may be liked stays true of it.             *)
LEMMA LikeableStays ==
  ASSUME CommentsStay, NEW t \in Things
  PROVE  /\ Likeable(t) => Likeable(t)' /\ Owner(t)' = Owner(t)
         /\ (t \in Ids => comments[t].state # "none") => Owner(t)' = Owner(t)
BY PostNoComment DEF CommentsStay, Likeable, Owner, Things, Standing

LEMMA ToldStays ==
  ASSUME CommentsStay, NEW x
  PROVE  /\ ToldLike(x) => ToldLike(x)'
         /\ ToldComment(x) => ToldComment(x)'
<1>1. ASSUME ToldLike(x) PROVE ToldLike(x)'
  <2>1. x.thing \in Things /\ Likeable(x.thing)' /\ Owner(x.thing)' = Owner(x.thing)
    BY <1>1, LikeableStays DEF ToldLike, Likeable
  <2>2. QED
    BY <1>1, <2>1 DEF ToldLike, LikeTodo
<1>2. ASSUME ToldComment(x) PROVE ToldComment(x)'
  BY <1>2 DEF ToldComment, CommentsStay, CommentTodo, CommentOp, Standing
<1>3. QED
  BY <1>1, <1>2

(* Likes, notifications and blurs stay, who tells goes on telling, and     *)
(* only of a comment somebody begins to.                                   *)
LEMMA CalmKeeps ==
  ASSUME TellInv, LockInv', CommentsStay, UNCHANGED <<likes, notes, blurred>>,
         \A q \in Requests : At(q, "telling") => req'[q] = req[q],
         \A q \in Requests : At(q, "telling")' => At(q, "telling") \/ ToldComment(req[q])'
  PROVE  TellInv'
<1>1. \A q \in Requests : At(q, "telling") => At(q, "telling")' /\ Pair(q)' = Pair(q)
  BY DEF At, Pair
<1>2. TellsPlaced'
  BY <1>1, ToldStays DEF TellInv, TellsPlaced
<1>3. LikesPlaced' /\ NotesPlaced'
  BY DEF TellInv, LikesPlaced, NotesPlaced, CommentsStay, LikeKey
<1>4. TellsTrue'
  <2> SUFFICES ASSUME NEW r \in Requests, At(r, "telling")', ToldLike(req[r])',
                      Pair(r)' \notin blurred'
               PROVE  /\ Head(req'[r].todo).do = "emit" <=> Pair(r)' \in likes'
                      /\ \A q \in Requests \ {r} : At(q, "telling")' => Pair(q)' # Pair(r)'
    BY DEF TellsTrue
  <2>1. ~ToldComment(req[r])'
    BY PostNoComment DEF ToldLike, ToldComment, Owner
  <2>2. At(r, "telling") /\ req'[r] = req[r] /\ Pair(r)' = Pair(r)
    BY <1>1, <2>1
  <2>3. ToldLike(req[r]) /\ Pair(r) \notin blurred
    <3>1. ToldLike(req[r]) \/ ToldComment(req[r])
      BY <2>2 DEF TellInv, TellsPlaced
    <3>2. QED
      BY <2>1, <2>2, <3>1, ToldStays
  <2>4. /\ Head(req[r].todo).do = "emit" <=> Pair(r) \in likes
        /\ \A q \in Requests \ {r} : At(q, "telling") => Pair(q) # Pair(r)
    BY <2>2, <2>3 DEF TellInv, TellsTrue
  <2>5. ASSUME NEW q \in Requests \ {r}, At(q, "telling")' PROVE Pair(q)' # Pair(r)'
    <3>1. CASE At(q, "telling")
      BY <1>1, <2>2, <2>4, <3>1
    <3>2. CASE ToldComment(req[q])'
      <4>1. Pair(q)' = Pair(r)' => req'[q].user = req'[r].user /\ req'[q].thing = req'[r].thing
        BY DEF Pair
      <4>2. QED
        BY <3>2, <4>1, PostNoComment DEF ToldLike, ToldComment, Owner
    <3>3. QED
      BY <2>5, <3>1, <3>2
  <2>6. QED
    BY <2>2, <2>4, <2>5
<1>5. LikeNotesTrue'
  <2> SUFFICES ASSUME NEW t \in Things, NEW u \in Users \ {Owner(t)'},
                      <<u, t>> \notin blurred', ~Telling(<<u, t>>)'
               PROVE  ([actor |-> u, to |-> Owner(t)', key |-> LikeKey(t)] \in notes')
                        = (<<u, t>> \in likes')
    BY DEF LikeNotesTrue, LikeKey
  <2>1. CASE t \in Ids /\ comments[t].state = "none"
    <3>1. <<u, t>> \notin likes
      BY <2>1 DEF TellInv, LikesPlaced
    <3>2. [actor |-> u, to |-> Owner(t)', key |-> LikeKey(t)] \notin notes
      BY <2>1 DEF TellInv, NotesPlaced
    <3>3. QED
      BY <3>1, <3>2
  <2>2. CASE t \in Ids => comments[t].state # "none"
    <3>1. Owner(t)' = Owner(t)
      BY <2>2, LikeableStays
    <3>2. ~Telling(<<u, t>>)
      BY <1>1 DEF Telling
    <3>3. QED
      BY <3>1, <3>2 DEF TellInv, LikeNotesTrue
  <2>3. QED
    BY <2>1, <2>2
<1>6. QED
  BY <1>2, <1>3, <1>4, <1>5 DEF TellInv

(* What the service tells when a comment is committed.                     *)
LEMMA CommitTold ==
  ASSUME IsFiniteSet(Users), PlacesInv, NEW r \in Requests, CommitComment(r)
  PROVE  ToldComment(req[r])'
<1> DEFINE c == req[r].thing
           n == Cardinality(req[r].mentioned)
           Say(i) == [do |-> "mention", key |-> <<"mention", c>>,
                      to |-> SetToSeq(req[r].mentioned)[i]]
           about == <<IF comments[c].parent = Post THEN "comment" ELSE "reply",
                      comments[c].parent>>
           last == ToEmit(about, Owner(comments[c].parent))
           S == {Say(i) : i \in 1..n} \cup {last}
<1>1. /\ c \in Ids /\ comments[c].by = req[r].user /\ req[r].mentioned \subseteq Users
      /\ comments' = [comments EXCEPT ![c].state = "live"]
      /\ req' = [req EXCEPT ![r] = [req[r] EXCEPT !.pc = "telling", !.todo = AfterCreate(r)]]
  BY DEF CommitComment, PlacesInv, Placed, At
<1>2. /\ req'[r].todo = AfterCreate(r) /\ req'[r].thing = c /\ req'[r].user = req[r].user
      /\ comments'[c].state = "live" /\ comments'[c].by = comments[c].by
  BY <1>1 DEF PlacesInv, Shaped, Fields
<1>3. n \in Nat
  BY <1>1, FS_Subset, FS_CardinalityType
<1>4. AfterCreate(r) = [i \in 1..n |-> Say(i)] \o <<last>>
  BY DEF AfterCreate
<1>5. \A op \in S : CommentOp(op)
  BY DEF CommentOp, LikeKey, ToEmit
<1>6. [i \in 1..n |-> Say(i)] \in Seq(S) /\ last \in S
  BY <1>3
<1> HIDE DEF c, n, Say, about, last, S
<1>7. AfterCreate(r) \in Seq(S) /\ AfterCreate(r) # <<>>
  BY <1>4, <1>6
<1>8. CommentTodo(req'[r])
  BY <1>2, <1>5, <1>7 DEF CommentTodo
<1>9. QED
  BY <1>1, <1>2, <1>8 DEF ToldComment, Standing, CommentTodo, CommentOp

LEMMA CalmSteps ==
  ASSUME IsFiniteSet(Users), TellInv, LockInv', CommentsStay, NEW r \in Requests,
         (Elsewhere(r) /\ ~Tell(r)) \/ Look(r)
  PROVE  TellInv'
<1>1. UNCHANGED <<likes, notes, blurred>>
  BY AcceptKeeps, AcceptCommentKeeps
     DEF Elsewhere, Look, Begin, CommitComment, SoftDelete, Fail, rows, told, TellInv, LockInv
<1>2. ~At(r, "telling")
  BY DEF Elsewhere, Look, ToggleLike, ToggleCommentLike, AcceptToggle, CreateComment,
         DeleteComment, Accept, Begin, CommitComment, SoftDelete, Fail, At
<1>3. \A q \in Requests : q # r => req'[q] = req[q]
  <2>1. \E x : req' = [req EXCEPT ![r] = x]
    BY ElsewhereUnlooked DEF Look, TellInv, LockInv
  <2>2. QED
    BY <2>1 DEF TellInv, LockInv, PlacesInv, Shaped
<1>4. At(r, "telling")' => CommitComment(r)
  <2>1. CASE ToggleLike(r) \/ ToggleCommentLike(r)
    <3>1. PICK x : req' = [req EXCEPT ![r] = x] /\ x.pc = "like"
      BY <2>1, AcceptKeeps DEF TellInv, LockInv
    <3>2. QED
      BY <3>1 DEF TellInv, LockInv, PlacesInv, Shaped, At
  <2>2. CASE CreateComment(r) \/ DeleteComment(r)
    <3>1. PICK x : req' = [req EXCEPT ![r] = x] /\ x.pc \in {"create", "delete"}
      BY <2>2, AcceptCommentKeeps DEF TellInv, LockInv
    <3>2. QED
      BY <3>1 DEF TellInv, LockInv, PlacesInv, Shaped, At
  <2>3. CASE Begin(r)
    BY <2>3 DEF Begin, TellInv, LockInv, PlacesInv, Shaped, Fields, At
  <2>4. CASE Look(r)
    BY <2>4 DEF Look, TellInv, LockInv, PlacesInv, Shaped, Fields, At
  <2>5. CASE SoftDelete(r) \/ Fail(r)
    BY <2>5, IdleShaped DEF SoftDelete, Fail, TellInv, LockInv, PlacesInv, Shaped, At
  <2>6. QED
    BY <2>1, <2>2, <2>3, <2>4, <2>5 DEF Elsewhere
<1>5. \A q \in Requests : At(q, "telling") => req'[q] = req[q]
  BY <1>2, <1>3
<1>6. \A q \in Requests : At(q, "telling")' => At(q, "telling") \/ ToldComment(req[q])'
  <2>1. CommitComment(r) => ToldComment(req[r])'
    BY CommitTold DEF TellInv, LockInv
  <2>2. \A q \in Requests : q # r /\ At(q, "telling")' => At(q, "telling")
    BY <1>3 DEF At
  <2>3. QED
    BY <1>4, <2>1, <2>2
<1>7. QED
  BY <1>1, <1>5, <1>6, CalmKeeps

(* A toggle commits.                                                       *)
LEMMA FlipTells ==
  ASSUME TellInv, LockInv', NEW r \in Requests, Flip(r)
  PROVE  TellInv'
<1> DEFINE x == [req[r] EXCEPT !.pc = "telling", !.todo = AfterToggle(r)]
<1>1. /\ x.pc = "telling" /\ x.user = req[r].user /\ x.thing = req[r].thing
      /\ x.todo = AfterToggle(r) /\ req' = [req EXCEPT ![r] = x]
  BY DEF TellInv, LockInv, PlacesInv, Shaped, Fields, Flip
<1> HIDE DEF x
<1>2. req'[r] = x /\ \A q \in Requests : q # r => req'[q] = req[q]
  BY <1>1 DEF TellInv, LockInv, PlacesInv, Shaped
<1>3. /\ At(r, "looked") /\ ~At(r, "telling") /\ At(r, "telling")' /\ Pair(r)' = Pair(r)
      /\ \A q \in Requests \ {r} :
           (At(q, "telling")' <=> At(q, "telling")) /\ Pair(q)' = Pair(q)
  BY <1>1, <1>2 DEF Flip, At, Pair
<1>4. UNCHANGED <<comments, notes>>
  BY DEF Flip
<1>5. req[r].user \in Users /\ Likeable(req[r].thing) /\ req[r].user # Owner(req[r].thing)
  BY <1>3 DEF TellInv, LockInv, PlacesInv, Placed, At
<1>6. \A y : /\ ToldLike(y)' <=> ToldLike(y)
             /\ ToldComment(y)' <=> ToldComment(y)
  BY <1>4 DEF ToldLike, ToldComment, Likeable, Owner, LikeTodo, CommentTodo, CommentOp
<1>7. ToldLike(x)
  BY <1>1, <1>5 DEF ToldLike, LikeTodo, AfterToggle
<1>8. TellsPlaced'
  BY <1>2, <1>3, <1>6, <1>7 DEF TellInv, TellsPlaced
<1>9. /\ \A p : p # Pair(r) => (p \in likes' <=> p \in likes)
      /\ Pair(r) \in likes' <=> ~req[r].liked
  BY DEF Flip, Relike, LikePost, UnlikePost
<1>10. LikesPlaced' /\ NotesPlaced'
  <2>1. ASSUME NEW c \in Ids, NEW u \in Users, <<u, c>> \in likes'
        PROVE  comments[c].state # "none"
    <3>1. CASE <<u, c>> = Pair(r)
      BY <1>5, <3>1 DEF Pair, Likeable, Standing
    <3>2. CASE <<u, c>> # Pair(r)
      BY <1>9, <2>1, <3>2 DEF TellInv, LikesPlaced
    <3>3. QED
      BY <3>1, <3>2
  <2>2. QED
    BY <1>4, <2>1 DEF TellInv, LikesPlaced, NotesPlaced
<1>11. /\ Crossing(r) => Pair(r) \in blurred'
       /\ \A p : p # Pair(r) => (p \in blurred' <=> p \in blurred)
  BY DEF Flip
<1>12. TellsTrue'
  <2>1. ASSUME Pair(r) \notin blurred'
        PROVE  /\ Head(x.todo).do = "emit" <=> Pair(r) \in likes'
               /\ \A q \in Requests \ {r} : At(q, "telling") => Pair(q) # Pair(r)
    <3>1. \A q \in Requests \ {r} : At(q, "telling") => Pair(q) # Pair(r)
      BY <1>11, <2>1 DEF Crossing
    <3>2. Head(x.todo).do = "emit" <=> ~req[r].liked
      BY <1>1 DEF AfterToggle, ToEmit, ToDelete
    <3>3. QED
      BY <1>9, <3>1, <3>2
  <2>2. ASSUME NEW q \in Requests \ {r}, At(q, "telling"), ToldLike(req[q]),
               Pair(q) \notin blurred'
        PROVE  /\ Head(req[q].todo).do = "emit" <=> Pair(q) \in likes'
               /\ \A p \in Requests \ {q} : At(p, "telling")' => Pair(p)' # Pair(q)
    <3>1. Pair(q) # Pair(r)
      BY <1>11, <2>2 DEF Crossing
    <3>2. Pair(q) \notin blurred /\ (Pair(q) \in likes' <=> Pair(q) \in likes)
      BY <1>9, <1>11, <2>2, <3>1
    <3>3. /\ Head(req[q].todo).do = "emit" <=> Pair(q) \in likes
          /\ \A p \in Requests \ {q} : At(p, "telling") => Pair(p) # Pair(q)
      BY <2>2, <3>2 DEF TellInv, TellsTrue
    <3>4. QED
      BY <1>3, <3>1, <3>2, <3>3
  <2>3. QED
    BY <1>2, <1>3, <1>6, <2>1, <2>2 DEF TellsTrue
<1>13. LikeNotesTrue'
  <2> SUFFICES ASSUME NEW t \in Things, NEW u \in Users \ {Owner(t)},
                      <<u, t>> \notin blurred', ~Telling(<<u, t>>)'
               PROVE  ([actor |-> u, to |-> Owner(t), key |-> LikeKey(t)] \in notes)
                        = (<<u, t>> \in likes')
    BY <1>4 DEF LikeNotesTrue, LikeKey, Owner
  <2>1. <<u, t>> # Pair(r) /\ ~Telling(<<u, t>>)
    BY <1>3 DEF Telling
  <2>2. <<u, t>> \notin blurred /\ (<<u, t>> \in likes' <=> <<u, t>> \in likes)
    BY <1>9, <1>11, <2>1
  <2>3. QED
    BY <2>1, <2>2 DEF TellInv, LikeNotesTrue
<1>14. QED
  BY <1>8, <1>10, <1>12, <1>13 DEF TellInv

(* Two keys of likes are of two things.                                    *)
LEMMA KeysApart == \A s, t : LikeKey(s) = LikeKey(t) => s = t
BY DEF LikeKey

(* A toggle is told, or the call fails; it was the last thing to tell.     *)
LEMMA LikeTold ==
  ASSUME TellInv, LockInv', NEW r \in Requests, Tell(r), ToldLike(req[r])
  PROVE  TellInv'
<1> DEFINE op == Head(req[r].todo)
           u == req[r].user
           t == req[r].thing
           note == [actor |-> u, to |-> Owner(t), key |-> LikeKey(t)]
<1>1. /\ u \in Users /\ Likeable(t) /\ u # Owner(t) /\ t \in Things
      /\ Len(req[r].todo) = 1 /\ op.key = LikeKey(t) /\ op.do \in {"emit", "delete"}
      /\ op.do = "emit" => op.to = Owner(t)
  BY DEF ToldLike, LikeTodo, Likeable, ToEmit, ToDelete
<1>2. At(r, "telling") /\ UNCHANGED <<comments, likes>> /\ req' = [req EXCEPT ![r] = Idle]
  BY <1>1 DEF Tell, rows
<1>3. req'[r] = Idle /\ \A q \in Requests : q # r => req'[q] = req[q]
  BY <1>2 DEF TellInv, LockInv, PlacesInv, Shaped
<1>4. /\ ~At(r, "telling")'
      /\ \A q \in Requests \ {r} :
           (At(q, "telling")' <=> At(q, "telling")) /\ Pair(q)' = Pair(q)
  BY <1>3, IdleShaped DEF At, Pair
<1>5. \A y : /\ ToldLike(y)' <=> ToldLike(y)
             /\ ToldComment(y)' <=> ToldComment(y)
  BY <1>2 DEF ToldLike, ToldComment, Likeable, Owner, LikeTodo, CommentTodo, CommentOp
<1>6. \/ op.do = "emit" /\ notes' = notes \cup {note} /\ blurred' = blurred
      \/ op.do = "delete" /\ notes' = {n \in notes : ~(n.actor = u /\ n.key = LikeKey(t))}
         /\ blurred' = blurred
      \/ notes' = notes /\ blurred' = blurred \cup {<<u, t>>}
  <2>1. CASE op.do = "emit"
    BY <1>1, <2>1 DEF Tell, Emitted, Pair
  <2>2. CASE op.do = "delete"
    BY <1>1, <2>2 DEF Tell, Removed, Pair
  <2>3. QED
    BY <1>1, <2>1, <2>2
<1>7. Pair(r) = <<u, t>> /\ TellsPlaced'
  BY <1>3, <1>4, <1>5 DEF TellInv, TellsPlaced, Pair
<1>8. ASSUME <<u, t>> \notin blurred PROVE op.do = "emit" <=> <<u, t>> \in likes
  BY <1>2, <1>7, <1>8 DEF TellInv, TellsTrue
<1> HIDE DEF op, u, t
<1>9. LikesPlaced' /\ NotesPlaced'
  <2>1. ASSUME NEW n \in notes', NEW c \in Ids, n.key = LikeKey(c)
        PROVE  comments[c].state # "none"
    <3>1. CASE n \in notes
      BY <2>1, <3>1 DEF TellInv, NotesPlaced
    <3>2. CASE n = note
      <4>1. c = t
        BY <2>1, <3>2, KeysApart
      <4>2. QED
        BY <1>1, <4>1 DEF Likeable, Standing
    <3>3. QED
      BY <1>6, <2>1, <3>1, <3>2
  <2>2. LikesPlaced'
    BY <1>2 DEF TellInv, LikesPlaced
  <2>3. QED
    BY <1>2, <2>1, <2>2 DEF NotesPlaced
<1>10. TellsTrue'
  <2> SUFFICES ASSUME NEW q \in Requests \ {r}, At(q, "telling"), ToldLike(req[q]),
                      Pair(q) \notin blurred'
               PROVE  /\ Head(req[q].todo).do = "emit" <=> Pair(q) \in likes
                      /\ \A p \in Requests \ {q, r} : At(p, "telling") => Pair(p) # Pair(q)
    BY <1>2, <1>3, <1>4, <1>5 DEF TellsTrue
  <2>1. QED
    BY <1>6 DEF TellInv, TellsTrue
<1>11. LikeNotesTrue'
  <2> SUFFICES ASSUME NEW s \in Things, NEW v \in Users \ {Owner(s)},
                      <<v, s>> \notin blurred', ~Telling(<<v, s>>)'
               PROVE  ([actor |-> v, to |-> Owner(s), key |-> LikeKey(s)] \in notes')
                        = (<<v, s>> \in likes)
    BY <1>2 DEF LikeNotesTrue, LikeKey, Owner
  <2> DEFINE other == [actor |-> v, to |-> Owner(s), key |-> LikeKey(s)]
  <2>1. CASE v = u /\ s = t
    <3>1. <<u, t>> \notin blurred /\ other = note
      BY <1>6, <2>1
    <3>2. other \in notes' <=> op.do = "emit"
      BY <1>1, <1>6, <2>1, <3>1
    <3>3. QED
      BY <1>8, <2>1, <3>1, <3>2
  <2>2. CASE ~(v = u /\ s = t)
    <3>1. other # note /\ ~(other.actor = u /\ other.key = LikeKey(t))
      BY <2>2, KeysApart
    <3>2. other \in notes' <=> other \in notes
      BY <1>6, <3>1
    <3>3. <<v, s>> # Pair(r) /\ <<v, s>> \notin blurred
      BY <1>6, <1>7, <2>2
    <3>4. ~Telling(<<v, s>>)
      BY <1>4, <3>3 DEF Telling
    <3>5. (other \in notes) = (<<v, s>> \in likes)
      BY <3>3, <3>4 DEF TellInv, LikeNotesTrue
    <3>6. QED
      BY <3>2, <3>5
  <2>3. QED
    BY <2>1, <2>2
<1>12. QED
  BY <1>7, <1>9, <1>10, <1>11 DEF TellInv

(* Of more than one element, some follow the first.                        *)
LEMMA TailStays ==
  ASSUME NEW S, NEW s \in Seq(S), Len(s) > 1
  PROVE  Tail(s) \in Seq(S) /\ Tail(s) # <<>>
<1>1. s # <<>>
  OBVIOUS
<1>2. Tail(s) \in Seq(S) /\ Len(Tail(s)) = Len(s) - 1
  BY <1>1
<1>3. Len(Tail(s)) # 0 /\ Len(<<>>) = 0
  BY <1>2
<1>4. QED
  BY <1>2, <1>3, Zenon

(* A comment is told of, which is about no like.                           *)
LEMMA CommentTold ==
  ASSUME TellInv, LockInv', NEW r \in Requests, Tell(r), ToldComment(req[r])
  PROVE  TellInv'
<1> DEFINE op == Head(req[r].todo)
           x == IF Len(req[r].todo) > 1 THEN [req[r] EXCEPT !.todo = Tail(req[r].todo)]
                                        ELSE Idle
<1>1. PICK S : req[r].todo \in Seq(S) /\ req[r].todo # <<>> /\ \A o \in S : CommentOp(o)
  BY DEF ToldComment, CommentTodo
<1>2. CommentOp(op)
  BY <1>1
<1>3. At(r, "telling") /\ UNCHANGED <<comments, likes>> /\ req' = [req EXCEPT ![r] = x]
  BY DEF Tell, rows
<1>4. x = Idle \/ (x.pc = "telling" /\ Pair(r)' = Pair(r) /\ ToldComment(x))
  <2>1. CASE Len(req[r].todo) > 1
    <3>1. /\ x.pc = "telling" /\ x.user = req[r].user /\ x.thing = req[r].thing
          /\ x.todo = Tail(req[r].todo)
      BY <1>3, <2>1 DEF TellInv, LockInv, PlacesInv, Shaped, Fields, At
    <3>2. Tail(req[r].todo) \in Seq(S) /\ Tail(req[r].todo) # <<>>
      BY <1>1, <2>1, TailStays
    <3>3. ToldComment(x)
      BY <1>1, <3>1, <3>2 DEF ToldComment, CommentTodo
    <3>4. req'[r] = x
      BY <1>3 DEF TellInv, LockInv, PlacesInv, Shaped
    <3>5. QED
      BY <3>1, <3>3, <3>4 DEF Pair
  <2>2. CASE ~(Len(req[r].todo) > 1)
    BY <2>2
  <2>3. QED
    BY <2>1, <2>2
<1> HIDE DEF x
<1>5. req'[r] = x /\ \A q \in Requests : q # r => req'[q] = req[q]
  BY <1>3 DEF TellInv, LockInv, PlacesInv, Shaped
<1>6. \A y : /\ ToldLike(y)' <=> ToldLike(y)
             /\ ToldComment(y)' <=> ToldComment(y)
  BY <1>3 DEF ToldLike, ToldComment, Likeable, Owner, LikeTodo, CommentTodo, CommentOp
<1>7. /\ \A n : (\E t \in Things : n.key = LikeKey(t)) => (n \in notes' <=> n \in notes)
      /\ blurred' \in {blurred, blurred \cup {Pair(r)}}
  <2>1. notes' \in {notes, Emitted(op, req[r].user)}
    BY <1>2 DEF Tell, CommentOp, Mentioned
  <2>2. \A n \in Emitted(op, req[r].user) : n \notin notes => n.key = op.key
    BY DEF Emitted
  <2>3. notes \subseteq Emitted(op, req[r].user)
    BY DEF Emitted
  <2>4. blurred' \in {blurred, blurred \cup {Pair(r)}}
    BY <1>2 DEF Tell, CommentOp
  <2> HIDE DEF op
  <2>5. QED
    BY <1>2, <2>1, <2>2, <2>3, <2>4 DEF CommentOp
<1>8. \A q \in Requests : At(q, "telling")' => At(q, "telling") /\ Pair(q)' = Pair(q)
  BY <1>3, <1>4, <1>5, IdleShaped DEF At, Pair
<1>9. TellsPlaced'
  BY <1>4, <1>5, <1>6, IdleShaped DEF TellInv, TellsPlaced, At
<1>10. LikesPlaced' /\ NotesPlaced'
  BY <1>3, <1>7 DEF TellInv, LikesPlaced, NotesPlaced, Things
<1>11. \A t \in Things, v \in Users : v # Owner(t) => <<v, t>> # Pair(r)
  BY PostNoComment DEF Pair, ToldComment, Owner
<1>12. TellsTrue'
  <2> SUFFICES ASSUME NEW q \in Requests, At(q, "telling")', (ToldLike(req[q]))',
                      Pair(q)' \notin blurred'
               PROVE  /\ Head(req'[q].todo).do = "emit" <=> Pair(q)' \in likes
                      /\ \A p \in Requests \ {q} : At(p, "telling")' => Pair(p)' # Pair(q)'
    BY <1>3 DEF TellsTrue
  <2>1. ToldLike(req'[q])
    BY <1>6
  <2>2. q # r
    BY <1>4, <1>5, <2>1, IdleShaped, PostNoComment DEF At, ToldLike, ToldComment, Owner
  <2>3. req'[q] = req[q] /\ At(q, "telling") /\ Pair(q)' = Pair(q) /\ Pair(q) \notin blurred
    BY <1>5, <1>7, <1>8, <2>2
  <2>4. QED
    BY <1>8, <2>1, <2>3 DEF TellInv, TellsTrue
<1>13. LikeNotesTrue'
  <2> SUFFICES ASSUME NEW s \in Things, NEW v \in Users \ {Owner(s)},
                      <<v, s>> \notin blurred', ~Telling(<<v, s>>)'
               PROVE  ([actor |-> v, to |-> Owner(s), key |-> LikeKey(s)] \in notes')
                        = (<<v, s>> \in likes)
    BY <1>3 DEF LikeNotesTrue, LikeKey, Owner
  <2>1. <<v, s>> # Pair(r) /\ <<v, s>> \notin blurred
    BY <1>7, <1>11
  <2>2. ~Telling(<<v, s>>)
    BY <1>5, <2>1 DEF Telling, At, Pair
  <2>3. QED
    BY <1>7, <2>1, <2>2 DEF TellInv, LikeNotesTrue
<1>14. QED
  BY <1>9, <1>10, <1>12, <1>13 DEF TellInv

(* A like is announced to its owner exactly while it is there, unless a    *)
(* notification call failed or two toggles of it were told at once         *)
(* (LikeService.Toggle, CommentLikeService.Toggle, the emitters).          *)
THEOREM LikesAnnounced ==
  ASSUME IsFiniteSet(Users)
  PROVE  Spec => []LikeNotesTrue
<1>1. Init => TellInv
  <2> SUFFICES ASSUME Init, LockInv PROVE TellInv
    BY IdleShaped, InitPlaces DEF Init, LockInv, LockHeld, AnswerHolds, At
  <2>1. \A r \in Requests : ~At(r, "telling")
    BY IdleShaped DEF Init, At
  <2>2. QED
    BY <2>1 DEF Init, TellInv, TellsPlaced, LikesPlaced, NotesPlaced, TellsTrue, LikeNotesTrue
<1>2. TellInv /\ [Next]_vars => TellInv'
  <2> SUFFICES ASSUME TellInv, [Next]_vars PROVE TellInv'
    OBVIOUS
  <2>1. LockInv' /\ CommentsStay
    BY NextLock, NextComments DEF TellInv, LockInv
  <2>2. CASE Edit \/ StartWalk \/ ReadPage \/ ReadTotal \/ ReadRefused \/ UNCHANGED vars
    <3>1. UNCHANGED <<likes, notes, blurred, req>>
      BY <2>2, ReadsOnly DEF vars, rows, told
    <3>2. QED
      BY <2>1, <3>1, CalmKeeps DEF At
  <2>3. ASSUME NEW r \in Requests, Tell(r) PROVE TellInv'
    <3>1. ToldLike(req[r]) \/ ToldComment(req[r])
      BY <2>3 DEF Tell, TellInv, TellsPlaced
    <3>2. QED
      BY <2>1, <2>3, <3>1, LikeTold, CommentTold
  <2>4. ASSUME NEW r \in Requests, (Elsewhere(r) /\ ~Tell(r)) \/ Look(r) PROVE TellInv'
    BY <2>1, <2>4, CalmSteps
  <2>5. QED
    BY <2>1, <2>2, <2>3, <2>4, FlipTells DEF Next, Elsewhere
<1>3. TellInv => LikeNotesTrue
  BY DEF TellInv
<1>4. QED
  BY <1>1, <1>2, <1>3, PTL DEF Spec

-----------------------------------------------------------------------------
\* How many of S are not after c.
RowIn(S, c) == Cardinality({d \in S : d <= c})

LEMMA RowsClimb ==
  ASSUME NEW S \in SUBSET Nat, IsFiniteSet(S), NEW c \in S, NEW d \in S, c < d
  PROVE  RowIn(S, c) < RowIn(S, d)
<1> DEFINE C == {x \in S : x <= c}
           D == {x \in S : x <= d}
<1>0. c \in Nat /\ d \in Nat /\ \A x \in S : x \in Nat
  OBVIOUS
<1>1. C \subseteq D /\ d \in D /\ d \notin C
  <2>1. \A x \in S : x <= c => x <= d
    BY <1>0
  <2>2. ~(d <= c) /\ d <= d
    BY <1>0
  <2>3. QED
    BY <2>1, <2>2
<1>2. IsFiniteSet(D) /\ D \in SUBSET S
  BY FS_Subset
<1>3. Cardinality(C) \in Nat /\ Cardinality(D) \in Nat
  BY <1>1, <1>2, FS_Subset, FS_CardinalityType
<1>4. Cardinality(C) <= Cardinality(D) /\ Cardinality(C) # Cardinality(D)
  BY <1>1, <1>2, FS_Subset
<1>5. QED
  BY <1>3, <1>4 DEF RowIn

LEMMA RowWithin ==
  ASSUME NEW S \in SUBSET Nat, IsFiniteSet(S), NEW c \in S
  PROVE  RowIn(S, c) \in 1..Cardinality(S)
<1> DEFINE C == {x \in S : x <= c}
<1>1. C \in SUBSET S /\ c \in C
  OBVIOUS
<1>2. IsFiniteSet(C) /\ Cardinality(C) <= Cardinality(S)
  BY <1>1, FS_Subset
<1>3. Cardinality(C) \in Nat /\ Cardinality(S) \in Nat /\ Cardinality(C) # 0
  BY <1>1, <1>2, FS_CardinalityType, FS_EmptySet
<1>4. QED
  BY <1>2, <1>3 DEF RowIn

LEMMA RowsFill ==
  ASSUME NEW S \in SUBSET Nat, IsFiniteSet(S), NEW i \in 1..Cardinality(S)
  PROVE  \E c \in S : RowIn(S, c) = i
<1> DEFINE n == Cardinality(S)
           f == [c \in S |-> RowIn(S, c)]
<1>1. n \in Nat
  BY FS_CardinalityType
<1>2. f \in [S -> 1..n]
  BY RowWithin
<1>3. \A c, d \in S : f[c] = f[d] => c = d
  <2>1. SUFFICES ASSUME NEW c \in S, NEW d \in S, c # d PROVE f[c] # f[d]
    OBVIOUS
  <2>2. c \in Nat /\ d \in Nat /\ (c < d \/ d < c)
    BY <2>1
  <2>3. RowIn(S, c) \in Nat /\ RowIn(S, d) \in Nat
    BY RowWithin
  <2>4. QED
    BY <2>2, <2>3, RowsClimb
<1>4. f \in Injection(S, 1..n)
  BY <1>2, <1>3 DEF Injection, IsInjective
<1>5. IsFiniteSet(1..n) /\ Cardinality(1..n) = n
  BY <1>1, FS_Interval
<1>6. f \in Surjection(S, 1..n)
  BY <1>4, <1>5, FS_Injection
<1>7. QED
  BY <1>6 DEF Surjection

(* The i-th of S in order has i of them not after it.                      *)
LEMMA OrderIs ==
  ASSUME NEW S \in SUBSET Nat, IsFiniteSet(S)
  PROVE  /\ Cardinality(S) \in Nat
         /\ InOrder(S) \in [1..Cardinality(S) -> S]
         /\ \A i \in 1..Cardinality(S) : RowIn(S, InOrder(S)[i]) = i
         /\ \A c \in S : InOrder(S)[RowIn(S, c)] = c
         /\ \A i, j \in 1..Cardinality(S) : i < j => InOrder(S)[i] < InOrder(S)[j]
<1> DEFINE n == Cardinality(S)
           at(i) == CHOOSE c \in S : RowIn(S, c) = i
<1>1. n \in Nat
  BY FS_CardinalityType
<1>2. \A i \in 1..n : at(i) \in S /\ RowIn(S, at(i)) = i
  BY RowsFill
<1>3. InOrder(S) = [i \in 1..n |-> at(i)]
  BY DEF InOrder, RowIn
<1> HIDE DEF at
<1>4. \A i \in 1..n : InOrder(S)[i] \in S /\ RowIn(S, InOrder(S)[i]) = i
  BY <1>2, <1>3
<1>5. \A c, d \in S : RowIn(S, c) \in 1..n /\ (c < d => RowIn(S, c) < RowIn(S, d))
  BY RowWithin, RowsClimb
<1>6. \A c, d \in S : RowIn(S, c) <= RowIn(S, d) => c <= d
  <2>1. \A c \in S : c \in Nat
    OBVIOUS
  <2>2. \A c \in S : RowIn(S, c) \in Nat
    BY <1>1, <1>5
  <2>3. QED
    BY <1>5, <2>1, <2>2
<1>7. ASSUME NEW c \in S PROVE InOrder(S)[RowIn(S, c)] = c
  <2> DEFINE e == InOrder(S)[RowIn(S, c)]
  <2>1. RowIn(S, c) \in 1..n
    BY <1>5
  <2>2. e \in S /\ RowIn(S, e) = RowIn(S, c)
    BY <1>4, <2>1
  <2> HIDE DEF e
  <2>3. e <= c /\ c <= e
    BY <1>1, <1>6, <2>1, <2>2
  <2>4. e \in Nat /\ c \in Nat
    BY <2>2
  <2>5. e = c
    BY <2>3, <2>4
  <2>6. QED
    BY <2>5 DEF e
<1>8. ASSUME NEW i \in 1..n, NEW j \in 1..n, i < j PROVE InOrder(S)[i] < InOrder(S)[j]
  <2> DEFINE a == InOrder(S)[i]
             b == InOrder(S)[j]
  <2>1. a \in S /\ b \in S /\ RowIn(S, a) = i /\ RowIn(S, b) = j
    BY <1>4
  <2> HIDE DEF a, b
  <2>2. a \in Nat /\ b \in Nat /\ i \in Nat /\ j \in Nat
    BY <1>1, <2>1
  <2>3. ~(b <= a)
    <3>1. b < a => RowIn(S, b) < RowIn(S, a)
      BY <1>5, <2>1
    <3>2. b = a => RowIn(S, b) = RowIn(S, a)
      OBVIOUS
    <3>3. QED
      BY <1>8, <2>1, <2>2, <3>1, <3>2
  <2>4. a < b
    BY <2>2, <2>3
  <2>5. QED
    BY <2>4 DEF a, b
<1>9. QED
  BY <1>1, <1>3, <1>4, <1>7, <1>8

LEMMA RowGrows ==
  ASSUME NEW S \in SUBSET Nat, NEW T \in SUBSET Nat, S \subseteq T, IsFiniteSet(T), NEW c
  PROVE  /\ RowIn(S, c) \in Nat /\ RowIn(T, c) \in Nat
         /\ RowIn(S, c) <= RowIn(T, c)
<1> DEFINE A == {x \in S : x <= c}
           B == {x \in T : x <= c}
<1>1. A \in SUBSET B /\ B \in SUBSET T
  OBVIOUS
<1>2. IsFiniteSet(B)
  BY <1>1, FS_Subset
<1>3. IsFiniteSet(A) /\ Cardinality(A) <= Cardinality(B)
  BY <1>1, <1>2, FS_Subset
<1>4. QED
  BY <1>2, <1>3, FS_CardinalityType DEF RowIn

-----------------------------------------------------------------------------
Row(c) == RowIn(Children(walk.of), c)
Shown == {walk.shown[i] : i \in DOMAIN walk.shown}

WalkTyped ==
  /\ walk \in [pc : {"off", "page", "total", "done", "refused"}, of : Things,
               offset : Nat, from : SUBSET Ids, shown : Seq(Ids),
               shrunk : BOOLEAN, grew : BOOLEAN]
  /\ \A i \in DOMAIN walk.shown : comments[walk.shown[i]].state \in Standing

\* While nothing came late, what is shown climbs and was counted by the offset.
Climbs ==
  ~walk.grew =>
    /\ \A i, j \in DOMAIN walk.shown : i < j => walk.shown[i] < walk.shown[j]
    /\ \A i \in DOMAIN walk.shown : Row(walk.shown[i]) <= walk.offset

\* While nothing was deleted, what was there is there, and what the offset
\* has counted was shown.
Passed ==
  (walk.pc # "off" /\ ~walk.shrunk) =>
    /\ walk.from \subseteq Children(walk.of)
    /\ \A c \in walk.from : Row(c) <= walk.offset => c \in Shown
    /\ walk.pc = "done" => walk.from \subseteq Shown

PageInv == PlacesInv /\ WalkTyped /\ Climbs /\ Passed

LEMMA ChildrenFinite ==
  ASSUME MaxComments \in Nat, NEW t
  PROVE  IsFiniteSet(Children(t)) /\ Children(t) \in SUBSET Nat /\ Children(t) \in SUBSET Ids
<1>1. Children(t) \in SUBSET Ids /\ Ids \in SUBSET Nat
  BY DEF Children, Live, Ids
<1>2. IsFiniteSet(Ids)
  BY FS_Interval DEF Ids
<1>3. QED
  BY <1>1, <1>2, FS_Subset

LEMMA SplitIndex ==
  ASSUME NEW a \in Nat, NEW b \in Nat, NEW i \in 1..(a + b)
  PROVE  i \in 1..a \/ \E k \in 1..b : i = a + k
<1>1. CASE i <= a
  BY <1>1
<1>2. CASE i > a
  <2>1. i - a \in 1..b /\ i = a + (i - a)
    BY <1>2
  <2>2. QED
    BY <2>1
<1>3. QED
  BY <1>1, <1>2

LEMMA RowUp ==
  ASSUME NEW S \in SUBSET Nat, IsFiniteSet(S), NEW c \in Nat, NEW d \in Nat, c <= d
  PROVE  RowIn(S, c) <= RowIn(S, d)
<1> DEFINE A == {x \in S : x <= c}
           B == {x \in S : x <= d}
<1>1. \A x \in S : x \in Nat
  OBVIOUS
<1>2. A \subseteq B /\ B \subseteq S
  <2>1. \A x \in S : x <= c => x <= d
    BY <1>1
  <2>2. QED
    BY <2>1
<1>3. IsFiniteSet(B) /\ Cardinality(A) <= Cardinality(B)
  BY <1>2, FS_Subset
<1>4. QED
  BY <1>3 DEF RowIn

LEMMA InitPages == Init => PageInv
<1> SUFFICES ASSUME Init PROVE PageInv
  OBVIOUS
<1>1. PlacesInv
  BY InitPlaces
<1>2. walk = NoWalk /\ walk.shown = <<>> /\ walk.pc = "off"
  BY DEF Init, NoWalk
<1>3. WalkTyped
  BY <1>2, PostNoComment DEF WalkTyped, NoWalk, Things
<1>4. QED
  BY <1>1, <1>2, <1>3 DEF PageInv, Climbs, Passed

(* A page is the rows that follow the offset.                              *)
PageEnd == Min({walk.offset + Limit, Cardinality(Children(walk.of))})
PageRows == SubSeq(InOrder(Children(walk.of)), walk.offset + 1, PageEnd)

LEMMA PageIs ==
  ASSUME MaxComments \in Nat, Limit \in Nat, WalkTyped
  PROVE  /\ PageEnd \in Nat /\ PageEnd <= walk.offset + Limit
         /\ PageEnd <= Cardinality(Children(walk.of))
         /\ PageEnd = walk.offset + Limit \/ PageEnd = Cardinality(Children(walk.of))
         /\ PageRows \in Seq(Ids)
         /\ Len(PageRows) = IF walk.offset <= PageEnd THEN PageEnd - walk.offset ELSE 0
         /\ \A k \in 1..Len(PageRows) : PageRows[k] = InOrder(Children(walk.of))[walk.offset + k]
<1> DEFINE o == walk.offset
           S == Children(walk.of)
           n == Cardinality(S)
           L == InOrder(S)
           m == PageEnd
<1>1. o \in Nat /\ Limit \in Nat
  BY DEF WalkTyped
<1>2. S \in SUBSET Nat /\ S \in SUBSET Ids /\ IsFiniteSet(S) /\ n \in Nat
  BY ChildrenFinite, FS_CardinalityType
<1>3. L \in [1..n -> S]
  BY <1>2, OrderIs
<1>4. /\ m \in {o + Limit, n} /\ m <= o + Limit /\ m <= n
  <2> DEFINE M == {o + Limit, n}
  <2>1. \E x \in M : \A y \in M : x <= y
    BY <1>1, <1>2
  <2>2. m = Min(M)
    BY DEF PageEnd
  <2>3. m \in M /\ \A y \in M : m <= y
    BY <2>1, <2>2 DEF Min
  <2>4. QED
    BY <2>3
<1>5. m \in Nat
  BY <1>1, <1>2, <1>4
<1> HIDE DEF n, o, L, S, m
<1>6. \A i \in (o + 1)..m : L[i] \in Ids
  <2>1. \A i \in (o + 1)..m : i \in 1..n
    BY <1>1, <1>2, <1>4, <1>5
  <2>2. QED
    BY <1>2, <1>3, <2>1
<1>7. PageRows = SubSeq(L, o + 1, m)
  BY DEF PageRows, L, S, o, m
<1>8. /\ PageRows \in Seq(Ids)
      /\ Len(PageRows) = IF o + 1 <= m THEN m - (o + 1) + 1 ELSE 0
      /\ \A k \in 1..(m - (o + 1) + 1) : PageRows[k] = L[(o + 1) + k - 1]
  <2>1. o + 1 \in Int /\ m \in Int
    BY <1>1, <1>5
  <2>2. QED
    BY <1>6, <1>7, <2>1, SubSeqProperties
<1>9. Len(PageRows) = IF o <= m THEN m - o ELSE 0
  BY <1>1, <1>5, <1>8
<1>10. ASSUME NEW k \in 1..Len(PageRows) PROVE PageRows[k] = L[o + k]
  <2>1. k \in 1..(m - (o + 1) + 1) /\ (o + 1) + k - 1 = o + k
    BY <1>1, <1>5, <1>8
  <2>2. QED
    BY <1>8, <2>1
<1>11. QED
  BY <1>4, <1>5, <1>8, <1>9, <1>10 DEF n, o, L, S, m

LEMMA ReadPageKeeps ==
  ASSUME MaxComments \in Nat, Limit \in Nat, PageInv, PlacesInv', ReadPage
  PROVE  PageInv'
<1> DEFINE o == walk.offset
           S == Children(walk.of)
           n == Cardinality(S)
           m == PageEnd
           L == InOrder(S)
           p == PageRows
           s == walk.shown
<1>1. S \in SUBSET Nat /\ IsFiniteSet(S) /\ S \in SUBSET Ids
  BY ChildrenFinite
<1>2. /\ m \in Nat /\ m <= o + Limit /\ m <= n
      /\ m = o + Limit \/ m = n
      /\ p \in Seq(Ids)
      /\ Len(p) = IF o <= m THEN m - o ELSE 0
      /\ \A k \in 1..Len(p) : p[k] = L[o + k]
  BY PageIs DEF PageInv
<1>3. /\ n \in Nat
      /\ L \in [1..n -> S]
      /\ \A i \in 1..n : RowIn(S, L[i]) = i
      /\ \A c \in S : L[RowIn(S, c)] = c
      /\ \A i, j \in 1..n : i < j => L[i] < L[j]
  BY <1>1, OrderIs
<1>4. UNCHANGED comments /\ walk.pc = "page"
  BY DEF ReadPage, rows
<1>5. o \in Nat /\ s \in Seq(Ids) /\ walk.from \subseteq Ids
  BY DEF PageInv, WalkTyped
<1>6. /\ walk' = [walk EXCEPT !.pc = "total", !.offset = o + Limit, !.shown = s \o p]
      /\ walk'.pc = "total" /\ walk'.of = walk.of /\ walk'.from = walk.from
      /\ walk'.offset = o + Limit /\ walk'.shown = s \o p
      /\ walk'.shrunk = walk.shrunk /\ walk'.grew = walk.grew
  <2>1. /\ Listed(walk.of) = L
        /\ Total(walk.of) = n
    BY DEF Listed, CommentsByPost, Replies, Total, CountByPost, ReplyCount
  <2>2. walk' = [walk EXCEPT !.pc = "total", !.offset = o + Limit, !.shown = s \o p]
    BY <2>1 DEF ReadPage, PageRows, PageEnd
  <2> HIDE DEF p
  <2>3. QED
    BY <2>2 DEF PageInv, WalkTyped
<1>7. Children(walk.of)' = S /\ \A c : Row(c)' = RowIn(S, c)
  <2>1. \A t : Children(t)' = Children(t)
    BY <1>4 DEF Children, Live, Ids
  <2>2. walk'.of = walk.of
    BY <1>6
  <2>3. Children(walk.of)' = S
    BY <2>1, <2>2
  <2>4. QED
    BY <2>3 DEF Row, RowIn
<1> HIDE DEF m, L, p
<1>8. /\ Len(s \o p) = Len(s) + Len(p) /\ Len(s) \in Nat /\ Len(p) \in Nat
      /\ \A i \in 1..Len(s) : (s \o p)[i] = s[i]
      /\ \A i \in 1..Len(p) : (s \o p)[Len(s) + i] = p[i]
      /\ DOMAIN s = 1..Len(s) /\ DOMAIN p = 1..Len(p) /\ DOMAIN (s \o p) = 1..(Len(s) + Len(p))
      /\ s \o p \in Seq(Ids)
  <2>1. s \in Seq(Ids) /\ p \in Seq(Ids)
    BY <1>2, <1>5
  <2> HIDE DEF s
  <2>2. /\ s \o p \in Seq(Ids) /\ Len(s \o p) = Len(s) + Len(p)
        /\ Len(s) \in Nat /\ Len(p) \in Nat
    BY <2>1
  <2>3. DOMAIN s = 1..Len(s) /\ DOMAIN p = 1..Len(p) /\ DOMAIN (s \o p) = 1..(Len(s) + Len(p))
    BY <2>1, <2>2
  <2>4. \A i \in 1..Len(s) : (s \o p)[i] = s[i]
    BY <2>1, <2>2
  <2>5. \A i \in 1..Len(p) : (s \o p)[Len(s) + i] = p[i]
    BY <2>1, <2>2
  <2>6. QED
    BY <2>2, <2>3, <2>4, <2>5
<1>9. \A k \in 1..Len(p) : /\ o + k \in 1..n /\ p[k] = L[o + k] /\ p[k] \in S
                           /\ o + k <= o + Limit
  <2>1. ASSUME NEW k \in 1..Len(p) PROVE o + k \in 1..n /\ o + k <= o + Limit
    <3>1. k \in Nat /\ k > 0 /\ k <= Len(p) /\ o \in Nat /\ n \in Nat /\ m \in Nat
      BY <1>2, <1>3, <1>5, <1>8
    <3>2. Len(p) = m - o /\ m <= n /\ m <= o + Limit
      BY <1>2, <3>1
    <3> HIDE DEF n, o
    <3>3. QED
      BY <3>1, <3>2
  <2>2. QED
    BY <1>2, <1>3, <2>1
<1>10. WalkTyped'
  <2>1. \A c \in S : comments[c].state \in Standing
    BY DEF Children, Live, Standing
  <2>2. \A i \in DOMAIN s : comments[s[i]].state \in Standing
    BY DEF PageInv, WalkTyped
  <2>3. ASSUME NEW i \in DOMAIN (s \o p) PROVE comments[(s \o p)[i]].state \in Standing
    <3>1. i \in 1..(Len(s) + Len(p)) /\ Len(s) \in Nat /\ Len(p) \in Nat
      BY <1>8
    <3>2. i \in 1..Len(s) \/ \E k \in 1..Len(p) : i = Len(s) + k
      BY <3>1, SplitIndex
    <3>3. CASE i \in 1..Len(s)
      BY <1>8, <2>2, <3>3
    <3>4. ASSUME NEW k \in 1..Len(p), i = Len(s) + k
          PROVE  comments[(s \o p)[i]].state \in Standing
      BY <1>8, <1>9, <2>1, <3>4
    <3>5. QED
      BY <3>2, <3>3, <3>4
  <2>4. o + Limit \in Nat
    BY <1>5
  <2>5. walk' \in [pc : {"off", "page", "total", "done", "refused"}, of : Things,
               offset : Nat, from : SUBSET Ids, shown : Seq(Ids),
               shrunk : BOOLEAN, grew : BOOLEAN]
    <3> DEFINE w == s \o p
    <3>1. w \in Seq(Ids) /\ walk' = [walk EXCEPT !.pc = "total", !.offset = o + Limit, !.shown = w]
      BY <1>6, <1>8
    <3> HIDE DEF w
    <3>2. QED
      BY <2>4, <3>1 DEF PageInv, WalkTyped
  <2>6. QED
    BY <1>4, <1>6, <2>3, <2>5 DEF WalkTyped
<1>11. ASSUME ~walk.grew PROVE Climbs'
  <2> DEFINE q == s \o p
             ls == Len(s)
             lp == Len(p)
  <2>1. /\ \A i, j \in 1..ls : i < j => s[i] < s[j]
        /\ \A i \in 1..ls : RowIn(S, s[i]) <= o
    BY <1>8, <1>11 DEF PageInv, Climbs, Row
  <2>2. \A i \in 1..ls : s[i] \in Nat /\ RowIn(S, s[i]) \in Nat
    <3>1. \A i \in 1..ls : s[i] \in Ids
      BY <1>5
    <3>2. \A c : RowIn(S, c) \in Nat
      BY <1>1, RowGrows
    <3>3. QED
      BY <3>1, <3>2 DEF Ids
  <2>3. ASSUME NEW i \in 1..ls, NEW k \in 1..lp PROVE s[i] < p[k]
    <3>1. p[k] \in Nat /\ RowIn(S, p[k]) = o + k /\ k \in Nat /\ k > 0
      BY <1>1, <1>3, <1>8, <1>9
    <3>2. ~(p[k] <= s[i])
      <4>1. p[k] <= s[i] => RowIn(S, p[k]) <= RowIn(S, s[i])
        BY <1>1, <2>2, <3>1, RowUp
      <4>2. RowIn(S, s[i]) <= o /\ RowIn(S, s[i]) \in Nat
        BY <2>1, <2>2
      <4>3. QED
        BY <1>5, <3>1, <4>1, <4>2
    <3>3. QED
      BY <2>2, <3>1, <3>2
  <2>4. ASSUME NEW k \in 1..lp, NEW l \in 1..lp, k < l PROVE p[k] < p[l]
    BY <1>3, <1>5, <1>8, <1>9, <2>4
  <2>5. ASSUME NEW i \in 1..(ls + lp), NEW j \in 1..(ls + lp), i < j PROVE q[i] < q[j]
    <3>1. CASE j \in 1..ls
      <4>1. i \in 1..ls
        BY <1>8, <2>5, <3>1
      <4>2. QED
        BY <1>8, <2>1, <2>5, <3>1, <4>1
    <3>2. ASSUME NEW l \in 1..lp, j = ls + l PROVE q[i] < q[j]
      <4>1. q[j] = p[l]
        BY <1>8, <3>2
      <4>2. CASE i \in 1..ls
        BY <1>8, <2>3, <4>1, <4>2
      <4>3. ASSUME NEW k \in 1..lp, i = ls + k PROVE q[i] < q[j]
        <5>1. k < l
          BY <1>8, <2>5, <3>2, <4>3
        <5>2. QED
          BY <1>8, <2>4, <4>1, <4>3, <5>1
      <4>4. QED
        BY <1>8, <4>2, <4>3, SplitIndex
    <3>3. QED
      BY <1>8, <3>1, <3>2, SplitIndex
  <2>6. ASSUME NEW i \in 1..(ls + lp) PROVE RowIn(S, q[i]) <= o + Limit
    <3>1. CASE i \in 1..ls
      <4>1. q[i] = s[i] /\ RowIn(S, s[i]) <= o /\ RowIn(S, s[i]) \in Nat
        BY <1>8, <2>1, <2>2, <3>1
      <4>2. QED
        BY <1>5, <4>1
    <3>2. ASSUME NEW k \in 1..lp, i = ls + k PROVE RowIn(S, q[i]) <= o + Limit
      BY <1>3, <1>8, <1>9, <3>2
    <3>3. QED
      BY <1>8, <3>1, <3>2, SplitIndex
  <2>7. walk'.shown = q /\ walk'.offset = o + Limit /\ DOMAIN q = 1..(ls + lp)
    BY <1>6, <1>8
  <2> HIDE DEF q, ls, lp
  <2>8. QED
    BY <1>7, <2>5, <2>6, <2>7 DEF Climbs
<1>12. ASSUME ~walk.shrunk PROVE Passed'
  <2>1. /\ walk.from \subseteq S
        /\ \A c \in walk.from : RowIn(S, c) <= o => c \in Shown
    BY <1>4, <1>12 DEF PageInv, Passed, Row
  <2>2. Shown' = {(s \o p)[i] : i \in DOMAIN (s \o p)}
    BY <1>6 DEF Shown
  <2>3. ASSUME NEW c \in walk.from, RowIn(S, c) <= o + Limit PROVE c \in Shown'
    <3> DEFINE k == RowIn(S, c) - o
    <3>1. c \in S /\ RowIn(S, c) \in 1..n
      BY <1>1, <2>1, RowWithin
    <3>2. CASE RowIn(S, c) <= o
      <4>1. PICK i \in 1..Len(s) : s[i] = c
        BY <1>8, <2>1, <3>2 DEF Shown
      <4>2. i \in DOMAIN (s \o p) /\ (s \o p)[i] = c
        BY <1>8, <4>1
      <4>3. QED
        BY <2>2, <4>2
    <3>3. CASE ~(RowIn(S, c) <= o)
      <4>1. k \in 1..Len(p) /\ o + k = RowIn(S, c)
        BY <1>2, <1>3, <1>5, <2>3, <3>1, <3>3
      <4>2. p[k] = c
        BY <1>3, <1>9, <3>1, <4>1
      <4>3. Len(s) + k \in DOMAIN (s \o p) /\ (s \o p)[Len(s) + k] = c
        BY <1>8, <4>1, <4>2
      <4>4. QED
        BY <2>2, <4>3
    <3>4. QED
      BY <3>2, <3>3
  <2>4. QED
    BY <1>6, <1>7, <2>1, <2>3 DEF Passed
<1>13. QED
  BY <1>6, <1>10, <1>11, <1>12 DEF PageInv, Climbs, Passed

(* Steps that leave the list and the reader alone.                         *)
LEMMA SamePages ==
  ASSUME PageInv, PlacesInv', CommentsStay, walk' = walk,
         Children(walk.of)' = Children(walk.of)
  PROVE  PageInv'
<1>1. \A c : Row(c)' = Row(c)
  BY DEF Row
<1>2. WalkTyped'
  BY DEF PageInv, WalkTyped, CommentsStay, Standing
<1>3. Climbs'
  BY <1>1 DEF PageInv, Climbs
<1>4. Passed'
  BY <1>1 DEF PageInv, Passed, Shown
<1>5. QED
  BY <1>2, <1>3, <1>4 DEF PageInv

LEMMA StartWalkKeeps ==
  ASSUME MaxComments \in Nat, PageInv, PlacesInv', StartWalk
  PROVE  PageInv'
<1>1. PICK t \in Live \cup {Post} :
        walk' = [NoWalk EXCEPT !.pc = "page", !.of = t, !.from = Children(t)]
  BY DEF StartWalk
<1>2. UNCHANGED comments
  BY DEF StartWalk, rows
<1>3. /\ walk'.pc = "page" /\ walk'.of = t /\ walk'.offset = 0 /\ walk'.from = Children(t)
      /\ walk'.shown = <<>>
  BY <1>1 DEF NoWalk
<1>4. WalkTyped'
  <2>1. t \in Things /\ Children(t) \in SUBSET Ids
    BY ChildrenFinite DEF Things, Live
  <2>2. walk' \in [pc : {"off", "page", "total", "done", "refused"}, of : Things,
                  offset : Nat, from : SUBSET Ids, shown : Seq(Ids),
                  shrunk : BOOLEAN, grew : BOOLEAN]
    <3> DEFINE C == Children(t)
    <3>1. C \in SUBSET Ids /\ walk' = [NoWalk EXCEPT !.pc = "page", !.of = t, !.from = C]
      BY <1>1, <2>1
    <3> HIDE DEF C
    <3>2. walk' = [pc |-> "page", of |-> t, offset |-> 0, from |-> C, shown |-> <<>>,
                   shrunk |-> FALSE, grew |-> FALSE]
      BY <3>1 DEF NoWalk
    <3>3. <<>> \in Seq(Ids)
      OBVIOUS
    <3>4. C \in SUBSET Ids /\ t \in Things /\ 0 \in Nat /\ FALSE \in BOOLEAN
          /\ "page" \in {"off", "page", "total", "done", "refused"}
      BY <2>1, <3>1
    <3>5. QED
      BY <3>2, <3>3, <3>4
  <2>3. DOMAIN walk'.shown = {}
    BY <1>3
  <2>4. QED
    BY <2>2, <2>3 DEF WalkTyped
<1>5. Climbs'
  BY <1>3 DEF Climbs
<1>6. Children(walk.of)' = Children(t)
  BY <1>2, <1>3 DEF Children, Live
<1>7. \A c \in Children(t) : ~(Row(c)' <= 0)
  <2>1. \A c \in Children(t) : RowIn(Children(t), c) \in 1..Cardinality(Children(t))
    BY ChildrenFinite, RowWithin
  <2>2. Cardinality(Children(t)) \in Nat
    BY ChildrenFinite, FS_CardinalityType
  <2>3. \A c : Row(c)' = RowIn(Children(t), c)
    BY <1>6 DEF Row, RowIn
  <2>4. QED
    BY <2>1, <2>2, <2>3
<1>8. Passed'
  BY <1>3, <1>6, <1>7 DEF Passed
<1>9. QED
  BY <1>4, <1>5, <1>8 DEF PageInv

LEMMA ReadTotalKeeps ==
  ASSUME MaxComments \in Nat, PageInv, PlacesInv', ReadTotal
  PROVE  PageInv'
<1>1. UNCHANGED comments /\ walk.pc = "total"
  BY DEF ReadTotal, rows
<1>2. /\ walk' \in [pc : {"off", "page", "total", "done", "refused"}, of : Things,
                    offset : Nat, from : SUBSET Ids, shown : Seq(Ids),
                    shrunk : BOOLEAN, grew : BOOLEAN]
      /\ walk'.of = walk.of /\ walk'.offset = walk.offset /\ walk'.from = walk.from
      /\ walk'.shown = walk.shown /\ walk'.shrunk = walk.shrunk /\ walk'.grew = walk.grew
      /\ walk'.pc = "done" => ~(walk.offset < Total(walk.of))
  BY DEF ReadTotal, PageInv, WalkTyped
<1>3. Children(walk.of)' = Children(walk.of)
  BY <1>1, <1>2 DEF Children, Live
<1>4. \A c : Row(c)' = Row(c)
  BY <1>3 DEF Row, RowIn
<1>5. WalkTyped'
  BY <1>1, <1>2 DEF PageInv, WalkTyped
<1>6. Climbs'
  BY <1>2, <1>4 DEF PageInv, Climbs
<1>7. ASSUME ~walk.shrunk PROVE Passed'
  <2>1. /\ walk.from \subseteq Children(walk.of)
        /\ \A c \in walk.from : Row(c) <= walk.offset => c \in Shown
    BY <1>1, <1>7 DEF PageInv, Passed
  <2>2. Shown' = Shown
    BY <1>2 DEF Shown
  <2>3. ASSUME walk'.pc = "done" PROVE walk.from \subseteq Shown
    <3> DEFINE S == Children(walk.of)
    <3>1. ~(walk.offset < Cardinality(S))
      BY <1>2, <2>3 DEF Total, CountByPost, ReplyCount
    <3>2. S \in SUBSET Nat /\ IsFiniteSet(S) /\ Cardinality(S) \in Nat
      BY ChildrenFinite, FS_CardinalityType
    <3>3. \A c \in S : Row(c) \in 1..Cardinality(S)
      BY <3>2, RowWithin DEF Row
    <3>4. walk.offset \in Nat
      BY DEF PageInv, WalkTyped
    <3>5. \A c \in S : Row(c) <= walk.offset
      BY <3>1, <3>2, <3>3, <3>4
    <3>6. QED
      BY <2>1, <3>5
  <2>4. QED
    BY <1>2, <1>3, <1>4, <2>1, <2>2, <2>3 DEF Passed
<1>8. QED
  BY <1>2, <1>5, <1>6, <1>7 DEF PageInv, Passed

LEMMA ReadRefusedKeeps ==
  ASSUME PageInv, PlacesInv', ReadRefused
  PROVE  PageInv'
<1>1. UNCHANGED comments /\ walk.pc = "page" /\ walk' = [walk EXCEPT !.pc = "refused"]
  BY DEF ReadRefused, rows
<1>2. /\ walk' \in [pc : {"off", "page", "total", "done", "refused"}, of : Things,
                    offset : Nat, from : SUBSET Ids, shown : Seq(Ids),
                    shrunk : BOOLEAN, grew : BOOLEAN]
      /\ walk'.of = walk.of /\ walk'.offset = walk.offset /\ walk'.from = walk.from
      /\ walk'.shown = walk.shown /\ walk'.shrunk = walk.shrunk /\ walk'.grew = walk.grew
      /\ walk'.pc = "refused"
  BY <1>1 DEF PageInv, WalkTyped
<1>3. Children(walk.of)' = Children(walk.of)
  BY <1>1, <1>2 DEF Children, Live
<1>4. \A c : Row(c)' = Row(c)
  BY <1>3 DEF Row, RowIn
<1>5. WalkTyped'
  BY <1>1, <1>2 DEF PageInv, WalkTyped
<1>6. Climbs'
  BY <1>2, <1>4 DEF PageInv, Climbs
<1>7. Passed'
  BY <1>1, <1>2, <1>3, <1>4 DEF PageInv, Passed, Shown
<1>8. QED
  BY <1>5, <1>6, <1>7 DEF PageInv

(* A comment that commits is new to the list, and comes after what was     *)
(* shown unless the reader's list grew in the middle.                      *)
LEMMA CommitPages ==
  ASSUME MaxComments \in Nat, PageInv, PlacesInv', CommentsStay,
         NEW r \in Requests, CommitComment(r)
  PROVE  PageInv'
<1> DEFINE c == req[r].thing
           S == Children(walk.of)
           T == Children(walk.of)'
           s == walk.shown
<1>1. c \in Ids /\ comments[c].state = "open"
  BY DEF CommitComment, PageInv, PlacesInv, Placed, At
<1>2. comments' = [comments EXCEPT ![c].state = "live"]
  BY DEF CommitComment
<1>3. \A d \in Ids : /\ comments'[d].parent = comments[d].parent
                     /\ comments'[d].state = IF d = c THEN "live" ELSE comments[d].state
  BY <1>1, <1>2, CommentMoves DEF PageInv, PlacesInv
<1>4. /\ walk' \in [pc : {"off", "page", "total", "done", "refused"}, of : Things,
                    offset : Nat, from : SUBSET Ids, shown : Seq(Ids),
                    shrunk : BOOLEAN, grew : BOOLEAN]
      /\ walk'.of = walk.of /\ walk'.offset = walk.offset /\ walk'.from = walk.from
      /\ walk'.pc = walk.pc
      /\ walk'.shown = walk.shown /\ walk'.shrunk = walk.shrunk
      /\ walk'.grew = (walk.grew \/ (/\ comments[c].parent = walk.of
                                     /\ walk.shown # <<>>
                                     /\ c < Last(walk.shown)))
  BY DEF CommitComment, PageInv, WalkTyped
<1>5. S \subseteq T /\ c \notin S /\ T \subseteq S \cup {c}
      /\ (comments[c].parent # walk.of => T = S)
  BY <1>1, <1>3, <1>4 DEF Children, Live
<1>6. /\ S \in SUBSET Nat /\ IsFiniteSet(S) /\ T \in SUBSET Nat /\ IsFiniteSet(T)
  <2>1. T \in SUBSET Ids /\ Ids \in SUBSET Nat /\ IsFiniteSet(Ids)
    BY FS_Interval DEF Children, Live, Ids
  <2>2. QED
    BY <2>1, ChildrenFinite, FS_Subset
<1>7. \A d : Row(d) = RowIn(S, d) /\ Row(d)' = RowIn(T, d)
  BY DEF Row, RowIn
<1>8. WalkTyped'
  BY <1>4 DEF PageInv, WalkTyped, CommentsStay, Standing
<1>9. ASSUME ~walk'.grew PROVE Climbs'
  <2>1. /\ \A i, j \in DOMAIN s : i < j => s[i] < s[j]
        /\ \A i \in DOMAIN s : RowIn(S, s[i]) <= walk.offset
    BY <1>4, <1>7, <1>9 DEF PageInv, Climbs
  <2>2. s \in Seq(Ids) /\ \A i \in DOMAIN s : s[i] \in Ids /\ comments[s[i]].state \in Standing
    BY DEF PageInv, WalkTyped
  <2>3. ASSUME NEW i \in DOMAIN s PROVE RowIn(T, s[i]) = RowIn(S, s[i])
    <3>1. CASE comments[c].parent # walk.of
      BY <1>5, <3>1
    <3>2. CASE comments[c].parent = walk.of
      <4>1. Len(s) \in Nat /\ DOMAIN s = 1..Len(s)
        BY <2>2
      <4>2. s # <<>> /\ Len(s) \in DOMAIN s /\ i <= Len(s) /\ i \in Nat
        BY <2>2, <2>3, <4>1
      <4>3. ~(c < s[Len(s)])
        BY <1>4, <1>9, <3>2, <4>2 DEF Last
      <4>4. s[i] \in Nat /\ s[Len(s)] \in Nat /\ c \in Nat /\ c # s[i]
        BY <1>1, <2>2, <2>3, <4>2 DEF Ids, Standing
      <4>5. s[i] <= s[Len(s)]
        <5>1. CASE i = Len(s)
          BY <4>4, <5>1
        <5>2. CASE i # Len(s)
          BY <2>1, <2>3, <4>1, <4>2, <4>4, <5>2
        <5>3. QED
          BY <5>1, <5>2
      <4>6. ~(c <= s[i])
        BY <4>3, <4>4, <4>5
      <4>7. {d \in T : d <= s[i]} = {d \in S : d <= s[i]}
        BY <1>5, <4>6
      <4>8. QED
        BY <4>7 DEF RowIn
    <3>3. QED
      BY <3>1, <3>2
  <2>4. QED
    BY <1>4, <1>7, <2>1, <2>3 DEF Climbs
<1>10. ASSUME walk.pc # "off", ~walk.shrunk PROVE Passed'
  <2>1. /\ walk.from \subseteq S
        /\ \A d \in walk.from : RowIn(S, d) <= walk.offset => d \in Shown
        /\ walk.pc = "done" => walk.from \subseteq Shown
    BY <1>7, <1>10 DEF PageInv, Passed
  <2>2. \A d : /\ RowIn(S, d) \in Nat /\ RowIn(T, d) \in Nat
               /\ RowIn(S, d) <= RowIn(T, d)
    BY <1>5, <1>6, RowGrows
  <2>3. walk.offset \in Nat
    BY DEF PageInv, WalkTyped
  <2>4. \A d \in walk.from : RowIn(T, d) <= walk.offset => d \in Shown
    BY <2>1, <2>2, <2>3
  <2>5. Shown' = Shown
    BY <1>4 DEF Shown
  <2>6. QED
    BY <1>4, <1>5, <1>7, <2>1, <2>4, <2>5 DEF Passed
<1>11. QED
  BY <1>4, <1>8, <1>9, <1>10 DEF PageInv, Climbs, Passed

(* A deletion only brings rows forward, and is told of if it took one.     *)
LEMMA SoftDeletePages ==
  ASSUME MaxComments \in Nat, PageInv, PlacesInv', CommentsStay,
         NEW r \in Requests, SoftDelete(r)
  PROVE  PageInv'
<1> DEFINE c == req[r].thing
           S == Children(walk.of)
           T == Children(walk.of)'
<1>1. c \in Ids
  BY DEF SoftDelete, PageInv, PlacesInv, Placed, At
<1>2. comments' = [comments EXCEPT ![c].state = "deleted"]
  BY DEF SoftDelete
<1>3. \A d \in Ids : /\ comments'[d].parent = comments[d].parent
                     /\ comments'[d].state = IF d = c THEN "deleted" ELSE comments[d].state
  BY <1>1, <1>2, CommentMoves DEF PageInv, PlacesInv
<1>4. /\ walk' \in [pc : {"off", "page", "total", "done", "refused"}, of : Things,
                    offset : Nat, from : SUBSET Ids, shown : Seq(Ids),
                    shrunk : BOOLEAN, grew : BOOLEAN]
      /\ walk'.of = walk.of /\ walk'.offset = walk.offset /\ walk'.from = walk.from
      /\ walk'.pc = walk.pc /\ walk'.shown = walk.shown /\ walk'.grew = walk.grew
      /\ walk'.shrunk = (walk.shrunk \/ (c \in S /\ walk.pc # "off"))
  BY DEF SoftDelete, PageInv, WalkTyped
<1>5. T = S \ {c}
  BY <1>1, <1>3, <1>4 DEF Children, Live
<1>6. S \in SUBSET Nat /\ IsFiniteSet(S) /\ T \in SUBSET Nat
  BY <1>5, ChildrenFinite
<1>7. \A d : Row(d) = RowIn(S, d) /\ Row(d)' = RowIn(T, d)
  BY DEF Row, RowIn
<1>8. WalkTyped'
  BY <1>4 DEF PageInv, WalkTyped, CommentsStay, Standing
<1>9. \A d : /\ RowIn(S, d) \in Nat /\ RowIn(T, d) \in Nat
             /\ RowIn(T, d) <= RowIn(S, d)
  <2>1. T \subseteq S
    BY <1>5
  <2>2. QED
    BY <1>6, <2>1, RowGrows
<1>10. Climbs'
  <2>1. walk.offset \in Nat
    BY DEF PageInv, WalkTyped
  <2>2. \A d : Row(d) <= walk.offset => Row(d)' <= walk.offset
    BY <1>7, <1>9, <2>1
  <2>3. QED
    BY <1>4, <2>2 DEF PageInv, Climbs
<1>11. ASSUME walk.pc # "off", ~walk'.shrunk PROVE Passed'
  <2>1. ~walk.shrunk /\ T = S
    BY <1>4, <1>5, <1>11
  <2>2. \A d : Row(d)' = Row(d)
    BY <1>7, <2>1
  <2>3. Shown' = Shown
    BY <1>4 DEF Shown
  <2>4. QED
    BY <1>4, <1>11, <2>1, <2>2, <2>3 DEF PageInv, Passed
<1>12. QED
  BY <1>4, <1>8, <1>10, <1>11 DEF PageInv, Passed

(* Begin and Fail change comments no list holds.                           *)
LEMMA OtherPages ==
  ASSUME PageInv, PlacesInv', CommentsStay, NEW r \in Requests,
         \/ ToggleLike(r) \/ ToggleCommentLike(r) \/ Look(r) \/ Flip(r)
         \/ CreateComment(r) \/ Begin(r) \/ DeleteComment(r) \/ Fail(r) \/ Tell(r)
  PROVE  PageInv'
<1>1. walk' = walk
  BY AcceptKeeps, AcceptCommentKeeps
     DEF ToggleLike, ToggleCommentLike, AcceptToggle, Look, Flip, CreateComment, Begin,
         DeleteComment, Accept, Fail, Tell
<1>2. Children(walk.of)' = Children(walk.of)
  <2>1. CASE UNCHANGED comments
    BY <1>1, <2>1 DEF Children, Live
  <2>2. CASE Begin(r)
    <3>1. PICK c \in Ids : /\ comments[c].state = "none"
                           /\ comments' = [comments EXCEPT ![c] = Inserted(r)]
      BY <2>2 DEF Begin
    <3>2. \A d \in Ids : \/ comments'[d] = comments[d]
                         \/ comments[d].state # "live" /\ comments'[d].state # "live"
      BY <3>1 DEF PageInv, PlacesInv, Inserted
    <3>3. QED
      BY <1>1, <3>2 DEF Children, Live
  <2>3. CASE Fail(r) /\ At(r, "open")
    <3>1. req[r].thing \in Ids /\ comments[req[r].thing].state = "open"
      BY <2>3 DEF PageInv, PlacesInv, Placed, At
    <3>2. comments' = [comments EXCEPT ![req[r].thing].state = "undone"]
      BY <2>3 DEF Fail
    <3>3. \A d \in Ids : \/ comments'[d] = comments[d]
                         \/ comments[d].state # "live" /\ comments'[d].state # "live"
      BY <3>1, <3>2 DEF PageInv, PlacesInv
    <3>4. QED
      BY <1>1, <3>3 DEF Children, Live
  <2>4. QED
    BY <2>1, <2>2, <2>3
       DEF ToggleLike, ToggleCommentLike, AcceptToggle, Look, Flip, CreateComment,
           DeleteComment, Accept, Fail, Tell, rows
<1>3. QED
  BY <1>1, <1>2, SamePages

LEMMA NextPages ==
  ASSUME MaxComments \in Nat, Limit \in Nat, PageInv, [Next]_vars
  PROVE  PageInv'
<1>1. PlacesInv' /\ CommentsStay
  BY NextPlaces, NextComments DEF PageInv
<1>2. CASE Edit \/ UNCHANGED vars
  <2>1. walk' = walk /\ comments' = comments
    BY <1>2 DEF Edit, vars, rows
  <2>2. Children(walk.of)' = Children(walk.of)
    BY <2>1 DEF Children, Live
  <2>3. QED
    BY <1>1, <2>1, <2>2, SamePages
<1>3. QED
  BY <1>1, <1>2, StartWalkKeeps, ReadPageKeeps, ReadTotalKeeps, ReadRefusedKeeps,
     CommitPages, SoftDeletePages, OtherPages DEF Next

(* Paging by offset repeats no comment unless one came late among those    *)
(* shown, and skips none that was there all along unless one was deleted   *)
(* (GetComments and GetReplies, CreateComment, DeleteComment): whatever    *)
(* the page size, however many comments and requests.                      *)
THEOREM PagesShowAllOnce ==
  ASSUME MaxComments \in Nat, Limit \in Nat
  PROVE  Spec => []ListedOnce
<1>1. PageInv /\ [Next]_vars => PageInv'
  BY NextPages
<1>2. PageInv => ListedOnce
  <2> SUFFICES ASSUME PageInv PROVE ListedOnce
    OBVIOUS
  <2>1. (walk.pc = "done" /\ ~walk.shrunk) => walk.from \cap Live \subseteq Shown
    BY DEF PageInv, Passed
  <2>2. ASSUME ~walk.grew PROVE IsInjective(walk.shown)
    <3>1. SUFFICES ASSUME NEW i \in DOMAIN walk.shown, NEW j \in DOMAIN walk.shown, i # j
                   PROVE  walk.shown[i] # walk.shown[j]
      BY DEF IsInjective
    <3>2. walk.shown \in Seq(Ids)
      BY DEF PageInv, WalkTyped
    <3>3. i \in Nat /\ j \in Nat /\ walk.shown[i] \in Nat /\ walk.shown[j] \in Nat
      BY <3>2 DEF Ids
    <3>4. i < j \/ j < i
      BY <3>1, <3>3
    <3>5. walk.shown[i] < walk.shown[j] \/ walk.shown[j] < walk.shown[i]
      BY <2>2, <3>4 DEF PageInv, Climbs
    <3>6. QED
      BY <3>3, <3>5
  <2>3. QED
    BY <2>1, <2>2 DEF ListedOnce, Shown
<1>3. QED
  BY <1>1, <1>2, InitPages, PTL DEF Spec
=============================================================================
