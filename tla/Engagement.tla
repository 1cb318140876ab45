------------------------------ MODULE Engagement ------------------------------
(***************************************************************************)
(* What people do to one post: likes of the post and of its comments, the  *)
(* comments and replies themselves, the counters that triggers keep beside *)
(* them, the notifications the services send after they committed, and a   *)
(* reader who pages through the comments while all this goes on.           *)
(*                                                                         *)
(* Thing 0 is the post, the others are its comments, numbered in the order *)
(* of created_at, which is when the transaction of a comment began.        *)
(* Look-ups that only guard a request (the comment, the post, the follow   *)
(* edge) are read in one step; they may be stale when the request writes.  *)
(***************************************************************************)
EXTENDS Naturals, SequencesExt

CONSTANTS
  Author,       \* the author of the post
  Users,        \* everybody who calls, the author included
  Requests,     \* request goroutines
  MaxComments,  \* bound: comments begun
  MaxRequests,  \* bound: requests that comment or delete
  MaxEdits,     \* bound: changes of the post and of who follows its author
  MaxMentions,  \* bound: users mentioned in a comment
  MaxToggles,   \* bound: requests that toggle a like
  Walks,        \* how many readers page through the comments: 0 or 1
  Limit         \* page size of the reader

VARIABLES
  post,         \* the row of the post: is it there, who may see it
  following,    \* who follows the author
  comments,     \* rows of post.comments
  likes,        \* rows of post.likes and post.comment_likes
  likeCount,    \* like_count of the post and of each comment
  commentCount, \* comment_count of the post
  mentions,     \* rows of post.comment_mentions
  notes,        \* notification rows: actor, recipient, group key
  req,          \* where each request is
  budget,       \* requests and edits left
  blurred,      \* likes whose notification was not recorded or raced another (history)
  walk          \* the reader and what it has been shown

vars == <<post, following, comments, likes, likeCount, commentCount, mentions,
          notes, req, budget, blurred, walk>>
rows == <<comments, likes, likeCount, commentCount>>
told == <<mentions, notes, blurred>>

Post == 0
Ids == 1..MaxComments
Things == {Post} \cup Ids

NoComment == [state |-> "none", by |-> Author, parent |-> Post]
Live == {c \in Ids : comments[c].state = "live"}
Children(t) == {c \in Live : comments[c].parent = t}
Owner(t) == IF t = Post THEN Author ELSE comments[t].by

Idle == [pc |-> "idle", user |-> Author, thing |-> Post, liked |-> FALSE,
         mentioned |-> {}, todo |-> <<>>]
At(r, pc) == req[r].pc = pc
Pair(r) == <<req[r].user, req[r].thing>>

NoWalk == [pc |-> "off", of |-> Post, offset |-> 0, from |-> {}, shown |-> <<>>,
           shrunk |-> FALSE, grew |-> FALSE]

TypeOK ==
  /\ post \in [live : BOOLEAN, visibility : {"public", "followers", "private"}]
  /\ following \subseteq Users
  /\ comments \in [Ids -> [state : {"none", "open", "live", "deleted", "undone"},
                           by : Users, parent : Things]]
  /\ likes \subseteq Users \X Things
  /\ likeCount \in [Things -> Nat]
  /\ commentCount \in Nat
  /\ mentions \subseteq Ids \X Users
  /\ \A n \in notes : n.actor \in Users /\ n.to \in Users \ {n.actor}
  /\ \A r \in Requests :
       req[r].pc \in {"idle", "like", "looked", "create", "open", "delete", "telling"}
  /\ blurred \subseteq Users \X Things
  /\ walk.of \in Things /\ walk.from \subseteq Ids /\ walk.shown \in Seq(Ids)

Init ==
  /\ post = [live |-> TRUE, visibility |-> "public"]
  /\ following = {}
  /\ comments = [c \in Ids |-> NoComment]
  /\ likes = {}
  /\ likeCount = [t \in Things |-> 0]
  /\ commentCount = 0
  /\ mentions = {}
  /\ notes = {}
  /\ req = [r \in Requests |-> Idle]
  /\ budget = [requests |-> MaxRequests, toggles |-> MaxToggles, edits |-> MaxEdits]
  /\ blurred = {}
  /\ walk = NoWalk

-----------------------------------------------------------------------------
(* The post as these services see it.                                      *)

\* requirePostVisibility
Visible(u) ==
  \/ u = Author
  \/ post.visibility = "public"
  \/ post.visibility = "followers" /\ u \in following

\* getVisiblePost
VisiblePost(u) == post.live /\ Visible(u)

\* The author edits or deletes the post; somebody follows or unfollows.
Edit ==
  /\ budget.edits > 0
  /\ budget' = [budget EXCEPT !.edits = @ - 1]
  /\ \/ /\ post.live
        /\ \/ \E v \in {"public", "followers", "private"} \ {post.visibility} :
                post' = [post EXCEPT !.visibility = v]
           \/ post' = [post EXCEPT !.live = FALSE]
        /\ UNCHANGED following
     \/ /\ \E u \in Users \ {Author} :
             following' = IF u \in following THEN following \ {u} ELSE following \cup {u}
        /\ UNCHANGED post
  /\ UNCHANGED <<rows, told, req, walk>>

-----------------------------------------------------------------------------
(* The triggers.                                                           *)

\* Mutant: update_comment_count does not ask whether the row was deleted before.
CommentCountUnguarded(old, new) ==
  IF old = "none" THEN commentCount + 1
  ELSE IF new = "deleted" /\ commentCount > 0 THEN commentCount - 1
  ELSE commentCount

\* update_comment_count, after a comment changed from old to new.
CommentCount(old, new) ==
  IF old = "none" THEN commentCount + 1
  ELSE IF old = "live" /\ new = "deleted" /\ commentCount > 0 THEN commentCount - 1
  ELSE commentCount

\* update_like_count and update_comment_like_count fire once per row that was
\* really inserted or deleted.
LikeCount(pair, after) ==
  LET t == pair[2] IN
  IF pair \in after \ likes THEN [likeCount EXCEPT ![t] = @ + 1]
  ELSE IF pair \in likes \ after /\ likeCount[t] > 0 THEN [likeCount EXCEPT ![t] = @ - 1]
  ELSE likeCount

\* The like count of a comment is a column of its row, so counting a like
\* updates the row and fires the trigger on comments as well.
Relike(pair, after) ==
  /\ likes' = after
  /\ likeCount' = LikeCount(pair, after)
  /\ commentCount' =
       IF pair[2] \in Ids /\ after # likes
       THEN LET s == comments[pair[2]].state IN CommentCount(s, s)
       ELSE commentCount

-----------------------------------------------------------------------------
(* Toggling a like.                                                        *)

AcceptToggle(r, u, t) ==
  /\ At(r, "idle")
  /\ budget.toggles > 0
  /\ budget' = [budget EXCEPT !.toggles = @ - 1]
  /\ req' = [req EXCEPT ![r] = [Idle EXCEPT !.pc = "like", !.user = u, !.thing = t]]
  /\ UNCHANGED <<rows, told, post, following, walk>>

\* LikeService.Toggle up to the repository
ToggleLike(r) == \E u \in Users \ {Author} : VisiblePost(u) /\ AcceptToggle(r, u, Post)

\* CommentLikeService.Toggle up to the repository
ToggleCommentLike(r) ==
  \E c \in Live : \E u \in Users \ {comments[c].by} :
    VisiblePost(u) /\ AcceptToggle(r, u, c)

\* LockPostLike, LockCommentLike: an advisory lock, held until the commit.
Unlocked(pair) == \A q \in Requests : At(q, "looked") => Pair(q) # pair

\* IsLiked, IsCommentLiked
IsLiked(pair) == pair \in likes

\* LikePost, LikeComment: ON CONFLICT DO NOTHING.
LikePost(pair) == likes \cup {pair}

\* UnlikePost, UnlikeComment
UnlikePost(pair) == likes \ {pair}

\* Mutant: the transaction takes no lock.
LookUnlocked(r) ==
  /\ At(r, "like")
  /\ req' = [req EXCEPT ![r].pc = "looked", ![r].liked = IsLiked(Pair(r))]
  /\ UNCHANGED <<rows, told, post, following, budget, walk>>

\* Toggle of the repository up to the answer of IsLiked.
Look(r) ==
  /\ At(r, "like")
  /\ Unlocked(Pair(r))
  /\ req' = [req EXCEPT ![r].pc = "looked", ![r].liked = IsLiked(Pair(r))]
  /\ UNCHANGED <<rows, told, post, following, budget, walk>>

LikeKey(t) == <<IF t = Post THEN "like" ELSE "comment_like", t>>
ToEmit(key, u) == [do |-> "emit", key |-> key, to |-> u]
ToDelete(key) == [do |-> "delete", key |-> key, to |-> Author]

\* Mutant: one group key for both kinds of like when they are taken back.
AfterToggleOneKey(r) ==
  IF req[r].liked THEN <<ToDelete(<<"like", req[r].thing>>)>>
  ELSE <<ToEmit(LikeKey(req[r].thing), Owner(req[r].thing))>>

\* What the services do once the transaction committed.
AfterToggle(r) ==
  IF req[r].liked THEN <<ToDelete(LikeKey(req[r].thing))>>
  ELSE <<ToEmit(LikeKey(req[r].thing), Owner(req[r].thing))>>

\* Another request has toggled the pair and not yet told anybody.
Crossing(r) == \E q \in Requests \ {r} : At(q, "telling") /\ Pair(q) = Pair(r)

\* The rest of it, and the commit that releases the lock.
Flip(r) ==
  /\ At(r, "looked")
  /\ Relike(Pair(r), IF req[r].liked THEN UnlikePost(Pair(r)) ELSE LikePost(Pair(r)))
  /\ req' = [req EXCEPT ![r].pc = "telling", ![r].todo = AfterToggle(r)]
  /\ blurred' = IF Crossing(r) THEN blurred \cup {Pair(r)} ELSE blurred \ {Pair(r)}
  /\ UNCHANGED <<comments, mentions, notes, post, following, budget, walk>>

-----------------------------------------------------------------------------
(* Comments.                                                               *)

Accept(r, next) ==
  /\ At(r, "idle")
  /\ budget.requests > 0
  /\ budget' = [budget EXCEPT !.requests = @ - 1]
  /\ req' = [req EXCEPT ![r] = next]
  /\ UNCHANGED <<rows, told, post, following, walk>>

\* CreateComment up to its transaction: the post, and the parent of a reply.
CreateComment(r) ==
  \E u \in Users, parent \in {Post} \cup Live, ms \in SUBSET Users :
    /\ VisiblePost(u)
    /\ Cardinality(ms) <= MaxMentions
    /\ Accept(r, [Idle EXCEPT !.pc = "create", !.user = u, !.thing = parent, !.mentioned = ms])

\* The row CreateComment writes.
Inserted(r) == [state |-> "open", by |-> req[r].user, parent |-> req[r].thing]

\* pool.Begin and the insertion; created_at is the time of the former.
Begin(r) ==
  \E c \in Ids :
    /\ At(r, "create")
    /\ comments[c].state = "none"
    /\ \A d \in Ids : comments[d].state = "none" => c <= d
    /\ comments' = [comments EXCEPT ![c] = Inserted(r)]
    /\ req' = [req EXCEPT ![r].pc = "open", ![r].thing = c]
    /\ UNCHANGED <<likes, likeCount, commentCount, told, post, following, budget, walk>>

\* The mentions, then the parent's author or the post's.
AfterCreate(r) ==
  LET c == req[r].thing
      parent == comments[c].parent
      about == <<IF parent = Post THEN "comment" ELSE "reply", parent>>
  IN [i \in 1..Cardinality(req[r].mentioned) |->
        [do |-> "mention", key |-> <<"mention", c>>,
         to |-> SetToSeq(req[r].mentioned)[i]]]
     \o <<ToEmit(about, Owner(parent))>>

\* The comment and its media, the trigger, and the commit.
CommitComment(r) ==
  LET c == req[r].thing IN
  /\ At(r, "open")
  /\ comments' = [comments EXCEPT ![c].state = "live"]
  /\ commentCount' = CommentCount("none", "live")
  /\ req' = [req EXCEPT ![r].pc = "telling", ![r].todo = AfterCreate(r)]
  /\ walk' = [walk EXCEPT !.grew =
       @ \/ (comments[c].parent = walk.of /\ walk.shown # <<>> /\ c < Last(walk.shown))]
  /\ UNCHANGED <<likes, likeCount, told, post, following, budget>>

\* DeleteComment: the comment is there and is the caller's.
DeleteComment(r) ==
  \E c \in Live :
    Accept(r, [Idle EXCEPT !.pc = "delete", !.user = comments[c].by, !.thing = c])

\* The statement: it meets the row only where deleted_at is null.
SoftDelete(r) ==
  LET c == req[r].thing IN
  /\ At(r, "delete")
  /\ comments' = [comments EXCEPT ![c].state = "deleted"]
  /\ commentCount' = CommentCount(comments[c].state, "deleted")
  /\ req' = [req EXCEPT ![r] = Idle]
  /\ walk' = [walk EXCEPT !.shrunk = @ \/ (c \in Children(walk.of) /\ walk.pc # "off")]
  /\ UNCHANGED <<likes, likeCount, told, post, following, budget>>

\* A statement fails before the commit: the transaction is rolled back.
Fail(r) ==
  /\ req[r].pc \in {"like", "looked", "create", "open", "delete"}
  /\ comments' = IF At(r, "open") THEN [comments EXCEPT ![req[r].thing].state = "undone"]
                                  ELSE comments
  /\ req' = [req EXCEPT ![r] = Idle]
  /\ UNCHANGED <<likes, likeCount, commentCount, told, post, following, budget, walk>>

-----------------------------------------------------------------------------
(* Notifications, sent after the commit; an error is logged.               *)

\* NotificationService.emit: an upsert, and never to oneself.
Emitted(op, by) ==
  IF op.to = by THEN notes ELSE notes \cup {[actor |-> by, to |-> op.to, key |-> op.key]}

\* DeleteByActorAndGroupKey
Removed(op, by) == {n \in notes : ~(n.actor = by /\ n.key = op.key)}

\* A mention that cannot be stored is not announced either.
Mentioned(op, by) ==
  /\ mentions' = mentions \cup {<<op.key[2], op.to>>}
  /\ notes' \in {notes, Emitted(op, by)}

Tell(r) ==
  LET op == Head(req[r].todo)
      by == req[r].user
  IN
  /\ At(r, "telling")
  /\ req' = [req EXCEPT ![r] =
               IF Len(@.todo) > 1 THEN [@ EXCEPT !.todo = Tail(req[r].todo)] ELSE Idle]
  /\ \/ /\ op.do = "emit"
        /\ notes' = Emitted(op, by)
        /\ UNCHANGED <<mentions, blurred>>
     \/ /\ op.do = "delete"
        /\ notes' = Removed(op, by)
        /\ UNCHANGED <<mentions, blurred>>
     \/ op.do = "mention" /\ Mentioned(op, by) /\ UNCHANGED blurred
     \/ /\ op.do = "mention" => <<op.key[2], op.to>> \notin mentions
        /\ blurred' = IF op.do = "mention" THEN blurred ELSE blurred \cup {Pair(r)}
        /\ UNCHANGED <<mentions, notes>>
  /\ UNCHANGED <<rows, post, following, budget, walk>>

-----------------------------------------------------------------------------
(* Reading.                                                                *)

\* requirePostVisibility for a reader who did not sign in, or follows nobody;
\* the replies of a comment are served while the comment is there.
Readable(t) ==
  /\ post.live /\ post.visibility = "public"
  /\ t \in Live \cup {Post}

\* ORDER BY created_at ASC: the i-th row has i rows that are not after it.
InOrder(S) ==
  [i \in 1..Cardinality(S) |-> CHOOSE c \in S : Cardinality({d \in S : d <= c}) = i]

\* Mutant: newest first.
CommentsNewestFirst == Reverse(InOrder(Children(Post)))

\* GetCommentsByPost
CommentsByPost == InOrder(Children(Post))

\* GetReplies
Replies(c) == InOrder(Children(c))

Listed(t) == IF t = Post THEN CommentsByPost ELSE Replies(t)

\* CountCommentsByPost
CountByPost == Cardinality(Children(Post))

\* GetReplyCountsBatch: the direct replies.
ReplyCount(c) == Cardinality(Children(c))

Total(t) == IF t = Post THEN CountByPost ELSE ReplyCount(t)

StartWalk ==
  /\ Walks > 0 /\ walk.pc = "off"
  /\ \E t \in Live \cup {Post} :
       walk' = [NoWalk EXCEPT !.pc = "page", !.of = t, !.from = Children(t)]
  /\ UNCHANGED <<rows, told, post, following, req, budget>>

\* GetComments or GetReplies up to the page.
ReadPage ==
  /\ walk.pc = "page" /\ Readable(walk.of)
  /\ walk' = [walk EXCEPT !.pc = "total", !.offset = @ + Limit,
       !.shown = @ \o SubSeq(Listed(walk.of), walk.offset + 1,
                             Min({walk.offset + Limit, Total(walk.of)}))]
  /\ UNCHANGED <<rows, told, post, following, req, budget>>

\* The rest of them: the total; the reader goes on while pages are left.
ReadTotal ==
  /\ walk.pc = "total"
  /\ walk' = [walk EXCEPT !.pc = IF walk.offset < Total(walk.of) THEN "page" ELSE "done"]
  /\ UNCHANGED <<rows, told, post, following, req, budget>>

\* The post or the comment is gone or hidden between two pages.
ReadRefused ==
  /\ walk.pc = "page" /\ ~Readable(walk.of)
  /\ walk' = [walk EXCEPT !.pc = "refused"]
  /\ UNCHANGED <<rows, told, post, following, req, budget>>

-----------------------------------------------------------------------------
Next ==
  \/ \E r \in Requests :
       \/ ToggleLike(r) \/ ToggleCommentLike(r) \/ Look(r) \/ Flip(r)
       \/ CreateComment(r) \/ Begin(r) \/ CommitComment(r)
       \/ DeleteComment(r) \/ SoftDelete(r)
       \/ Fail(r) \/ Tell(r)
  \/ Edit
  \/ StartWalk \/ ReadPage \/ ReadTotal \/ ReadRefused

Spec == Init /\ [][Next]_vars

-----------------------------------------------------------------------------
(* The counters the triggers keep equal the rows they count, whatever      *)
(* toggles, comments and deletions are under way: a like that lands on a   *)
(* comment deleted meanwhile touches the comment's row and must not count  *)
(* the deletion again.                                                     *)
CountsExact ==
  /\ commentCount = Cardinality(Live)
  /\ \A t \in Things : likeCount[t] = Cardinality({u \in Users : <<u, t>> \in likes})

(* No toggle is lost: each one that commits turns the like it found, so    *)
(* what it answers is the state it committed, however many requests toggle *)
(* the same like at once.                                                  *)
EveryToggleFlips ==
  [][\A r \in Requests : (At(r, "looked") /\ req'[r].pc = "telling") =>
       /\ (Pair(r) \in likes') # (Pair(r) \in likes)
       /\ (Pair(r) \in likes') # req[r].liked]_vars

Telling(pair) == \E r \in Requests : At(r, "telling") /\ Pair(r) = pair

(* A like is announced to its owner exactly while it is there.  It takes a *)
(* notification call that failed, or a second toggle that committed before *)
(* the first had told, to part them, and the next undisturbed toggle joins *)
(* them again.                                                             *)
LikeNotesTrue ==
  \A t \in Things : \A u \in Users \ {Owner(t)} :
    (<<u, t>> \notin blurred /\ ~Telling(<<u, t>>)) =>
      ([actor |-> u, to |-> Owner(t), key |-> LikeKey(t)] \in notes)
        = (<<u, t>> \in likes)

(* Paging by offset shows a reader every comment, or every reply, that was *)
(* there all along, unless one was deleted under way; and none twice, unless a comment      *)
(* committed late and took its place among those already shown.            *)
ListedOnce ==
  /\ (walk.pc = "done" /\ ~walk.shrunk) =>
       walk.from \cap Live \subseteq {walk.shown[i] : i \in DOMAIN walk.shown}
  /\ ~walk.grew => IsInjective(walk.shown)
=============================================================================
