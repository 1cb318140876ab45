----------------------------- MODULE Attachments -----------------------------
(***************************************************************************)
(* What hangs on a post or a comment in tables of its own: media, tags and *)
(* mentions.  An author's request writes them statement by statement, a    *)
(* post's in one transaction that holds the row of the post and the rows   *)
(* of the tags it uses until it ends; the mentions of a comment are        *)
(* written one by one after its commit.  A reader gets the rows of a page  *)
(* and then each of these for the whole page, one statement after another. *)
(***************************************************************************)
EXTENDS Naturals, FiniteSetsExt

CONSTANTS
  Posts,
  Comments,      \* ids, numbered in the order of created_at
  Contents,      \* what a request may ask for: media, tags and mentions
  Requests,      \* request goroutines of the authors
  NoThing,
  PreviewLimit,  \* replies shown beneath a comment (2 in the code)
  MaxChanges,    \* bound: requests that change something
  MaxFaults      \* bound: statements of the reader that fail

VARIABLES
  rows,      \* the committed rows: state, parent, and what hangs on them
  asked,     \* what the last change that took effect asked for (history)
  req,       \* where each request is, and what its transaction did
  view,      \* the reader and the page it has filled so far
  changes

vars == <<rows, asked, req, view, changes>>

Things == Posts \cup Comments
Nothing == [media |-> {}, tags |-> {}, mentions |-> {}]
NoRow == [state |-> "none", parent |-> NoThing, parts |-> Nothing]
Blank == [parts |-> Nothing, replies |-> {}, count |-> 0]
Idle == [pc |-> "idle", update |-> FALSE, thing |-> NoThing, parent |-> NoThing,
         want |-> Nothing, done |-> Nothing, cut |-> Nothing]
NoView == [pc |-> "off", page |-> {}, ids |-> {}, shown |-> [x \in Things |-> Blank],
           failed |-> {}, faults |-> 0,
           changed |-> {}]

Init ==
  /\ rows = [x \in Things |-> NoRow]
  /\ asked = [x \in Things |-> Nothing]
  /\ req = [r \in Requests |-> Idle]
  /\ view = NoView
  /\ changes = 0

At(r, pc) == req[r].pc = pc
Live(x) == rows[x].state = "live"
RepliesOf(c) == {d \in Comments : Live(d) /\ rows[d].parent = c}

\* The request goes on.
Goto(r, pc) == req' = [req EXCEPT ![r].pc = pc] /\ UNCHANGED <<rows, asked, view, changes>>

\* A page that is being filled may show x, and what counts it, in parts.
Changed(x) ==
  view' = IF view.pc = "off" THEN view
          ELSE [view EXCEPT !.changed = @ \cup {x, rows'[x].parent}]

Accept(r, next) ==
  /\ At(r, "idle") /\ changes < MaxChanges
  /\ changes' = changes + 1
  /\ req' = [req EXCEPT ![r] = next]
  /\ UNCHANGED <<rows, asked, view>>

-----------------------------------------------------------------------------
(* The transaction of a post.                                              *)

\* CreatePost, the row: nobody else knows its id.
CreatePost(r) ==
  \E p \in Posts, want \in Contents :
    /\ rows[p].state = "none" /\ \A q \in Requests : req[q].thing # p
    /\ Accept(r, [Idle EXCEPT !.pc = "media", !.thing = p, !.want = want])

\* UpdatePost up to its transaction; it cannot change the media.
UpdatePost(r) ==
  \E p \in Posts, want \in Contents :
    Live(p) /\ Accept(r, [Idle EXCEPT !.pc = "update", !.update = TRUE, !.thing = p,
                                      !.want = [want EXCEPT !.media = {}]])

\* Another transaction has written the row and not ended.
RowHeld(r) ==
  \E q \in Requests \ {r} :
    req[q].thing = req[r].thing /\ req[q].pc \in {"untag", "tags", "unmention", "mentions"}

\* The row of UpdatePost comes first, and is held to the end.
UpdateRow(r) == At(r, "update") /\ Live(req[r].thing) /\ ~RowHeld(r) /\ Goto(r, "untag")

Done(r, f) == req[r].done[f] = req[r].want[f]

\* One row of what is asked for.
Add(r, f) ==
  /\ \E k \in req[r].want[f] \ req[r].done[f] : req' = [req EXCEPT ![r].done[f] = @ \cup {k}]
  /\ UNCHANGED <<rows, asked, view, changes>>

AddPostMedia(r) == At(r, "media") /\ Add(r, "media")
MediaAdded(r) == At(r, "media") /\ Done(r, "media") /\ Goto(r, "tags")

\* DeletePostHashtags: of the rows that are committed by now.
DeletePostHashtags(r) ==
  /\ At(r, "untag")
  /\ req' = [req EXCEPT ![r].pc = "tags", ![r].cut.tags = rows[req[r].thing].parts.tags]
  /\ UNCHANGED <<rows, asked, view, changes>>

\* UpsertHashtagsBatch takes the rows of the tags in the order of the request,
\* waiting for other transactions; a cycle of them ends with a victim (Fail).
UpsertHashtag(r) ==
  /\ At(r, "tags")
  /\ Add(r, "tags")
  /\ \A q \in Requests \ {r} : req[q].done.tags \cap req'[r].done.tags = {}

\* LinkPostHashtagsBatch
LinkPostHashtags(r) ==
  /\ At(r, "tags") /\ Done(r, "tags")
  /\ Goto(r, IF req[r].update THEN "unmention" ELSE "mentions")

\* Mutant: the mentions of before stay.
KeepMentions(r) == At(r, "unmention") /\ Goto(r, "mentions")

\* DeleteMentionsByPost
DeleteMentionsByPost(r) ==
  /\ At(r, "unmention")
  /\ req' = [req EXCEPT ![r].pc = "mentions",
                        ![r].cut.mentions = rows[req[r].thing].parts.mentions]
  /\ UNCHANGED <<rows, asked, view, changes>>

\* persistMentions
InsertMention(r) == At(r, "mentions") /\ Add(r, "mentions")

\* What the transaction leaves: what others committed meanwhile, too.
Kept(r, f) == (rows[req[r].thing].parts[f] \ req[r].cut[f]) \cup req[r].done[f]

CommitPost(r) ==
  LET p == req[r].thing IN
  /\ At(r, "mentions") /\ Done(r, "mentions")
  /\ rows' = [rows EXCEPT ![p].state = IF req[r].update THEN @ ELSE "live",
                          ![p].parts = [f \in DOMAIN @ |-> Kept(r, f)]]
  /\ asked' = [asked EXCEPT ![p] = [req[r].want EXCEPT
       !.media = IF req[r].update THEN asked[p].media ELSE @]]
  /\ Changed(p)
  /\ req' = [req EXCEPT ![r] = Idle]
  /\ UNCHANGED changes

\* DeletePost; a deleted row keeps what hangs on it.
DeletePost(r) ==
  \E p \in Posts : Live(p) /\ Accept(r, [Idle EXCEPT !.pc = "delete", !.thing = p])

\* DeletePost and DeleteComment of the repositories.
SoftDelete(r) ==
  LET x == req[r].thing IN
  /\ At(r, "delete") /\ ~RowHeld(r)
  /\ rows' = [rows EXCEPT ![x].state = "deleted"]
  /\ Changed(x)
  /\ req' = [req EXCEPT ![r] = Idle]
  /\ UNCHANGED <<asked, changes>>

\* The update meets no row any more, or a statement fails: the transaction is
\* rolled back.  A comment that is committed goes without what is not.
Fail(r) ==
  /\ ~At(r, "idle")
  /\ asked' = IF At(r, "told")
              THEN [asked EXCEPT ![req[r].thing] = rows[req[r].thing].parts] ELSE asked
  /\ req' = [req EXCEPT ![r] = Idle]
  /\ UNCHANGED <<rows, view, changes>>

-----------------------------------------------------------------------------
(* Comments.                                                               *)

\* CreateComment, the row.  Replies have no replies here.
CreateComment(r) ==
  \E c \in Comments, want \in Contents :
    \E parent \in {NoThing} \cup {d \in Comments : Live(d) /\ rows[d].parent = NoThing} :
      /\ \A d \in Comments : d < c => rows[d].state # "none" \/ \E q \in Requests : req[q].thing = d
      /\ rows[c].state = "none" /\ \A q \in Requests : req[q].thing # c
      /\ Accept(r, [Idle EXCEPT !.pc = "attach", !.thing = c, !.parent = parent,
                                !.want = [want EXCEPT !.tags = {}]])

AddCommentMedia(r) == At(r, "attach") /\ Add(r, "media")

CommitComment(r) ==
  LET c == req[r].thing IN
  /\ At(r, "attach") /\ Done(r, "media")
  /\ rows' = [rows EXCEPT ![c] = [state |-> "live", parent |-> req[r].parent,
                                  parts |-> [Nothing EXCEPT !.media = req[r].done.media]]]
  /\ asked' = [asked EXCEPT ![c] = req[r].want]
  /\ Changed(c)
  /\ req' = [req EXCEPT ![r].pc = "told"]
  /\ UNCHANGED changes

\* InsertCommentMention, or the error is logged.
InsertCommentMention(r) ==
  LET c == req[r].thing IN
  /\ At(r, "told")
  /\ \E u \in req[r].want.mentions \ req[r].done.mentions :
       /\ req' = [req EXCEPT ![r].done.mentions = @ \cup {u}]
       /\ \/ rows' = [rows EXCEPT ![c].parts.mentions = @ \cup {u}] /\ UNCHANGED asked
          \/ asked' = [asked EXCEPT ![c].mentions = @ \ {u}] /\ UNCHANGED rows
  /\ Changed(c)
  /\ UNCHANGED changes

CommentDone(r) ==
  At(r, "told") /\ Done(r, "mentions")
  /\ req' = [req EXCEPT ![r] = Idle] /\ UNCHANGED <<rows, asked, view, changes>>

DeleteComment(r) ==
  \E c \in Comments : Live(c) /\ Accept(r, [Idle EXCEPT !.pc = "delete", !.thing = c])

-----------------------------------------------------------------------------
(* The reader.                                                             *)

Show(pc, ids, page, shown) ==
  /\ view' = [view EXCEPT !.pc = pc, !.ids = ids, !.page = page, !.shown = shown]
  /\ UNCHANGED <<rows, asked, req, changes>>

\* The statement for a field of the rows in hand fails; the error is logged.
Miss(pc, ids, field) ==
  /\ view.faults < MaxFaults
  /\ view' = [view EXCEPT !.pc = pc, !.ids = ids, !.faults = @ + 1,
                          !.failed = @ \cup {<<x, field>> : x \in view.ids}]
  /\ UNCHANGED <<rows, asked, req, changes>>

\* The rows in hand with what a statement found for them.
With(field, found) ==
  [x \in Things |-> IF x \in view.ids THEN [view.shown[x] EXCEPT ![field] = found[x]]
                   ELSE view.shown[x]]

\* One statement for the rows in hand, and what it finds for each.
Fill(pc, next, field, found) ==
  /\ view.pc = pc
  /\ \/ Show(next, view.ids, view.page,
             With("parts", [x \in Things |->
                              [view.shown[x].parts EXCEPT ![field] = found[x]]]))
     \/ Miss(next, view.ids, field)

\* GetByPostsBatch, GetHashtagsByPostIDs, GetMentionsBatch, and of comments.
MediaOf == [x \in Things |-> rows[x].parts.media]
TagsOf == [x \in Things |-> rows[x].parts.tags]
MentionsOf == [x \in Things |-> rows[x].parts.mentions]

\* Any list of posts.
OpenPosts ==
  LET page == {p \in Posts : Live(p)} IN
  view.pc = "off" /\ page # {} /\ Show("media", page, page, view.shown)

\* The fields of Hydrate.
GetMedia == Fill("media", "tags", "media", MediaOf)

\* Mutant: the rows of the page are not told apart.
GetTagsOfAll ==
  Fill("tags", "mentions", "tags", [x \in Things |-> UNION {TagsOf[p] : p \in view.ids}])

GetTags == Fill("tags", "mentions", "tags", TagsOf)
GetMentions == Fill("mentions", "done", "mentions", MentionsOf)

\* The rows of GetComments or GetReplies.
OpenComments ==
  \E parent \in {NoThing} \cup Comments :
    LET page == {c \in Comments : Live(c) /\ rows[c].parent = parent} IN
    view.pc = "off" /\ page # {} /\ Show("enrich", page, page, view.shown)

EnrichMedia == Fill("enrich", "enrichMentions", "media", MediaOf)

\* Only comments of the post itself are given previews, and those nothing
\* beyond: GetReplies goes on with the counts.
AfterMentions ==
  IF view.ids = view.page /\ \A c \in view.ids : rows[c].parent = NoThing THEN "previews"
  ELSE "counts"

EnrichCommentMentions == Fill("enrichMentions", AfterMentions, "mentions", MentionsOf)

Preview(c) == {d \in RepliesOf(c) : Cardinality({e \in RepliesOf(c) : e < d}) < PreviewLimit}

\* attachReplyPreviews; the replies are filled in the same way.
GetRepliesPreview ==
  LET found == UNION {Preview(c) : c \in view.page} IN
  /\ view.pc = "previews"
  /\ \/ Show(IF found = {} THEN "counts" ELSE "enrich",
             IF found = {} THEN view.page ELSE found, view.page,
             With("replies", [c \in Comments |-> Preview(c)]))
     \/ Miss("counts", view.page, "replies")

\* attachReplyCounts: of the previews, then of the page.
GetReplyCounts ==
  LET next == IF view.ids = view.page THEN "done" ELSE "counts" IN
  /\ view.pc = "counts"
  /\ \/ Show(next, view.page, view.page,
             With("count", [c \in Comments |-> Cardinality(RepliesOf(c))]))
     \/ Miss(next, view.page, "count")

-----------------------------------------------------------------------------
Next ==
  \/ \E r \in Requests :
       \/ CreatePost(r) \/ UpdatePost(r) \/ UpdateRow(r) \/ AddPostMedia(r) \/ MediaAdded(r)
       \/ DeletePostHashtags(r) \/ UpsertHashtag(r) \/ LinkPostHashtags(r)
       \/ DeleteMentionsByPost(r) \/ InsertMention(r) \/ CommitPost(r)
       \/ DeletePost(r) \/ SoftDelete(r) \/ Fail(r)
       \/ CreateComment(r) \/ AddCommentMedia(r) \/ CommitComment(r)
       \/ InsertCommentMention(r) \/ CommentDone(r) \/ DeleteComment(r)
  \/ OpenPosts \/ GetMedia \/ GetTags \/ GetMentions
  \/ OpenComments \/ EnrichMedia \/ EnrichCommentMentions
  \/ GetRepliesPreview \/ GetReplyCounts

Spec == Init /\ [][Next]_vars

-----------------------------------------------------------------------------
Telling(x) == \E r \in Requests : At(r, "told") /\ req[r].thing = x

Shown == view.page \cup UNION {view.shown[x].replies : x \in view.page}

Unless(field, x, value, blank) == IF <<x, field>> \in view.failed THEN blank ELSE value

(* What hangs on a post is what the change that committed last asked for,  *)
(* of all tags and mentions and never a mixture of two, however updates    *)
(* interleave or fail; the same holds of a comment once its mentions are   *)
(* through, those left out that could not be stored.  A page shows of      *)
(* every row that did not change under it exactly what hangs on that row,  *)
(* with the first replies and their number, or a blank where a look-up     *)
(* failed.                                                                 *)
ContentsWhole ==
  /\ \A x \in Things : (Live(x) /\ ~Telling(x)) => rows[x].parts = asked[x]
  /\ view.pc = "done" => \A x \in Shown \ view.changed :
       /\ view.shown[x].parts
            = [f \in DOMAIN Nothing |-> Unless(f, x, rows[x].parts[f], {})]
       /\ x \in Comments =>
            view.shown[x].count = Unless("count", x, Cardinality(RepliesOf(x)), 0)
       /\ (x \in view.page \cap Comments /\ rows[x].parent = NoThing) =>
            view.shown[x].replies = Unless("replies", x, Preview(x), {})
=============================================================================
