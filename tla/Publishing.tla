------------------------------ MODULE Publishing ------------------------------
(***************************************************************************)
(* An author's posts, and what has to follow a change of one: the event in *)
(* the feed outbox, the trending list in Redis, and the catalog Codohue    *)
(* recommends from.  Only the event is written in the transaction of the   *)
(* change; the list is evicted afterwards, and the catalog is told by a    *)
(* goroutine of its own for which nobody waits.                            *)
(*                                                                         *)
(* The text and the tags of a post are the number of the change that wrote *)
(* them; tags 0 are none.  Mentions and media are written in the same      *)
(* transaction; Attachments has them.                                      *)
(***************************************************************************)
EXTENDS Naturals, FiniteSets

CONSTANTS
  Posts,       \* post ids
  Requests,    \* request goroutines of the author
  MaxChanges,  \* bound: mutations that commit
  MaxFaults    \* bound: calls and look-ups that fail

VARIABLES
  posts,      \* rows of post.posts, with the tags linked to each
  announced,  \* the visibility the outbox was told of last
  trending,   \* the cached trending list: a set of entries, or Miss
  catalog,    \* what Codohue holds of each post, or NoItem
  ingests,    \* ingest goroutines under way
  req,        \* where each request is
  changes,    \* mutations committed so far
  faults,     \* calls that failed so far
  raced,      \* posts two updates of which overlapped (history)
  blurred,    \* posts whose catalog calls crossed or failed (history)
  kept        \* the cached list outlived an eviction (history)

mutated == <<posts, announced, raced, changes>>
indexed == <<catalog, ingests, blurred>>
listed == <<trending, kept>>
vars == <<mutated, indexed, listed, req, faults>>

Visibilities == {"public", "followers", "private"}
NoRow == [state |-> "none", visibility |-> "private", version |-> 0, tags |-> 0]
NoItem == [text |-> 0, tags |-> 0]
Miss == [hit |-> FALSE, entries |-> {}]
Idle == [pc |-> "idle", post |-> CHOOSE p \in Posts : TRUE, seen |-> NoRow,
         item |-> NoItem]

At(r, pc) == req[r].pc = pc
Live(p) == posts[p].state = "live"

TypeOK ==
  /\ posts \in [Posts -> [state : {"none", "live", "deleted"},
                          visibility : Visibilities, version : 0..MaxChanges,
                          tags : 0..MaxChanges]]
  /\ announced \in [Posts -> Visibilities \cup {"nothing", "deleted"}]
  /\ trending.hit \in BOOLEAN
  /\ \A e \in trending.entries : e.post \in Posts /\ e.version \in 1..MaxChanges
  /\ catalog \in [Posts -> [text : 0..MaxChanges, tags : 0..MaxChanges]]
  /\ \A i \in ingests : i.post \in Posts /\ i.item.text \in 1..MaxChanges
  /\ \A r \in Requests :
       req[r].pc \in {"idle", "update", "delete", "evict", "hydrate", "spawn",
                      "remove", "unlist"}
  /\ changes \in 0..MaxChanges /\ faults \in 0..MaxFaults
  /\ raced \subseteq Posts /\ blurred \subseteq Posts /\ kept \in BOOLEAN

Init ==
  /\ posts = [p \in Posts |-> NoRow]
  /\ announced = [p \in Posts |-> "nothing"]
  /\ trending = Miss
  /\ catalog = [p \in Posts |-> NoItem]
  /\ ingests = {}
  /\ req = [r \in Requests |-> Idle]
  /\ changes = 0
  /\ faults = 0
  /\ raced = {} /\ blurred = {} /\ kept = FALSE

-----------------------------------------------------------------------------
(* Committing a change.                                                    *)

\* Something that a change of p started has yet to reach the catalog.
Indexing(p) ==
  \/ \E i \in ingests : i.post = p
  \/ \E r \in Requests : req[r].post = p /\ req[r].pc \notin {"idle", "update", "delete"}

\* From here on, this change alone decides what the catalog will hold, unless
\* an earlier one is still on its way there.
Blurred(p) == IF Indexing(p) THEN blurred \cup {p} ELSE blurred \ {p}

Committed(p, row) ==
  /\ changes < MaxChanges
  /\ changes' = changes + 1
  /\ posts' = [posts EXCEPT ![p] = row]
  /\ blurred' = Blurred(p)

Goto(r, pc) == req' = [req EXCEPT ![r].pc = pc]

\* A call to the outside that may fail.
Fault == faults < MaxFaults /\ faults' = faults + 1

\* The handler of CreatePost: no visibility means public.
AcceptCreate == [visibility : Visibilities, tagged : BOOLEAN]

\* The handler of UpdatePost: what the request leaves out is lost.
AcceptUpdate == [visibility : Visibilities, tagged : BOOLEAN]

\* upsertAndLinkTx: the tags that the change in hand links.
Linked(tagged) == IF tagged THEN changes + 1 ELSE 0

\* The row CreatePost inserts.
InsertedRow(in) ==
  [state |-> "live", visibility |-> in.visibility, version |-> changes + 1,
   tags |-> Linked(in.tagged)]

\* ReplaceForPost: the old links are deleted first.
ReplaceForPost(row, tagged) == [row EXCEPT !.tags = Linked(tagged)]

\* The row UpdatePost leaves.
UpdatedRow(p, in) ==
  ReplaceForPost([posts[p] EXCEPT !.visibility = in.visibility, !.version = changes + 1],
                 in.tagged)

\* The row DeletePost leaves.
DeletedRow(p) == [posts[p] EXCEPT !.state = "deleted"]

\* CreatePost: row, tags and event in one transaction.
CreatePost(r) ==
  \E p \in Posts, in \in AcceptCreate :
    /\ At(r, "idle") /\ posts[p].state = "none"
    /\ Committed(p, InsertedRow(in))
    /\ announced' = [announced EXCEPT ![p] = in.visibility]
    /\ req' = [req EXCEPT ![r] = [Idle EXCEPT !.pc = "spawn", !.post = p,
         !.item = [text |-> changes + 1, tags |-> Linked(in.tagged)]]]
    /\ UNCHANGED <<raced, catalog, ingests, listed, faults>>

\* GetPostByID
GetPostByID(p) == IF Live(p) THEN posts[p] ELSE NoRow

\* What UpdatePost and DeletePost do first; both ask whose the post is.
ReadFirst(r, next) ==
  \E p \in Posts :
    /\ At(r, "idle") /\ GetPostByID(p) # NoRow
    /\ req' = [req EXCEPT ![r] =
         [Idle EXCEPT !.pc = next, !.post = p, !.seen = GetPostByID(p)]]
    /\ UNCHANGED <<mutated, indexed, listed, faults>>

\* UpdatePost up to its transaction.
UpdatePost(r) == ReadFirst(r, "update")

\* DeletePost up to its transaction.
DeletePost(r) == ReadFirst(r, "delete")

\* Mutant: only a post that becomes private is announced.
AnnounceOnlyHiding(r, v) ==
  LET p == req[r].post IN
  IF req[r].seen.visibility # v /\ v = "private"
  THEN announced' = [announced EXCEPT ![p] = v] /\ raced' = raced \ {p}
  ELSE /\ UNCHANGED announced
       /\ raced' = IF req[r].seen.visibility # posts[p].visibility
                   THEN raced \cup {p} ELSE raced

\* The event, if the visibility differs from the one that was read before the
\* transaction began.
Announce(r, v) ==
  LET p == req[r].post IN
  IF req[r].seen.visibility # v
  THEN announced' = [announced EXCEPT ![p] = v] /\ raced' = raced \ {p}
  ELSE /\ UNCHANGED announced
       /\ raced' = IF req[r].seen.visibility # posts[p].visibility
                   THEN raced \cup {p} ELSE raced

\* The transaction of UpdatePost.
CommitUpdate(r) ==
  LET p == req[r].post IN
  /\ At(r, "update") /\ Live(p)
  /\ \E in \in AcceptUpdate :
       /\ Committed(p, UpdatedRow(p, in))
       /\ Announce(r, in.visibility)
  /\ req' = [req EXCEPT ![r].pc = "evict", ![r].item = [text |-> changes + 1, tags |-> 0]]
  /\ UNCHANGED <<catalog, ingests, listed, faults>>

\* The transaction of DeletePost.  A post that is deleted already is announced
\* again.
CommitDelete(r) ==
  LET p == req[r].post IN
  /\ At(r, "delete")
  /\ Committed(p, DeletedRow(p))
  /\ announced' = [announced EXCEPT ![p] = "deleted"]
  /\ Goto(r, "unlist")
  /\ UNCHANGED <<raced, catalog, ingests, listed, faults>>

\* The update meets no row, or the transaction fails: nothing is left of it.
Refused(r) ==
  /\ req[r].pc \in {"update", "delete"}
  /\ req' = [req EXCEPT ![r] = Idle]
  /\ UNCHANGED <<mutated, indexed, listed, faults>>

-----------------------------------------------------------------------------
(* What follows the commit.                                                *)

\* The key is deleted, or the error is logged.
InvalidateTrending ==
  \/ trending' = Miss /\ kept' = FALSE /\ UNCHANGED faults
  \/ Fault /\ kept' = (kept \/ trending.hit) /\ UNCHANGED trending

\* Mutant: UpdatePost leaves the trending list alone.
EvictAfterUpdateNot(r) ==
  /\ At(r, "evict") /\ Goto(r, "hydrate")
  /\ UNCHANGED <<mutated, indexed, listed, faults>>

\* UpdatePost: invalidateTrending
EvictAfterUpdate(r) ==
  /\ At(r, "evict") /\ InvalidateTrending /\ Goto(r, "hydrate")
  /\ UNCHANGED <<mutated, indexed>>

\* DeletePost: invalidateTrending
EvictAfterDelete(r) ==
  /\ At(r, "unlist") /\ InvalidateTrending /\ Goto(r, "remove")
  /\ UNCHANGED <<mutated, indexed>>

\* Mutant: the post goes to the catalog as the transaction returned it.
HydrateSkipped(r) ==
  /\ At(r, "hydrate") /\ Goto(r, "spawn")
  /\ UNCHANGED <<mutated, indexed, listed, faults>>

\* GetNamesByPostIDs
TagsOf(p) == posts[p].tags

\* Hydrate: the tags are read back; a failed look-up leaves none.
Hydrate(r) ==
  LET p == req[r].post IN
  /\ At(r, "hydrate")
  /\ \/ /\ req' = [req EXCEPT ![r].pc = "spawn", ![r].item.tags = TagsOf(p)]
        /\ UNCHANGED <<faults, blurred>>
     \/ /\ Fault /\ Goto(r, "spawn")
        /\ blurred' = blurred \cup {p}
  /\ UNCHANGED <<mutated, catalog, ingests, listed>>

\* IndexText: both the text and the tags, or the text alone.
IndexText(r) == req[r].item

\* ingestCatalogAsync; the request is answered.
Spawn(r) ==
  /\ At(r, "spawn")
  /\ ingests' = ingests \cup {[post |-> req[r].post, item |-> IndexText(r)]}
  /\ req' = [req EXCEPT ![r] = Idle]
  /\ UNCHANGED <<mutated, catalog, blurred, listed, faults>>

\* A call to Codohue about p; one that fails may have been applied.
Told(p, item) ==
  \/ catalog' = [catalog EXCEPT ![p] = item] /\ UNCHANGED <<faults, blurred>>
  \/ /\ Fault
     /\ catalog' \in {catalog, [catalog EXCEPT ![p] = item]}
     /\ blurred' = blurred \cup {p}

\* IngestCatalogItem, in the goroutine.
Ingest ==
  /\ \E i \in ingests : Told(i.post, i.item) /\ ingests' = ingests \ {i}
  /\ UNCHANGED <<mutated, listed, req>>

\* DeleteObject; the request is answered.
RemoveObject(r) ==
  /\ At(r, "remove")
  /\ Told(req[r].post, NoItem)
  /\ req' = [req EXCEPT ![r] = Idle]
  /\ UNCHANGED <<mutated, ingests, listed>>

-----------------------------------------------------------------------------
Next ==
  \/ \E r \in Requests :
       \/ CreatePost(r) \/ UpdatePost(r) \/ DeletePost(r) \/ CommitUpdate(r)
       \/ CommitDelete(r) \/ Refused(r)
       \/ EvictAfterUpdate(r) \/ EvictAfterDelete(r) \/ Hydrate(r) \/ Spawn(r)
       \/ RemoveObject(r)
  \/ Ingest

Spec == Init /\ [][Next]_vars

-----------------------------------------------------------------------------
(* The outbox was told of the visibility a post has, in the order of the   *)
(* commits, except after two updates that overlapped: the later one then   *)
(* compared with a visibility the earlier one had replaced.                *)
VisibilityAnnounced ==
  \A p \in Posts :
    /\ posts[p].state = "deleted" => announced[p] # "nothing"
    /\ (Live(p) /\ p \notin raced) => announced[p] = posts[p].visibility

(* When all is quiet, Codohue recommends a live post under its last text   *)
(* and tags and knows nothing of a deleted one, except for a call or a     *)
(* look-up of tags that failed, or a change that overtook the ingestion of *)
(* an earlier one; the next change that is left alone repairs either.      *)
CatalogFollows ==
  \A p \in Posts : (~Indexing(p) /\ p \notin blurred) =>
    catalog[p] = IF Live(p) THEN [text |-> posts[p].version, tags |-> posts[p].tags]
                 ELSE NoItem

(* What has to follow a change of a post follows it: the outbox hears its  *)
(* visibility, and Codohue's catalog its text, its tags and its end.       *)
ChangesFollowed == VisibilityAnnounced /\ CatalogFollows
=============================================================================
