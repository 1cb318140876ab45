------------------------------ MODULE Reindexing ------------------------------
(***************************************************************************)
(* darkvoidctl codohue reindex: the operator's repair pass over Codohue's  *)
(* catalog.  It walks the public posts, newest first, page by page, and    *)
(* sends each to the catalog, while authors go on to change their posts    *)
(* and the server's own calls to the catalog succeed or fail beside it.    *)
(*                                                                         *)
(* Posts are numbered in the order of (created_at, id).  The text and the  *)
(* tags of a post are the number of the change that wrote them.            *)
(***************************************************************************)
EXTENDS Integers, FiniteSets

CONSTANTS
  Posts,       \* post ids, a set of positive numbers
  PageSize,    \* reindexPageSize
  Threshold,   \* failures in a row that open the circuit
  MaxChanges,  \* bound: changes the authors commit
  MaxFaults    \* bound: calls and look-ups that fail

VARIABLES
  posts,    \* rows of post.posts, with their tags
  catalog,  \* what Codohue holds of each post, or NoItem
  calls,    \* calls of the server to the catalog that are under way
  run,      \* the command: its flags, where it is, its page
  sent,     \* posts sent, the variable of cmdReindex as a set
  failed,   \* posts whose ingestion failed
  streak,   \* failures in a row, as the breaker of the command counts them
  changes,
  faults,
  unsteady, \* posts that were not public at some time of the walk (history)
  blurred   \* posts for which a call was overtaken by a change, or failed
            \* when the walk had passed them or removed them (history)

table == <<posts, changes>>
outcome == <<sent, failed, streak>>
vars == <<table, catalog, calls, run, outcome, faults, unsteady, blurred>>

NoItem == [text |-> 0, tags |-> 0]
NoRow == [state |-> "none", item |-> NoItem]
Top == 1 + CHOOSE p \in Posts : \A x \in Posts : x <= p
NoLimit == 0
NoText == [p \in Posts |-> NoItem]

Public(p) == posts[p].state = "public"

\* IndexText: what a post is indexed under, its text and its tags.
IndexText(p) == posts[p].item

Init ==
  /\ posts \in [Posts -> {NoRow} \cup
                  [state : {"public", "hidden"}, item : {[text |-> 1, tags |-> 1]}]]
  \* A post made while Codohue was unreachable is absent.
  /\ catalog \in [Posts -> {NoItem, [text |-> 1, tags |-> 1]}]
  /\ \A p \in Posts : posts[p] = NoRow => catalog[p] = NoItem
  /\ calls = {}
  /\ run = [pc |-> "ready", limit |-> NoLimit, since |-> 0, dry |-> FALSE,
            cursor |-> Top, page |-> {}, text |-> NoText]
  /\ sent = {} /\ failed = {} /\ streak = 0
  /\ changes = 1
  /\ faults = 0
  /\ unsteady = {} /\ blurred = {}

At(pc) == run.pc = pc
Fault == faults < MaxFaults /\ faults' = faults + 1

-----------------------------------------------------------------------------
(* The command.                                                            *)

\* cmdReindex up to its walk: the flags, the dependencies and, unless it is a
\* dry run, a ping.
Start ==
  /\ At("ready")
  /\ \E limit \in {NoLimit, 1}, since \in {0} \cup Posts, dry \in BOOLEAN :
       \/ /\ run' = [run EXCEPT !.pc = "read", !.limit = limit, !.since = since, !.dry = dry]
          /\ UNCHANGED faults
       \/ ~dry /\ Fault /\ run' = [run EXCEPT !.pc = "error"]
  /\ unsteady' = {p \in Posts : ~Public(p)}
  /\ UNCHANGED <<table, catalog, calls, outcome, blurred>>

\* GetDiscoverWithCursor: public posts below the cursor, newest first.
GetDiscoverWithCursor(cursor, n) ==
  LET below == {p \in Posts : Public(p) /\ p < cursor} IN
  {p \in below : Cardinality({x \in below : x > p}) < n}

Lowest(P) == CHOOSE p \in P : \A x \in P : p <= x
Highest(P) == CHOOSE p \in P : \A x \in P : p >= x

\* Mutant: the walk goes on below the post after the page.
EndPageTooLow ==
  [run EXCEPT !.pc = "read", !.cursor = Lowest(run.page) - 1, !.page = {}, !.text = NoText]

\* The walk goes on below the last post of the page.
EndPage ==
  [run EXCEPT !.pc = "read", !.cursor = Lowest(run.page), !.page = {}, !.text = NoText]

ReadPage ==
  /\ At("read")
  /\ LET page == GetDiscoverWithCursor(run.cursor, PageSize) IN
     \/ /\ page = {}
        /\ run' = [run EXCEPT !.pc = IF failed = {} THEN "done" ELSE "error"]
        /\ UNCHANGED faults
     \/ /\ page # {}
        /\ run' = [run EXCEPT !.pc = "tag", !.page = page,
             !.text = [p \in Posts |-> IF p \in page THEN [posts[p].item EXCEPT !.tags = 0] ELSE NoItem]]
        /\ UNCHANGED faults
     \/ Fault /\ run' = [run EXCEPT !.pc = "error"]
  /\ UNCHANGED <<table, catalog, calls, outcome, unsteady, blurred>>

\* Mutant: a look-up that fails leaves the page without tags.
ReadTagsOrNone ==
  /\ At("tag")
  /\ \/ /\ run' = [run EXCEPT !.pc = "send",
             !.text = [p \in Posts |-> IF p \in run.page THEN [@[p] EXCEPT !.tags = posts[p].item.tags]
                                       ELSE NoItem]]
        /\ UNCHANGED faults
     \/ Fault /\ run' = [run EXCEPT !.pc = "send"]
  /\ UNCHANGED <<table, catalog, calls, outcome, unsteady, blurred>>

\* GetNamesByPostIDs, a second query; without the tags the run stops.
ReadTags ==
  /\ At("tag")
  /\ \/ /\ run' = [run EXCEPT !.pc = "send",
             !.text = [p \in Posts |-> IF p \in run.page THEN [@[p] EXCEPT !.tags = posts[p].item.tags]
                                       ELSE NoItem]]
        /\ UNCHANGED faults
     \/ Fault /\ run' = [run EXCEPT !.pc = "error"]
  /\ UNCHANGED <<table, catalog, calls, outcome, unsteady, blurred>>

\* The post to send next.
Unsent == {p \in run.page : p \notin sent \cup failed}
Current == Highest(Unsent)

\* Nothing of the server's is on its way to the catalog any more.
Settled(p) == \A c \in calls : c.post # p

\* IngestCatalogItem through the breaker, or nothing at all in a dry run.
\* A call that fails may have been applied; it counts as failed.
Send ==
  /\ At("send") /\ Unsent # {} /\ Current >= run.since
  /\ LET p == Current IN
     \/ /\ catalog' = IF run.dry THEN catalog ELSE [catalog EXCEPT ![p] = run.text[p]]
        /\ sent' = sent \cup {p}
        /\ streak' = 0
        /\ run' = [run EXCEPT !.pc = IF Cardinality(sent') = run.limit THEN "stopped" ELSE "send"]
        /\ blurred' = IF Settled(p) /\ Public(p) /\ catalog'[p] = IndexText(p)
                       THEN blurred \ {p} ELSE blurred
        /\ UNCHANGED <<failed, faults>>
     \/ /\ ~run.dry /\ Fault
        /\ catalog' \in {catalog, [catalog EXCEPT ![p] = run.text[p]]}
        /\ failed' = failed \cup {p}
        /\ streak' = streak + 1
        /\ UNCHANGED <<run, sent, blurred>>
  /\ UNCHANGED <<table, calls, unsteady>>

\* ErrUnavailable: the circuit is open, and the run stops.
GiveUp ==
  /\ At("send") /\ Unsent # {} /\ Current >= run.since
  /\ streak >= Threshold
  /\ run' = [run EXCEPT !.pc = "error"]
  /\ UNCHANGED <<table, catalog, calls, outcome, faults, unsteady, blurred>>

\* All of the page was sent, or its next post is older than -since allows.
TurnPage ==
  /\ At("send")
  /\ \/ Unsent = {} /\ run' = EndPage
     \/ /\ Unsent # {} /\ Current < run.since
        /\ run' = [run EXCEPT !.pc = IF failed = {} THEN "done" ELSE "error"]
  /\ UNCHANGED <<table, catalog, calls, outcome, faults, unsteady, blurred>>

-----------------------------------------------------------------------------
(* The authors, and the server's own calls.                                *)

\* What is on its way to the catalog when p changes arrives under a text that
\* is no longer true.
Outstanding(p) ==
  \/ \E c \in calls : c.post = p
  \/ run.pc \in {"tag", "send"} /\ p \in Unsent

\* The walk will still come to p.
Ahead(p) ==
  \/ At("ready") \/ (At("read") /\ p < run.cursor)
  \/ run.pc \in {"tag", "send"} /\ (p \in Unsent \/ p < Lowest(run.page))

Change(p, row, item) ==
  /\ changes < MaxChanges
  /\ run.pc \notin {"done", "stopped", "error"}
  /\ changes' = changes + 1
  /\ posts' = [posts EXCEPT ![p] = row]
  /\ calls' = calls \cup {[post |-> p, item |-> item]}
  /\ blurred' = IF Outstanding(p) THEN blurred \cup {p} ELSE blurred \ {p}
  /\ unsteady' = IF Public(p) /\ row.state = "public" THEN unsteady ELSE unsteady \cup {p}
  /\ UNCHANGED <<catalog, run, outcome, faults>>

Written == [text |-> changes + 1, tags |-> changes + 1]

\* CreatePost and UpdatePost, of whatever visibility.
Write(p) ==
  \E v \in {"public", "hidden"} :
    posts[p].state # "deleted" /\ Change(p, [state |-> v, item |-> Written], Written)

\* DeletePost, with the removal of the object.
Delete(p) ==
  /\ posts[p].state \in {"public", "hidden"}
  /\ Change(p, [posts[p] EXCEPT !.state = "deleted"], NoItem)

\* ingestCatalogAsync, DeleteObject.  A failure that the walk can no longer
\* repair is remembered.
Call ==
  \E c \in calls :
    /\ calls' = calls \ {c}
    /\ \/ catalog' = [catalog EXCEPT ![c.post] = c.item] /\ UNCHANGED <<faults, blurred>>
       \/ /\ Fault
          /\ catalog' \in {catalog, [catalog EXCEPT ![c.post] = c.item]}
          /\ blurred' = IF c.item # NoItem /\ Ahead(c.post) THEN blurred
                        ELSE blurred \cup {c.post}
    /\ UNCHANGED <<table, run, outcome, unsteady>>

-----------------------------------------------------------------------------
Command == Start \/ ReadPage \/ ReadTags \/ Send \/ GiveUp \/ TurnPage

Next == Command \/ Call \/ \E p \in Posts : Write(p) \/ Delete(p)

Spec == Init /\ [][Next]_vars

-----------------------------------------------------------------------------
(* A run that ends well has repaired the catalog: every post in its scope  *)
(* that was public all along is found under the text and the tags it has,  *)
(* whatever calls failed before the walk came to it, unless a change       *)
(* overtook a call or a later call failed.                                 *)
RunRepairs ==
  (At("done") /\ ~run.dry) =>
    \A p \in Posts \ (unsteady \cup blurred) :
      (Settled(p) /\ p >= run.since) => catalog[p] = IndexText(p)

(* A run that stops at -limit says how many posts are in the catalog.      *)
LimitKept ==
  (At("stopped") /\ ~run.dry) =>
    /\ Cardinality(sent) = run.limit
    /\ \A p \in sent \ (unsteady \cup blurred) : Settled(p) => catalog[p] = IndexText(p)

(* The walk brings no deleted post back, unless it was deleted while its   *)
(* page was being sent, or its removal failed.                             *)
DeletedStaysOut ==
  \A p \in Posts \ blurred :
    (posts[p].state = "deleted" /\ Settled(p)) => catalog[p] = NoItem

ReindexRepairs == RunRepairs /\ LimitKept /\ DeletedStaysOut
=============================================================================
