----------------------------- MODULE SharedLists ------------------------------
(***************************************************************************)
(* Two lists of public posts that all viewers share: the trending list,    *)
(* rebuilt by one single flight per server and evicted when a post         *)
(* changes, and the first page of a hashtag, which only expires.  Both are *)
(* filled once for everybody and then marked for the viewer who asked.     *)
(***************************************************************************)
EXTENDS Publishing

CONSTANTS
  Servers,  \* API servers, each with a flight of its own
  Viewers,  \* requests that read a list, each once
  NoMark    \* the mark of a list nobody's likes were filled into

VARIABLES
  flight,   \* the single flight of each server
  page,     \* the cached first page of the hashtag
  held,     \* the list a viewer or a server holds
  view,     \* where each viewer is
  answers   \* whose likes each answer carried

shown == <<flight, page, held, view, answers>>
all == <<vars, shown>>

Blank == [entries |-> {}, mark |-> NoMark]
NoFlight == [pc |-> "idle", crossed |-> FALSE]
Empty == [hit |-> FALSE, list |-> Blank]

SharedTypeOK ==
  /\ TypeOK
  /\ flight \in [Servers -> [pc : {"idle", "started", "read"}, crossed : BOOLEAN]]
  /\ page.hit \in BOOLEAN
  /\ \A o \in Servers \cup Viewers : held[o].mark \in Viewers \cup {NoMark}
  /\ \A v \in Viewers : view[v].pc \in {"new", "wait", "query", "cache", "mark", "answer", "done"}

SharedInit ==
  /\ Init
  /\ flight = [s \in Servers |-> NoFlight]
  /\ page = Empty
  /\ held = [o \in Servers \cup Viewers |-> Blank]
  /\ view = [v \in Viewers |-> [pc |-> "new", at |-> CHOOSE s \in Servers : TRUE, object |-> v]]
  /\ answers = [v \in Viewers |-> {}]

Entry(p) == [post |-> p, version |-> posts[p].version]
Public == {p \in Posts : Live(p) /\ posts[p].visibility = "public"}
Stale(e) == e.post \notin Public \/ e.version # posts[e.post].version

ViewGoto(v, pc) == view' = [view EXCEPT ![v].pc = pc]

\* A mutation.  A flight that has read is crossed by every commit.
Mutate ==
  /\ Next
  /\ flight' = [s \in Servers |->
       IF changes' # changes /\ flight[s].pc = "read"
       THEN [flight[s] EXCEPT !.crossed = TRUE] ELSE flight[s]]
  /\ UNCHANGED <<page, held, view, answers>>

-----------------------------------------------------------------------------
(* The trending list.                                                      *)

\* trendingSource.get: the cache, unless it cannot be read.
ReadTrending(v) ==
  /\ view[v].pc = "new" /\ trending.hit
  /\ held' = [held EXCEPT ![v] = [entries |-> trending.entries, mark |-> NoMark]]
  /\ ViewGoto(v, "mark")
  /\ UNCHANGED <<vars, flight, page, answers>>

\* trendingSource.get: a miss, or an error, joins the flight or starts it.
JoinFlight(v) ==
  /\ view[v].pc = "new"
  /\ (~trending.hit /\ UNCHANGED faults) \/ Fault
  /\ \E s \in Servers :
       /\ view' = [view EXCEPT ![v].pc = "wait", ![v].at = s]
       /\ flight' = IF flight[s].pc = "idle"
                    THEN [flight EXCEPT ![s].pc = "started"] ELSE flight
  /\ UNCHANGED <<mutated, indexed, listed, req, page, held, answers>>

\* GetPostsByIDs
GetPostsByIDs(ids) == {p \in ids : Live(p)}

\* filterPublicPosts
FilterPublicPosts(ids) == ids \cap Public

\* GetTrendingPosts: public and of the last day.
GetTrendingPosts(recent) == recent \cap Public

\* rebuild: Codohue's ids resolved and filtered, or the local list if that
\* leaves nothing or fails.
Rebuild(s) ==
  /\ flight[s].pc = "started"
  /\ \E ids, recent \in SUBSET Posts :
       LET ranked == FilterPublicPosts(GetPostsByIDs(ids))
           ps == IF ranked # {} THEN ranked ELSE GetTrendingPosts(recent)
       IN held' = [held EXCEPT ![s] = [entries |-> {Entry(p) : p \in ps}, mark |-> NoMark]]
  /\ flight' = [flight EXCEPT ![s] = [pc |-> "read", crossed |-> FALSE]]
  /\ UNCHANGED <<vars, page, view, answers>>

Waiting(s) == {v \in Viewers : view[v].pc = "wait" /\ view[v].at = s}

\* Mutant: the callers of one flight share its list.
CopyShared(v, s) == s

\* copyPosts: each caller gets a list of its own.
Copy(v, s) == v

\* The flight lands: every caller that waited gets the list.
Land(s) ==
  /\ held' = [o \in DOMAIN held |-> IF o \in Waiting(s) THEN held[s] ELSE held[o]]
  /\ view' = [v \in Viewers |->
       IF v \in Waiting(s) THEN [view[v] EXCEPT !.pc = "mark", !.object = Copy(v, s)]
       ELSE view[v]]
  /\ flight' = [flight EXCEPT ![s] = NoFlight]

\* The key SetTrending writes.  A list without posts is stored as null, which
\* reads as a miss.
SetTrending(entries) == [hit |-> entries # {}, entries |-> entries]

\* rebuild: the list is cached, or the error is logged.
FillTrending(s) ==
  /\ flight[s].pc = "read"
  /\ Land(s)
  /\ \/ /\ trending' = SetTrending(held[s].entries)
        /\ kept' = (flight[s].crossed /\ held[s].entries # {})
        /\ UNCHANGED faults
     \/ Fault /\ UNCHANGED listed
  /\ UNCHANGED <<mutated, indexed, req, page, answers>>

\* rebuild: the local query fails, or the time is up.
FlightFails(s) ==
  /\ flight[s].pc = "started" /\ Fault
  /\ view' = [v \in Viewers |->
       IF v \in Waiting(s) THEN [view[v] EXCEPT !.pc = "done"] ELSE view[v]]
  /\ flight' = [flight EXCEPT ![s] = NoFlight]
  /\ UNCHANGED <<mutated, indexed, listed, req, page, held, answers>>

-----------------------------------------------------------------------------
(* The first page of a hashtag.                                            *)

\* GetPostsByHashtag: the cached page.
ReadPage(v) ==
  /\ view[v].pc = "new" /\ page.hit
  /\ held' = [held EXCEPT ![v] = page.list]
  /\ ViewGoto(v, "mark")
  /\ UNCHANGED <<vars, flight, page, answers>>

\* GetPostsByHashtagWithCursor: public posts that carry the tag.
PostsByHashtag == {p \in Public : TagsOf(p) # 0}

\* GetPostsByHashtag: the query.
QueryPage(v) ==
  /\ view[v].pc = "new" /\ ((~page.hit /\ UNCHANGED faults) \/ Fault)
  /\ held' = [held EXCEPT ![v] = [entries |-> {Entry(p) : p \in PostsByHashtag}, mark |-> NoMark]]
  /\ ViewGoto(v, "cache")
  /\ UNCHANGED <<mutated, indexed, listed, req, flight, page, answers>>

\* FieldsShared: what may be cached for every viewer.
PageShared(v) == held[v]

\* SetHashtagPostsPage1; an error is logged.
CachePage(v) ==
  /\ view[v].pc = "cache" /\ ViewGoto(v, "mark")
  /\ \/ page' = [hit |-> TRUE, list |-> PageShared(v)] /\ UNCHANGED faults
     \/ Fault /\ UNCHANGED page
  /\ UNCHANGED <<mutated, indexed, listed, req, flight, held, answers>>

-----------------------------------------------------------------------------
(* Both.                                                                   *)

\* feedEnricher.liked: set in the posts themselves.
Marked(list, v) == [list EXCEPT !.mark = v]

\* The viewer's likes, and whom the viewer follows; a failed look-up leaves
\* the list as it is.
MarkOwn(v) ==
  /\ view[v].pc = "mark" /\ ViewGoto(v, "answer")
  /\ \/ held' = [held EXCEPT ![view[v].object] = Marked(@, v)] /\ UNCHANGED faults
     \/ Fault /\ UNCHANGED held
  /\ UNCHANGED <<mutated, indexed, listed, req, flight, page, answers>>

Answer(v) ==
  /\ view[v].pc = "answer" /\ ViewGoto(v, "done")
  /\ answers' = [answers EXCEPT ![v] = {held[view[v].object].mark}]
  /\ UNCHANGED <<vars, flight, page, held>>

\* TrendingTTL and HashtagPostsPage1TTL.
Expire ==
  /\ \/ trending.hit /\ trending' = Miss /\ kept' = FALSE /\ UNCHANGED page
     \/ page.hit /\ page' = Empty /\ UNCHANGED listed
  /\ UNCHANGED <<mutated, indexed, req, faults, flight, held, view, answers>>

SharedNext ==
  \/ Mutate
  \/ \E v \in Viewers :
       \/ ReadTrending(v) \/ JoinFlight(v) \/ ReadPage(v) \/ QueryPage(v)
       \/ CachePage(v) \/ MarkOwn(v) \/ Answer(v)
  \/ \E s \in Servers : Rebuild(s) \/ FillTrending(s) \/ FlightFails(s)
  \/ Expire

SharedSpec == SharedInit /\ [][SharedNext]_all

-----------------------------------------------------------------------------
(* A list made for everybody shows nobody another viewer's likes: two      *)
(* callers of one flight fill their marks at the same time, a cached page  *)
(* is marked again and again, and a look-up of likes may fail.             *)
MarksOwn == \A v \in Viewers : answers[v] \subseteq {v, NoMark}

\* A change that is committed and not yet evicted.
Evicting(p) == \E r \in Requests : req[r].post = p /\ req[r].pc \in {"evict", "unlist"}

(* The cached trending list holds no post that was deleted, hidden or      *)
(* edited since, but until the change evicts it, or if the list was read   *)
(* before a change and filled after it, or an eviction failed: then it     *)
(* lives until the next change or its TTL.                                 *)
TrendingCurrent ==
  \A e \in trending.entries : Stale(e) => kept \/ Evicting(e.post)
=============================================================================
