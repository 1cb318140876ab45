--------------------------- MODULE FollowingCache ---------------------------
(***************************************************************************)
(* The cached follow set every feed request of a viewer filters with.      *)
(*                                                                         *)
(* A request looks the set up in Redis and, on a miss or a Redis error,    *)
(* queries PostgreSQL and fills the cache (followingResolver.get).  Follow *)
(* and Unfollow commit first and delete the cache entry afterwards, on a   *)
(* best-effort basis (FollowService).  Requests and mutations of the same  *)
(* viewer run concurrently, and nothing orders a fill after a delete: the  *)
(* entry's TTL is what bounds how long a stale set is used.                *)
(***************************************************************************)
EXTENDS Naturals, FiniteSets

CONSTANTS
  Authors,     \* users the viewer may follow
  Requests,    \* concurrent feed requests of the viewer
  Mutations    \* concurrent follow and unfollow calls of the viewer

VARIABLES
  follows,     \* the viewer's rows of usr.follows
  cache,       \* following:ids:<viewer>: {ids}, or {} where there is no entry
  req,         \* req[r]: where request r is, and the set it holds
  answer,      \* answer[r]: the set r's latest response was filtered with
  call,        \* call[m]: "idle", or "delete": committed, entry not deleted yet
  missed,      \* some delete never happened since the entry was last dropped
  overtaken    \* the entry was filled from a query older than a commit

vars == <<follows, cache, req, answer, call, missed, overtaken>>

-----------------------------------------------------------------------------
NotAsking == [pc |-> "idle", ids |-> {}]

TypeOK ==
  /\ follows \subseteq Authors
  /\ cache \subseteq SUBSET Authors /\ Cardinality(cache) <= 1
  /\ req \in [Requests -> [pc : {"idle", "query", "fill", "filter"},
                           ids : SUBSET Authors]]
  /\ answer \in [Requests -> SUBSET Authors]
  /\ call \in [Mutations -> {"idle", "delete"}]
  /\ missed \in BOOLEAN
  /\ overtaken \in BOOLEAN

Init ==
  /\ follows \in SUBSET Authors
  /\ cache = {}
  /\ req = [r \in Requests |-> NotAsking]
  /\ answer = [r \in Requests |-> follows]
  /\ call = [m \in Mutations |-> "idle"]
  /\ missed = FALSE
  /\ overtaken = FALSE

-----------------------------------------------------------------------------
(* A request.                                                              *)

Hit(r) ==
  /\ req[r].pc = "idle"
  /\ \E ids \in cache : req' = [req EXCEPT ![r] = [pc |-> "filter", ids |-> ids]]
  /\ UNCHANGED <<follows, cache, answer, call, missed, overtaken>>

\* A miss; or Redis fails, which falls through to the database.
LookUpFails(r) ==
  /\ req[r].pc = "idle"
  /\ req' = [req EXCEPT ![r].pc = "query"]
  /\ UNCHANGED <<follows, cache, answer, call, missed, overtaken>>

Query(r) ==
  /\ req[r].pc = "query"
  /\ req' = [req EXCEPT ![r] = [pc |-> "fill", ids |-> follows]]
  /\ UNCHANGED <<follows, cache, answer, call, missed, overtaken>>

QueryFails(r) ==
  /\ req[r].pc = "query"
  /\ req' = [req EXCEPT ![r] = NotAsking]
  /\ UNCHANGED <<follows, cache, answer, call, missed, overtaken>>

\* SET with the TTL, whatever the entry is by now.
Fill(r) ==
  /\ req[r].pc = "fill"
  /\ cache' = {req[r].ids}
  /\ req' = [req EXCEPT ![r].pc = "filter"]
  /\ missed' = FALSE
  /\ overtaken' = (req[r].ids # follows)
  /\ UNCHANGED <<follows, answer, call>>

\* An error of the fill is logged and the request goes on with its set.
FillFails(r) ==
  /\ req[r].pc = "fill"
  /\ req' = [req EXCEPT ![r].pc = "filter"]
  /\ UNCHANGED <<follows, cache, answer, call, missed, overtaken>>

Filter(r) ==
  /\ req[r].pc = "filter"
  /\ answer' = [answer EXCEPT ![r] = req[r].ids]
  /\ req' = [req EXCEPT ![r] = NotAsking]
  /\ UNCHANGED <<follows, cache, call, missed, overtaken>>

-----------------------------------------------------------------------------
(* A follow or an unfollow: ON CONFLICT DO NOTHING and a DELETE, so that   *)
(* repeating one changes no row, but still deletes the entry.              *)

\* Mutant: an unfollow leaves the entry alone.
CommitOneSided(m, a) ==
  /\ call[m] = "idle"
  /\ \/ follows' = follows \cup {a} /\ call' = [call EXCEPT ![m] = "delete"]
     \/ follows' = follows \ {a} /\ UNCHANGED call
  /\ UNCHANGED <<cache, req, answer, missed, overtaken>>

Commit(m, a) ==
  /\ call[m] = "idle"
  /\ follows' \in {follows \cup {a}, follows \ {a}}
  /\ call' = [call EXCEPT ![m] = "delete"]
  /\ UNCHANGED <<cache, req, answer, missed, overtaken>>

InvalidateFollowingIDs(m) ==
  /\ call[m] = "delete"
  /\ cache' = {}
  /\ call' = [call EXCEPT ![m] = "idle"]
  /\ missed' = FALSE
  /\ overtaken' = FALSE
  /\ UNCHANGED <<follows, req, answer>>

\* Redis fails, which is only logged, or the process dies.
InvalidateFails(m) ==
  /\ call[m] = "delete"
  /\ call' = [call EXCEPT ![m] = "idle"]
  /\ missed' = (cache # {})
  /\ UNCHANGED <<follows, cache, req, answer, overtaken>>

\* Mutant: an entry without a TTL.
ExpireNever == FALSE /\ UNCHANGED vars

\* FollowingIDsTTL after the entry was set.
Expire ==
  /\ cache # {}
  /\ cache' = {}
  /\ missed' = FALSE
  /\ overtaken' = FALSE
  /\ UNCHANGED <<follows, req, answer, call>>

Ask(r) == Hit(r) \/ LookUpFails(r) \/ Query(r) \/ Fill(r) \/ FillFails(r) \/ Filter(r)

End(m) == InvalidateFollowingIDs(m) \/ InvalidateFails(m)

Change(m) == (\E a \in Authors : Commit(m, a)) \/ End(m)

Next ==
  \/ \E r \in Requests : Ask(r) \/ QueryFails(r)
  \/ \E m \in Mutations : Change(m)
  \/ Expire

Spec == Init /\ [][Next]_vars

\* The viewer keeps asking, a query that can succeed does in the end, and
\* Redis keeps its TTL.  Calls end; nobody has to start one.
Fairness ==
  /\ \A r \in Requests : SF_vars(Query(r)) /\ WF_vars(Ask(r))
  /\ \A m \in Mutations : WF_vars(End(m))
  /\ WF_vars(Expire)

FairSpec == Spec /\ Fairness

-----------------------------------------------------------------------------
(* There are two ways for a set to be stale once every call has returned:  *)
(* its delete was lost, or a fill from an older query overtook it.  In     *)
(* particular no call that succeeds leaves a set behind that was cached    *)
(* before it.                                                              *)
StaleOnlyByLossOrRace ==
  (cache \notin {{}, {follows}} /\ \A m \in Mutations : call[m] = "idle")
    => missed \/ overtaken

(* The follow graph is reflected in the end: once an author is unfollowed  *)
(* (followed) for good, every response is filtered with a set without      *)
(* (with) them from some point on, whatever deletes are lost and whichever *)
(* fills are late.                                                         *)
FollowsReflected ==
  \A a \in Authors, r \in Requests :
    /\ <>[](a \notin follows) => <>[](a \notin answer[r])
    /\ <>[](a \in follows) => <>[](a \in answer[r])
=============================================================================
