------------------------------- MODULE MCReads -------------------------------
(* Instances for TLC: components that run on their own, a walk over a      *)
(* prepared timeline, the cached follow set, the feed settings and the     *)
(* life of a process.  A behaviour is one of one of them; the variables of the *)
(* others stay put.                                                        *)
EXTENDS TimelinePages

CONSTANTS
  Authors, Requests, Mutations,
  Servers, Editors, Knobs, MaxEdits, MaxRestarts

VARIABLES
  part,
  follows, cache, req, answer, call, missed, overtaken,
  settings, live, editor, refresher, edits, restarts,
  boot, stop, open, listening, serving, consumer, monitor, status

Cache == INSTANCE FollowingCache
Settings == INSTANCE RuntimeSettings WITH row <- settings
Process == INSTANCE Lifecycle WITH Codohue <- TRUE, EventsRedis <- TRUE, request <- serving

cacheVars == <<follows, cache, req, answer, call, missed, overtaken>>
settingsVars == <<settings, live, editor, refresher, edits, restarts>>
processVars == <<boot, stop, open, listening, serving, consumer, monitor, status>>
all == <<part, vars, cacheVars, settingsVars, processVars>>

\* A post that is not on the timeline yet is visible, to spare states: a change
\* can hide it.
MCInit ==
  /\ Init /\ Cache!Init /\ Settings!Init /\ Process!Init
  /\ part \in {"pages", "cache", "settings", "process"}
  /\ part # "pages" => eligible = {} /\ score = [p \in Posts |-> Absent]
  /\ part = "pages" => \A p \in Posts : score[p] = Absent => p \in eligible
  /\ part # "cache" => follows = {}

Walking(A) == part = "pages" /\ A /\ UNCHANGED <<part, cacheVars, settingsVars, processVars>>
Filtering(A) == part = "cache" /\ A /\ UNCHANGED <<part, vars, settingsVars, processVars>>
Setting(A) == part = "settings" /\ A /\ UNCHANGED <<part, vars, cacheVars, processVars>>
Living(A) == part = "process" /\ A /\ UNCHANGED <<part, vars, cacheVars, settingsVars>>

MCNext ==
  Walking(Next) \/ Filtering(Cache!Next) \/ Setting(Settings!Next) \/ Living(Process!Next)

\* The fairness of the specifications.  A behaviour is one component's, so one
\* condition can name an action of each: only one of them is ever enabled.
MCSpec ==
  /\ MCInit /\ [][MCNext]_all
  /\ WF_all(\/ Walking(Request) \/ Filtering(Cache!Expire)
             \/ Living(Process!ServerStopped \/ Process!ShutdownTimesOut))
  /\ \A r \in Requests :
       SF_all(Filtering(Cache!Query(r))) /\ WF_all(Filtering(Cache!Ask(r)))
  /\ \A m \in Mutations : WF_all(Filtering(Cache!End(m)))
  /\ \A s \in Servers : WF_all(Setting(Settings!Read(s) \/ Settings!Apply(s)))
  /\ \A e \in Editors : WF_all(Setting(Settings!Publish(e)))
  /\ WF_all(Living(Process!ExitFailed)) /\ WF_all(Living(Process!EndBatch))
  /\ WF_all(Living(Process!CloseListener)) /\ WF_all(Living(Process!CloseStores))
  /\ SF_all(Living(Process!CloseDispatcher))

\* The properties of the components, stated there.
StaleOnlyByLossOrRace == Cache!StaleOnlyByLossOrRace
FollowsReflected == Cache!FollowsReflected
StoresOutliveUse == Process!StoresOutliveUse
\* What has an end reaches it: a walk (TimelinePages), a shutdown (Lifecycle).
EndsReached ==
  (part = "pages" /\ pc = "ask") \/ (part = "process" /\ stop = "streams")
    ~> (part = "pages" /\ pc \in {"end", "done"}) \/ (part = "process" /\ stop = "exited")
Converges == <>[](part = "settings" => Settings!Current)
=============================================================================
