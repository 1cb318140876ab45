---------------------------- MODULE RuntimeSettings ----------------------------
(***************************************************************************)
(* The operator's feed settings: one row in Postgres, and in every API     *)
(* server a snapshot that the feed reads.  A server publishes a snapshot   *)
(* after an edit it served and whenever its refresher reads the row; both  *)
(* are a statement followed by a store into the server's memory, and       *)
(* nothing orders the stores of one server.                                *)
(***************************************************************************)
EXTENDS Naturals

CONSTANTS
  Servers,
  Editors,       \* request goroutines that serve a PATCH
  Knobs,         \* the settings of the row
  MaxEdits,      \* bound: edits per behaviour
  MaxRestarts    \* bound: restarts of a server per behaviour

VARIABLES
  row,           \* settings.feed; every edit writes a value of its own
  live,          \* the snapshot each server's feed works with
  editor,        \* where each PATCH is
  refresher,     \* where each server's refresh is
  edits, restarts

vars == <<row, live, editor, refresher, edits, restarts>>

\* Edits number their values; 0 is the default, 1 what the migration stored.
Snapshot == [Knobs -> 0..(MaxEdits + 1)]
Default == [k \in Knobs |-> 0]

TypeOK ==
  /\ row \in Snapshot
  /\ live \in [Servers -> Snapshot]
  /\ editor \in [Editors -> [pc : {"idle", "stored"}, at : SUBSET Servers, snapshot : Snapshot]]
  /\ refresher \in [Servers -> [pc : {"idle", "read"}, snapshot : Snapshot]]
  /\ edits \in 0..MaxEdits
  /\ restarts \in 0..MaxRestarts

Quiet == [pc |-> "idle", snapshot |-> Default]
NoEdit == [pc |-> "idle", at |-> {}, snapshot |-> Default]

Init ==
  /\ row = [k \in Knobs |-> 1]
  /\ live = [s \in Servers |-> Default]
  /\ editor = [e \in Editors |-> NoEdit]
  /\ refresher = [s \in Servers |-> Quiet]
  /\ edits = 0
  /\ restarts = 0

-----------------------------------------------------------------------------
(* The row.                                                                *)

OutOfRange == MaxEdits + 2

\* What a PATCH may name, in range or not; the conversions keep every value.
Asked == UNION {[ks -> {edits + 2, OutOfRange}] : ks \in SUBSET Knobs}

\* Validate, IsEmpty: 400 for a request that names nothing, or a value that is
\* out of its knob's range.  Nothing is clamped.
Validate(update) ==
  /\ DOMAIN update # {}
  /\ \A k \in DOMAIN update : update[k] # OutOfRange

\* GetFeedSettings: the one row, which the migration made.
GetFeedSettings == row

\* UpdateFeedSettings, one statement: the row keeps what is not named.
Coalesced(update) == [k \in Knobs |-> IF k \in DOMAIN update THEN update[k] ELSE row[k]]

-----------------------------------------------------------------------------
(* Edits, and the stores into the servers' memories.                       *)

\* UpdateFeedSettings of the service
Edit(e, s) ==
  /\ editor[e].pc = "idle"
  /\ edits < MaxEdits
  /\ edits' = edits + 1
  /\ \E update \in Asked :
       /\ Validate(update)
       /\ row' = Coalesced(update)
       /\ editor' = [editor EXCEPT ![e] =
            [pc |-> "stored", at |-> {s}, snapshot |-> row']]
  /\ UNCHANGED <<live, refresher, restarts>>

\* publish: the row as the statement returned it.
Publish(e) ==
  /\ editor[e].pc = "stored"
  /\ live' = [s \in Servers |-> IF s \in editor[e].at THEN editor[e].snapshot ELSE live[s]]
  /\ editor' = [editor EXCEPT ![e] = NoEdit]
  /\ UNCHANGED <<row, refresher, edits, restarts>>

\* Refresh; a read that fails leaves the last snapshot until the next tick.
Read(s) ==
  /\ refresher[s].pc = "idle"
  /\ refresher' = [refresher EXCEPT ![s] = [pc |-> "read", snapshot |-> GetFeedSettings]]
  /\ UNCHANGED <<row, live, editor, edits, restarts>>

\* Mutant: a refresh only ever fills in for the defaults.
ApplyOnce(s) ==
  /\ refresher[s].pc = "read"
  /\ live' = IF live[s] = Default THEN [live EXCEPT ![s] = refresher[s].snapshot] ELSE live
  /\ refresher' = [refresher EXCEPT ![s] = Quiet]
  /\ UNCHANGED <<row, editor, edits, restarts>>

Apply(s) ==
  /\ refresher[s].pc = "read"
  /\ live' = [live EXCEPT ![s] = refresher[s].snapshot]
  /\ refresher' = [refresher EXCEPT ![s] = Quiet]
  /\ UNCHANGED <<row, editor, edits, restarts>>

\* A server comes up with the defaults and refreshes; what it was doing is
\* gone, though not what it had stored.
Restart(s) ==
  /\ restarts < MaxRestarts
  /\ restarts' = restarts + 1
  /\ live' = [live EXCEPT ![s] = Default]
  /\ refresher' = [refresher EXCEPT ![s] = Quiet]
  /\ editor' = [e \in Editors |-> IF s \in editor[e].at THEN NoEdit ELSE editor[e]]
  /\ UNCHANGED <<row, edits>>

Next ==
  \/ \E e \in Editors : Publish(e) \/ \E s \in Servers : Edit(e, s)
  \/ \E s \in Servers : Read(s) \/ Apply(s) \/ Restart(s)

Spec == Init /\ [][Next]_vars

\* The refreshers tick and their reads do not fail for ever; a PATCH that has
\* stored its edit goes on.
FairSpec ==
  /\ Spec
  /\ \A s \in Servers : WF_vars(Read(s) \/ Apply(s))
  /\ \A e \in Editors : WF_vars(Publish(e))

-----------------------------------------------------------------------------
Current == \A s \in Servers : live[s] = row

(* Once the operators are done, every server's feed ends up on the row and *)
(* stays there, whichever server served the edits, however an older read   *)
(* was overtaken by a newer one, and after a restart.                      *)
Converges == <>[]Current
=============================================================================
