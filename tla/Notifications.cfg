\* Two requests, one stream whose channel holds one event, a notification of
\* another user and an announcement, two changes.
SPECIFICATION FairSpec
CONSTANTS
  Nobody = Nobody
  Requests = {a, b}
  Streams = {c}
  Notes = {n1, n2}
  System = {n2}
  Buffer = 1
  MaxChanges = 2
INVARIANTS NoPanic NothingMissed
PROPERTIES StreamsEnd
CHECK_DEADLOCK FALSE
