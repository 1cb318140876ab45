\* The outbox: two instances, two events, faults of every kind, pauses included.
\* Likes, comments and follows: two requests at a time; a follow may name
\* somebody without an account.
SPECIFICATION MCSpec
CONSTANTS
  Events = {1, 2}
  Instances = {i1, i2}
  OutboxWorkers = 2
  MaxAttempts = 2
  BackoffExpCap = 1
  LeaseTicks = 2
  ClaimTicks = 0
  HandlerTicks = 1
  PersistTicks = 0
  Stalls = TRUE
  MaxFaults = 2
  Author = a
  Users = {a, u}
  Strangers = {s}
SYMMETRY Symmetry
INVARIANTS NoEventLost AttemptsPaidFor CountsExact LikeNotesTrue ListedOnce
PROPERTIES DeadLetterFinal ImplementsDelivery EveryToggleFlips
CHECK_DEADLOCK FALSE
