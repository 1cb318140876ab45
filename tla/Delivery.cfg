\* Outbox: no pauses, so the deadlines bind; the lease is just longer than them.
\* Timelines: one post and its follower; the sizes are in MCDelivery.
SPECIFICATION MCSpec
CONSTANTS
  alice = alice
  bob = bob
  p1 = p1
  NoUser = NoUser
  Events = {1, 2}
  Instances = {i1, i2}
  OutboxWorkers = 1
  MaxAttempts = 2
  BackoffExpCap = 1
  LeaseTicks = 3
  ClaimTicks = 0
  HandlerTicks = 1
  PersistTicks = 1
  Stalls = FALSE
  MaxFaults = 2
INVARIANTS ExclusiveHandling
PROPERTIES Settles FanoutArrives
CHECK_DEADLOCK FALSE
