\* A lazy rebuild that began before a follow, and the rebuild of the follow itself.
SPECIFICATION Spec
CONSTANTS
  alice = alice
  bob = bob
  p1 = p1
  p2 = p2
  NoUser = NoUser
  Users = {alice, bob}
  Posts = {p1, p2}
  Author <- MCTwoAuthors
  MaxItems = 2
  FollowerCap = 2
  FollowingCap = 2
  Pairs <- MCPairs
  Readers = {bob}
  Mutations = {"create", "follow"}
  MaxEvents = 3
  MaxTries = 1
  MaxClock = 1
  MaxExpiries = 0
INVARIANTS FollowsBackfilled
CHECK_DEADLOCK FALSE
