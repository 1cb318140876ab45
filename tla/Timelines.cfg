\* Fan-out against rebuilds: one post, two tries, and a follower whose second
\* followee is beyond the cap.  The size of the other half, two posts in
\* timelines of one entry, is in MCTimelines; unfollows are there.  Lists: three rows, pages
\* of one or two.  Reindex: three posts, pages of two.  Codohue: two servers,
\* one of them watched.
SPECIFICATION MCSpec
CONSTANTS
  alice = alice
  bob = bob
  carol = carol
  p1 = p1
  p2 = p2
  NoUser = NoUser
  Users = {alice, bob, carol}
  Posts = {p1}
  Author <- MCAuthor
  MaxItems = 2
  FollowerCap = 2
  FollowingCap = 1
  Pairs <- MCPairs
  Readers = {bob}
  Mutations = {"create", "follow"}
  MaxEvents = 2
  MaxTries = 2
  MaxClock = 2
  MaxExpiries = 0
  Rows = {1, 2, 3}
  Times = {1, 2}
  Limits = {1, 2}
  MaxRows = 1
  MaxListChanges = 2
  Servers = {s1, s2}
  PageSize = 2
  Threshold = 1
  MaxEdits = 2
  MaxFaults = 1
  Watched = {s1}
  MaxLen = 1
  MaxRemakes = 1
  MaxBehaviors = 1
INVARIANTS FanoutsKept NeverSharedStaysPrivate ListingsExact
INVARIANTS ReindexRepairs ProvisioningHonest
CONSTRAINT OneQuestion
CHECK_DEADLOCK FALSE
