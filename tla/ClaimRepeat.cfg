\* Three posts, no failures, an unchanging world: a post is served twice.
SPECIFICATION Spec
CONSTANTS
  Posts = {1, 2, 3}
  PageSize = 2
  MaxTrendingSeen = 40
  MaxDiscoverSeen = 60
  FetchMultiplier = 2
  MaxLikes = 0
  MaxRecs = 3
  MaxFailures = 0
  MaxRebuilds = 0
INVARIANTS ServedOnce
CHECK_DEADLOCK FALSE
