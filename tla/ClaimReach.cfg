\* Three posts, no failures: a followed post is outranked and passed over.
SPECIFICATION Spec
CONSTANTS
  Posts = {1, 2, 3}
  PageSize = 2
  MaxTrendingSeen = 40
  MaxDiscoverSeen = 60
  FetchMultiplier = 2
  MaxLikes = 0
  MaxRecs = 1
  MaxFailures = 0
  MaxRebuilds = 0
INVARIANTS FollowedReachable
CHECK_DEADLOCK FALSE
