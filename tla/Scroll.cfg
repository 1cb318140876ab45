\* Scrolling: four posts, pages of two, one call fails and one trending post
\* moves; seen lists of one and of two, where the code has 40 and 60.  Changing
\* a post: two requests, three changes, one of which may meet a fault.  The
\* shared lists: two viewers, one server and one request.
SPECIFICATION MCSpec
CONSTANTS
  Posts = {1, 2, 3, 4}
  PageSize = 2
  MaxTrendingSeen = 1
  MaxDiscoverSeen = 2
  FetchMultiplier = 1
  MaxLikes = 1
  MaxRecs = 5
  MaxFailures = 1
  MaxRebuilds = 1
  AuthorPosts = {p}
  Viewers = {v1, v2}
  Servers = {s1}
  NoMark = none
  Requests = {r1, r2}
  CatalogChanges = 3
  ListRequests = {r1}
  ListChanges = 2
  MaxFaults = 1
INVARIANTS ScrollExact DiscoverFresh
INVARIANTS ChangesFollowed ListsTrue
PROPERTIES ScrollsEnd
CHECK_DEADLOCK FALSE
