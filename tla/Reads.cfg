\* Pages: three posts on two scores, pages of one out of windows of two.
\* Follow set: one author, two requests, two follow or unfollow calls.
\* Process: two requests.
\* Settings: two servers, two editors, two knobs.
SPECIFICATION MCSpec
CONSTANTS
  Posts = {1, 2, 3}
  Scores = {0, 1}
  PageSize = 1
  WindowSize = 2
  MaxChanges = 2
  Authors = {a1}
  Requests = {r1, r2}
  Mutations = {m1, m2}
  Servers = {s1, s2}
  Editors = {e1, e2}
  Knobs = {k1, k2}
  MaxEdits = 2
  MaxRestarts = 1
INVARIANTS PagesExact StaleOnlyByLossOrRace StoresOutliveUse
PROPERTIES EndsReached FollowsReflected Converges
CHECK_DEADLOCK FALSE
