SPECIFICATION LinkSpec
CONSTANTS
  f = f
  u = u
  c = c
  e = e
  Activities = {c, e}
  Kind <- TwoContents
  Requests = {r1, r2}
  Workers = {w1}
  QueueSize = 1
  AutoAccept = TRUE
  Nothing = Nothing
  MaxPosts = 4
  MaxCrashes = 0
  MaxErrors = 1
  MaxAttempts = 2
INVARIANTS
  DeliveredNotLost
CHECK_DEADLOCK FALSE
