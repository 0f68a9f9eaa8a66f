SPECIFICATION FairLinkSpec
CONSTANTS
  f = f
  u = u
  c = c
  e = e
  Activities = {f, c}
  Kind <- FollowAndContent
  Requests = {r1, r2}
  Workers = {w1}
  QueueSize = 4
  AutoAccept = TRUE
  Nothing = Nothing
  MaxPosts = 4
  MaxCrashes = 0
  MaxErrors = 1
  MaxAttempts = 2
INVARIANTS
  DeliveredNotLost
PROPERTIES
  ProcessedOrFailed
CHECK_DEADLOCK FALSE
