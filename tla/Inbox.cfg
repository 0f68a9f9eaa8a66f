SPECIFICATION Spec
CONSTANTS
  f = f
  u = u
  c = c
  Activities = {f, u, c}
  Kind <- SenderKinds
  Requests = {r1, r2}
  Workers = {w1, w2}
  QueueSize = 1
  AutoAccept = FALSE
  Nothing = Nothing
  MaxPosts = 3
  MaxCrashes = 1
  MaxErrors = 1
INVARIANTS
  AtMostOnce
CHECK_DEADLOCK FALSE
