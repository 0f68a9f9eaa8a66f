SPECIFICATION FairSpec
CONSTANTS
  m1 = m1
  m2 = m2
  d1 = d1
  Digests = {d1}
  Images = {m1}
  Layers <- OneLayer
  Clients = {p1}
  NoDigest = NoDigest
  Reuse = TRUE
  MaxPushes = 2
  MaxEvents = 2
PROPERTIES
  DriftHeals
  OrphansCollected
