SPECIFICATION Spec
CONSTANTS
  m1 = m1
  m2 = m2
  d1 = d1
  Digests = {d1}
  Images = {m1, m2}
  Layers <- SharedLayer
  Clients = {p1, p2}
  NoDigest = NoDigest
  Reuse = FALSE
  MaxPushes = 3
  MaxEvents = 2
SYMMETRY PushSymmetry
INVARIANTS
  ImageKept
