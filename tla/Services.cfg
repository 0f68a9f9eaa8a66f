SPECIFICATION ServicesSpec
CONSTANTS
  Uploads = {u1}
  Requests = {r1, r2}
  Cleaners = {k1}
  NoUpload = NoUpload
  Nobody = Nobody
  Blob <- OneChunk
  UploadBudgets <- SmallBudgets
  Pulls = {p1, p2}
  NoDigest = NoDigest
  Digests = {d1, d2}
  Threshold = 2
  Image = Image
  Index = Index
  Layer = Layer
  Target = Target
  Other = Other
  Images <- ImageAndIndex
  Layers <- OneLayer
  Children <- OneEntry
  Targets = {Target, Other}
  Setups <- FiveSetups
  Bases <- TwoBases
  Scenarios <- SixScenarios
  Manifests <- ImagesAndReport
  TagNames <- ThreeTags
  Parts <- OneParent
  Subject <- OneReferrer
  Clients = {c1, c2}
  Policies <- ThreePolicies
  QueueSize = 2
  Pushers = {c1, c2}
  None = None
  Report = Report
  Stable = Stable
  Nightly = Nightly
  Latest = Latest
  MaxStarts = 3
INVARIANTS
  NoLockCycle
  CommitUndisturbed
  NobodyStranded
  FaultlessServed
  PrivateBeforeReadable
  TargetComplete
  TagFollows
  OneReport
  NothingDangles
  LastNKept
  PublishedAsStored
  UpgradeLosesNothing
PROPERTIES
  StagingReclaimed
CHECK_DEADLOCK FALSE
