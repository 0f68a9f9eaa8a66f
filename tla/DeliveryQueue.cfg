SPECIFICATION Spec
CONSTANTS
  d1 = d1
  d2 = d2
  d3 = d3
  x1 = x1
  Deliveries = {d1, d2}
  Domains = {x1}
  NoDomain = NoDomain
  InboxDomain <- OneDomain
  MaxAttempts = 2
  Threshold = 2
  BatchSize = 2
  MaxRestarts = 1
  MaxErrors = 1
INVARIANTS
  SnapshotFresh
  BreakerCoherent
PROPERTIES
  LedgerSpec
SYMMETRY Symmetry
