SPECIFICATION Spec
CONSTANTS
  Digests = {d1, d2}
  Tags = {t}
  NoDigest = NoDigest
  NoTag = NoTag
  Owner = Owner
  Rival = Rival
  Requests = {r1, r2}
  Workers = {w1, w2}
  Budgets <- ContentBudgets
SYMMETRY Symmetry
INVARIANTS
  NoOrphans
  GoneIsTombstoned
  SourceIsOwner
  MirrorComplete
  WithdrawnIsRetracted
CHECK_DEADLOCK FALSE
