SPECIFICATION Spec
CONSTANTS
  Formats = {"npm", "cargo", "pypi", "nuget", "goproxy"}
  Versions = {v1, v2}
  Contents = {c1, c2}
  Publisher = Publisher
  Follower = Follower
  Procs = {p1, p2, p3}
  Budgets <- PackageBudgets
SYMMETRY Symmetry
INVARIANTS
  AckedImmutable
  OwnedContent
  MirrorAgrees
  TagsResolve
CHECK_DEADLOCK FALSE
