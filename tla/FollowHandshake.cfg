SPECIFICATION FairSpec
CONSTANTS
  a = a
  b = b
  Nodes = {a, b}
  Scenarios <- Pairs
INVARIANTS
  Agreement
PROPERTIES
  MutualConverges
CHECK_DEADLOCK FALSE
