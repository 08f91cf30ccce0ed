SPECIFICATION Spec
CONSTANTS
  Ids = {a, b, c}
  Root = Root
  Calls = {i, j}
  Limits = {1, 3}
  MaxGenerations = 2
  MaxResumed = 1
  MaxBatch = 2
  RemovesJoined = FALSE
SYMMETRY Symmetry
INVARIANTS TreeIntact JoinTargetsCurrent NestedJoinsClosed
PROPERTIES GrowsWithinCapacity
CHECK_DEADLOCK FALSE
