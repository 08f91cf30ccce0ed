SPECIFICATION DelegationSpec
CONSTANTS
  p = p
  a = a
  b = b
  c = c
  root = root
  Tasks <- MCTasks
  Parent <- MCParent
  Root <- root
  Limits = {1, 2}
  ParallelCalls = FALSE
INVARIANTS DelegationTypeOK SlotsAccounted YieldsToAwaited
PROPERTIES ImplementsSlotPool EveryoneServed
CHECK_DEADLOCK FALSE
