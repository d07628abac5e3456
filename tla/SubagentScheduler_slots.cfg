SPECIFICATION SchedFairSpec
CONSTANTS
  Agents = {a1, a2, a3, a4}
  Limits = {1, 2}
  MaxCancels = 2
  MaxResizes = 1
  MaxResets = 1
INVARIANTS
  SchedTypeOK
PROPERTIES
  CapUsedAndKept
  GrantsInOrder
  QueueMovesWhileCountsReal
CHECK_DEADLOCK FALSE
