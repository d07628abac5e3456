SPECIFICATION SchedFairSpec
CONSTANTS
  Agents = {a1, a2, a3}
  Limits = {1, 2}
  MaxCancels = 1
  MaxResizes = 1
  MaxResets = 0
PROPERTY
  QueueKeepsMoving
CHECK_DEADLOCK FALSE
