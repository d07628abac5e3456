SPECIFICATION Spec
CONSTANTS
  Procs = {p1, p2}
  Sessions = {s1, s2}
  GoalIds = {g1}
  NoSession = NoSession
  NoGoal = NoGoal
  NoFile = NoFile
  NoOp = NoOp
  Budget = 1
  MaxStarts = 3
  MaxFaults = 1
  MayHappen = {"race"}
INVARIANTS
  TypeOK
PROPERTIES
  WritesWhatItRead
  BudgetStopsCheckpoints
SYMMETRY Symmetric
CHECK_DEADLOCK FALSE
