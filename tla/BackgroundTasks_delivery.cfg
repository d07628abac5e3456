SPECIFICATION Spec
CONSTANTS
  Procs = {p1, p2}
  Tasks = {t1, t2}
  Sessions = {s1, s2}
  NoProc = NoProc
  MaxWakeups = 1
  NoSession = NoSession
  MaxInputs = 3
INVARIANTS TypeOK  RecordsAreTrue UntoldIsMissed
 
SYMMETRY Symmetric
CHECK_DEADLOCK FALSE
