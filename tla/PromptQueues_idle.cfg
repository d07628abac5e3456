SPECIFICATION Spec
CONSTANTS
  Sessions = {s1, s2}
  None = None
  MaxQueue = 2
  MaxPrompts = 3
SYMMETRY Symmetric
INVARIANTS
  TypeOK
  IdleIsDone
  SentAsTyped
CHECK_DEADLOCK FALSE
