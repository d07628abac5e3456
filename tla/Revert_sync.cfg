SPECIFICATION Spec
CONSTANTS
  Paths = {f1, f2}
  Texts = {a}
  Absent = Absent
  Big = Big
  None = None
  Idle = Idle
  NoTree = NoTree
  MaxMessages = 3
  MaxEdits = 2
  MaxCauses = 1
INVARIANTS TypeOK NeverDesync HandKept
PROPERTIES UnrevertIsExact
SYMMETRY Symmetric
CHECK_DEADLOCK FALSE
