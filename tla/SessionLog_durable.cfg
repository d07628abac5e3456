SPECIFICATION LogSpec
CONSTANTS
  Procs = {p1, p2}
  First = p1
  Messages = {"user", "assistant"}
  MaxEntries = 3
  MaxFaults = 1
INVARIANTS
  LogTypeOK
  ReloadIsFaithful
PROPERTIES
  LossNeedsCause
SYMMETRY Symmetric
CHECK_DEADLOCK FALSE
