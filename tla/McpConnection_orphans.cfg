SPECIFICATION Spec
CONSTANTS
  Tasks = {t1, t2, t3, t4}
  Clients = {c1, c2, c3}
  None = None
SYMMETRY Symmetry
CONSTRAINT Unexcused
INVARIANTS
  TypeOK
  NoOrphan
CHECK_DEADLOCK FALSE
