SPECIFICATION Spec
CONSTANTS
  Calls = {c1, c2}
  Indexes = {i1, i2}
  Kinds = {"plain", "guarded", "ask", "unknown"}
  NoCall = NoCall
  RetryDelays = 0
  MaxEmptyRetries = 1
  MaxLengthRecoveries = 0
  MaxInjectionCycles = 1
  MaxChunks = 3
  MaxInjections = 0
SYMMETRY Symmetry
INVARIANTS
  TypeOK
  AnsweredInOrder
  NothingRunsUnapproved
  StopReasonIsTrue
  ExecutedIsReported
CHECK_DEADLOCK FALSE
