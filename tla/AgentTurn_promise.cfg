SPECIFICATION FairSpec
CONSTANTS
  Calls = {c1}
  Indexes = {i1}
  Kinds = {"guarded", "ask"}
  NoCall = NoCall
  RetryDelays = 1
  MaxEmptyRetries = 1
  MaxLengthRecoveries = 1
  MaxInjectionCycles = 1
  MaxChunks = 2
  MaxInjections = 2
PROPERTIES
  KeepsContract
  CancelEndsTurn
CHECK_DEADLOCK FALSE
