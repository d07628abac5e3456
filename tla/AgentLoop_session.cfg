SPECIFICATION FairSpec
CONSTANTS
  Calls = {c1}
  Tasks = {t1}
  MaxTurns = 2
  Modes = {"continue", "pause"}
  MaxWork = 5
  MaxEnds = 2
INVARIANTS
  TypeOK
  TranscriptPaired
  EndIsTruthful
  IdleSettledIsSeen
PROPERTIES
  CancelEndsRun
CHECK_DEADLOCK FALSE
