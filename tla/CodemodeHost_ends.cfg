SPECIFICATION FairSpec
CONSTANTS
  r1 = r1
  r2 = r2
  Runs = {r1, r2}
  CallBudget <- Budgets
  MaxCalls <- Tries
INVARIANTS
  TypeOK
  EffectsAccounted
  ReasonIsTrue
PROPERTIES
  WaitsOnlyForTools
CHECK_DEADLOCK FALSE
