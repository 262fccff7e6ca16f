CONSTANTS
  f1 = f1
  f2 = f2
  Names <- TwoNames
  NumEngines = 2
  MaxRuns = 2
  MaxCleanups = 0
  MaxCrashes = 0
SPECIFICATION Spec
INVARIANTS RunNeverRaises
CHECK_DEADLOCK FALSE
