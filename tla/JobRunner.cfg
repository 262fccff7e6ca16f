CONSTANTS
  f1 = f1
  f2 = f2
  Names <- TwoNames
  NumEngines = 2
  MaxRuns = 2
  MaxCleanups = 2
  MaxCrashes = 1
SPECIFICATION FairSpec
INVARIANTS TypeOK DiskIsTidy MediaIsFresh OutcomeMatchesChat SessionOnlyWhenNeeded
PROPERTIES ImplementsContract EveryRunEnds
CHECK_DEADLOCK FALSE
