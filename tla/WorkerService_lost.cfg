CONSTANTS
  j1 = j1
  j2 = j2
  j3 = j3
  w1 = w1
  w2 = w2
  Jobs <- TwoJobs
  Workers <- TwoWorkers
  OneShot <- SecondOneShot
  MaxAttempts = 2
  RunErrors <- MCRunErrors
  MaxCrashes = 1
  MaxEscapes = 0
  NoJob = NoJob
  Me = w1
SPECIFICATION FairRunsSpec
PROPERTIES JobsReachAnOutcome
