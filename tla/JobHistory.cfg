CONSTANTS
  j1 = j1
  j2 = j2
  j3 = j3
  w1 = w1
  w2 = w2
  Jobs <- ThreeJobs
  Loopers <- OneLooper
  OneShots <- OneOneShot
  MaxAttempts = 2
  Limit = 2
  MaxTime = 3
  MaxRestarts = 1
  NoJob = NoJob
SPECIFICATION Spec
SYMMETRY JobSymmetry
INVARIANTS TypeOK StampsAreOrdered NewestIsShown
CHECK_DEADLOCK FALSE
