CONSTANTS
  j1 = j1
  j2 = j2
  u1 = u1
  u2 = u2
  Jobs <- TwoJobs
  Users <- TwoUsers
  Posts <- SomePosts
  MaxFile = 1
  Thumbnails = {2}
  MaxTemp = 4
  MaxCleanups = 1
  MaxCrashes = 1
SPECIFICATION Spec
INVARIANTS TypeOK AdmittedFit SentFits SentAsItself QuotaIsPerUser CleanupIsComplete
SYMMETRY Symmetry
CHECK_DEADLOCK FALSE
