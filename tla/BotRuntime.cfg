CONSTANTS
  u1 = u1
  u2 = u2
  ig = ig
  Users <- TwoUsers
  Group = Group
  Platforms <- OnePlatform
  Asked <- BranchRequests
  MaxUpdates = 2
  MaxCrashes = 1
  MaxFaults = 1
SPECIFICATION FairSpec
INVARIANTS TypeOK AccountsStayPrivate JobsAreTheSenders JobsPerUpdate EffectsAreTold
PROPERTIES EveryUpdateEnds
