CONSTANTS
  u1 = u1
  u2 = u2
  ig = ig
  Users <- OneUser
  Group = Group
  Platforms <- OnePlatform
  Asked <- Requests
  MaxUpdates = 2
  MaxCrashes = 0
  MaxFaults = 0
SPECIFICATION Spec
INVARIANTS NoSilentFailure
