CONSTANTS
  u1 = u1
  u2 = u2
  ig = ig
  fb = fb
  t1 = t1
  t2 = t2
  Users <- OneUser
  Platforms <- OnePlatform
  Tokens <- TwoTokens
  TTL = 2
  MaxTime = 2
  MaxPosts = 2
  MaxRestarts = 1
SPECIFICATION Spec
INVARIANTS OneTimeUse

