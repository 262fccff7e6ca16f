CONSTANTS
  u1 = u1
  u2 = u2
  ig = ig
  fb = fb
  t1 = t1
  t2 = t2
  Users <- OneUser
  Platforms <- OnePlatform
  Tokens <- TwoTokens
  TTL = 1
  MaxTime = 3
  MaxPosts = 1
  MaxRestarts = 0
SPECIFICATION Spec
INVARIANTS ExpiredLinkIsRefused

