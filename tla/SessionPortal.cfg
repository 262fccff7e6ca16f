CONSTANTS
  u1 = u1
  u2 = u2
  ig = ig
  fb = fb
  t1 = t1
  t2 = t2
  Users <- TwoUsers
  Platforms <- TwoPlatforms
  Tokens <- TwoTokens
  TTL = 2
  MaxTime = 3
  MaxPosts = 2
  MaxRestarts = 1
SPECIFICATION Spec
SYMMETRY Symmetric
INVARIANTS TypeOK SessionsAreOwn LinkIsSpent
PROPERTIES RevokedIsNotRead ExpiryIsNoticed ImplementsStore

