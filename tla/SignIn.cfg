\* Three wallets, two of them with one mailbox prefix, two requests to verify at
\* a time, and enough challenges for one to take the place of another.
SPECIFICATION FairSpec
CONSTANTS
  w1 = w1
  w2 = w2
  w3 = w3
  p = p
  q = q
  Wallets = {w1, w2, w3}
  Prefix <- Colliding
  Sessions = {s1, s2}
  MaxChallenges = 3
  MaxVerifies = 3
  None = None
INVARIANTS TypeOK OneTenantEach TokensAreTrue ReplayBounded
PROPERTY EverySignInEnds
