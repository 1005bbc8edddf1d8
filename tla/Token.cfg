SPECIFICATION FairSpec
CONSTANTS
  Calls = {c1, c2}
  Tokens = {ours, foreign}
  Ours = {ours}
  None = None
  MaxEntries = 1
  TTL = 2
  MaxTime = 2
INVARIANT TypeOK
INVARIANT VerdictsAreSound
PROPERTY CallsAreAnswered
