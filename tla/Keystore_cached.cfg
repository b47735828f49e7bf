SPECIFICATION FairSpec
CONSTANTS
  Worker = {w1, w2}
  Cleaner = {c1, c2}
  MaxKeys = 2
  MaxKills = 1
  Retries = 2
INVARIANT TypeOK
INVARIANT UsesSourceKey
PROPERTY KeyComes
PROPERTY BrokenHeals
PROPERTY LastKeyStays
CHECK_DEADLOCK FALSE
