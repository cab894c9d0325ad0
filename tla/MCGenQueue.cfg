SPECIFICATION FairSpec
CONSTANTS
  Workers = {w1, w2}
  Structs = {s1, s2, s3}
  NULL = NULL
  MaxClears = 2
CHECK_DEADLOCK FALSE
INVARIANTS
  OneOwner
  PoolComplete
  FreshQueueWhole
PROPERTY
  PushReturns
