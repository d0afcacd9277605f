SPECIFICATION FairSpec
CONSTANTS
  URLs = {a, b, d, x}
  Allowed = {a, b, d}
  Callers = {r1}
  Loaders = {l1, l2}
  MaxEntries = 2
  MaxConcurrent = 1
  SuccessTTL = 1
  FailureTTL = 1
  MaxTime = 1
INVARIANTS
  CacheInv
PROPERTIES
  FailureRemembered
  LoadsEnd
CHECK_DEADLOCK FALSE
