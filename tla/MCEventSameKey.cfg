SPECIFICATION Spec
CONSTANTS
  p1 = p1
  p2 = p2
  k1 = k1
  k2 = k2
  Publishers = {p1, p2}
  Keys = {k1}
  Protected = {k1}
  KeysOf <- SharedKey
  Loop = Loop
  NoOne = NoOne
  MaxPending = 1
  MaxAttempts = 2
  MaxEvents <- FirstTwice
  MaxGeneration = 1
INVARIANTS
  RetryIsNewest
CHECK_DEADLOCK FALSE
