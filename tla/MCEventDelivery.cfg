SPECIFICATION FairSpec
CONSTANTS
  p1 = p1
  p2 = p2
  k1 = k1
  k2 = k2
  Publishers = {p1}
  Keys = {k1, k2}
  Protected = {k1}
  KeysOf <- BothKeys
  Loop = Loop
  NoOne = NoOne
  MaxPending = 1
  MaxAttempts = 3
  MaxEvents <- FirstTwice
  MaxGeneration = 3
INVARIANTS
  DeliveryInv
  NewestNotLost
PROPERTIES
  NoRegression
  StopCompletes
CHECK_DEADLOCK FALSE
