SPECIFICATION FairSpec
CONSTANTS
  c1 = c1
  c2 = c2
  u1 = u1
  s1 = s1
  Callers = {c1, c2}
  PacketsOf <- Reconnecting
  Users = {u1}
  SSRCs = {s1}
  NoUser = NoUser
  Loops = {"read", "keepalive"}
  MaxConnections = 1
  MaxGeneration = 2
  MaxLinks = 2
INVARIANTS
  ConnectionInv
  CloseIsComplete
PROPERTIES
  SessionProgress
CHECK_DEADLOCK FALSE
