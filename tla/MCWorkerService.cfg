SPECIFICATION FairSpec
CONSTANTS
  n1 = n1
  n2 = n2
  s1 = s1
  Handlers = {h1}
  Streams = {s1}
  Nodes = {n1, n2}
  None = None
  Invalid = Invalid
  Missing = Missing
  Assigned <- Moved
  MaxVersion = 2
  MaxRevision = 1
  MaxJobs = 2
  Required = TRUE
INVARIANTS
  ServiceInv
PROPERTIES
  StartsOnlyAssigned
  ShutdownCompletes
CHECK_DEADLOCK FALSE
