SPECIFICATION Spec
CONSTANTS
  Callers = {c1}
  QueueBatches = 2
  QueuePackets = 3
  QueueBytes = 3
  RetryMax = 2
  Kinds <- Two
  MaxConnection = 2
  MaxJobs = 2
  MaxIngress = 2
  MaxBatches = 2
INVARIANTS
  IngressInv
  AudioFence
  PacketsAccounted
CHECK_DEADLOCK FALSE
