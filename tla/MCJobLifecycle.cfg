SPECIFICATION FairSpec
CONSTANTS
  Streams = {s1, s2}
  NoStream = NoStream
  MaxReceipts = 1
  TTL = 1
  MaxClock = 3
  MaxGeneration = 3
  MaxConnection = 2
INVARIANTS
  TypeOK
  OwnsExactlyItsJob
  StopFence
  SessionFence
  FailureHitsOnlyItsJob
  AckedStopIsDurable
PROPERTIES
  LifecycleProgress
  StartsOnlyAssigned
  EndedJobLeavesReceipt
