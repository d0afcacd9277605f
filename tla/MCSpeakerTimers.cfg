SPECIFICATION TimerFairSpec
CONSTANTS
  LocalFinalize = 3
  SpeakerIdleClose = 6
  KeepAliveInterval = 2
  Delay = 2
  QueueLength = 2
  ResultLag = 2
  MarkLag = 1
INVARIANTS
  TimerInv
  IdleLosesNothing
PROPERTIES
  SilentSpeakerCloses
CHECK_DEADLOCK FALSE
