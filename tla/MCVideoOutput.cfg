SPECIFICATION Spec
CONSTANTS
  Callers = {c1}
  NoOne = NoOne
  MaxSessions = 2
INVARIANTS
  ConnectionInv
PROPERTIES
  ShutdownSparesFrames
  ImplementsContract
  OutputProgress
