SPECIFICATION Spec
CONSTANTS
  OffScreenBase = 5
  MemorySize = 25
  CounterMod = 4
  ScoreScale = 6
  Requests <- DriverRequests
INVARIANTS
  OffsetInside
  AllocContained
PROPERTIES
  ImplementsPool
  LockedKept
