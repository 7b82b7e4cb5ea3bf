SPECIFICATION Spec
CONSTANTS
  OffScreenBase = 5
  MemorySize = 21
  CounterMod = 8
  ScoreScale = 840
  Requests <- RaggedRequests
INVARIANT OffsetInside
