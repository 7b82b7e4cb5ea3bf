SPECIFICATION ListSpec
CONSTANTS
  OffScreenBase = 5
  MemorySize = 16
  CounterMod = 4
  ScoreScale = 6
  Requests <- EvictableRequests
  Records <- AllRecords
  Null = 0
VIEW ByPlace
INVARIANTS
  TypeOK
  Tiling
  NoAdjacentFree
  FreeCounted
  NoSpuriousFailure
  WellLinked
  SearchComplete
  AssertsHold
PROPERTY ImplementsAreas
