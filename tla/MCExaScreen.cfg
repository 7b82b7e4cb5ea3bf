SPECIFICATION ScreenSpec
CONSTANTS
  p1 = p1
  p2 = p2
  Pixmaps <- Names
  MemoryBase = 100
  MemorySize = 8
  OffScreenBase = 4
  MemPhysBase = 1000
  Heap <- HeapAddresses
  Tile = 2
  OffsetAlign = 4
  PitchAlign = 2
  MaxPitch = 4
  IntRange = 16
  Shapes <- CreateShapes
  NewShapes <- ModifyShapes
  DevKinds = {2}
  PixData <- Data
  Mem <- Buffers
  NoMem = NoMem
SYMMETRY Symmetry
INVARIANTS
  GpuTypeOK
  NoRace
  DrawsWhatWasAsked
  IdleIsFlushed
  ReleasedIsIdle
  NoSharedByte
