SPECIFICATION PixSpec
CONSTANTS
  p1 = p1
  p2 = p2
  p3 = p3
  Pixmaps <- Names
  MemoryBase = 100
  MemorySize = 24
  OffScreenBase = 3
  MemPhysBase = 1000
  Heap <- HeapAddresses
  Tile = 2
  OffsetAlign = 4
  PitchAlign = 2
  MaxPitch = 6
  IntRange = 32
  Shapes <- CreateShapes
  NewShapes <- ModifyShapes
  DevKinds = {0, 5}
  PixData <- Data
SYMMETRY Symmetry
INVARIANTS
  PixTypeOK
  AddressesAgree
  NothingLeaks
  TilesInside
  PlacedIsUsable
  ClientsApart
