SPECIFICATION AdaptorSpec
CONSTANTS
  Images <- SomeImages
  Keys <- SomeKeys
  Buffers = 2
  Sides <- SomeSides
INVARIANTS
  TypeOK
  OneTask
  ShownInPlace
  KeyMatches
  BufferExists
  MutexReturned
  PlanesHold
PROPERTIES
  PutImageReturns
