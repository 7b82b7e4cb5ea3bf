SPECIFICATION AdaptorSpec
CONSTANTS
  Images <- SomeImages
  Keys <- SomeKeys
  Buffers = 2
  Sides <- SomeSides
INVARIANT ReadAsSent
