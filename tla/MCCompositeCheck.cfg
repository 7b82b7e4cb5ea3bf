SPECIFICATION Spec
CONSTANTS
  Ops <- SomeOps
  Sources <- SomeSources
  Masks <- SomeMasks
  Targets <- SomeTargets
  NoPicture = NoPicture
  MinArea = 3
  MaxSide = 4
  Reach = 6
INVARIANTS
  PrepareAccepts
  ReadAsPictured
  SampledAsRendered
