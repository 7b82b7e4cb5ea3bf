SPECIFICATION Spec
CONSTANT MaxGenerations = 6
CHECK_DEADLOCK FALSE
INVARIANTS
  StartsClean
  AllOrNothing
  HooksBacked
  QuietWhenUnmapped
