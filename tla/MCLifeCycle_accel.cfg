SPECIFICATION Spec
CONSTANT MaxGenerations = 6
CHECK_DEADLOCK FALSE
INVARIANT AcceleratedHasExa
