SPECIFICATION Spec
CONSTANTS
  Codes <- Misread
  MaxDecorators = 2
INVARIANT Recompiles
CHECK_DEADLOCK FALSE
