SPECIFICATION Spec
CONSTANT
  Codes <- MisreadCodes
INVARIANTS
  Recompiles
CHECK_DEADLOCK FALSE
