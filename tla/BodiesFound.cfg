SPECIFICATION Spec
CONSTANT
  Codes <- MCCodes
INVARIANTS
  BodiesFound
CHECK_DEADLOCK FALSE
