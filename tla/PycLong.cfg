SPECIFICATION Spec
CONSTANT Longs <- MCLongs
INVARIANTS
  ValueKept
  InBounds
CHECK_DEADLOCK FALSE
