SPECIFICATION Spec
CONSTANT
  Codes <- MCCodes
INVARIANTS
  EachValueOnce
  SourceOrder
  NothingLate
  NothingLeftOpen
  RegularRecompiles
CHECK_DEADLOCK FALSE
