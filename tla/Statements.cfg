SPECIFICATION Spec
CONSTANTS
  Codes <- MCCodes
  MaxDecorators = 2
INVARIANTS Recompiles NothingPending RunAhead
PROPERTIES EmittedStays AllRead
CHECK_DEADLOCK FALSE
