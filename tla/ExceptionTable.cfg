SPECIFICATION FairSpec
CONSTANT
  Codes <- MCCodes
INVARIANTS
  InOrder
  CoverageKept
  ReadsBack
  EmptyBodiesFound
PROPERTIES
  Ends
CHECK_DEADLOCK FALSE
