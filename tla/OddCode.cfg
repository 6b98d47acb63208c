SPECIFICATION FairSpec
CONSTANT
  Codes <- MCCodes
INVARIANTS
  ArmsAreSaved
  NeverThrows
PROPERTIES
  Terminates
  StatementsStay
CHECK_DEADLOCK FALSE
