SPECIFICATION FairSpec
CONSTANT
  Codes <- MCCodes
INVARIANTS
  OneAfterAnother
  ReadsBack
  CutThrows
  JumpsLand
PROPERTIES
  Ends
CHECK_DEADLOCK FALSE
