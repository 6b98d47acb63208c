SPECIFICATION FairSpec
CONSTANT Files <- MCFiles
INVARIANTS
  NothingHalfLoaded
  ReadBack
  SharingKept
  CutNeverLoads
PROPERTY Stops
CHECK_DEADLOCK FALSE
