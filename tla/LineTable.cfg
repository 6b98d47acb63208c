SPECIFICATION FairSpec
CONSTANTS
  Codes <- MCCodes
  Offsets <- MCOffsets
INVARIANTS
  SpansOrdered
  SearchNarrows
  LookupExact
  LookupMatchesSource
  CutTableNeverLies
PROPERTIES
  LookupReturns
