SPECIFICATION FairSpec
CONSTANTS
  o1 = o1
  o2 = o2
  o3 = o3
  x = x
  y = y
  f = f
  Argument = Argument
  Null = Null
  MaxLost = 1
  Objects <- MCObjects
  Fields <- MCFields
  Vars <- MCVars
INVARIANTS
  NoDangling
  EachReferenceCounted
PROPERTY LivesAsLongAsReferred
