SPECIFICATION FairSpec
CONSTANTS
  a = a
  b = b
  c = c
  d = d
  Names <- MCNames
  Hashes <- MCHashes
  InitialSize = 2
  NColors = 5
INVARIANTS
  TypeOK
  LookupIsFirstMatch
  OneAtomForEachCode
PROPERTIES
  ProbingEnds
CHECK_DEADLOCK FALSE
