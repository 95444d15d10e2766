SPECIFICATION FairSpec
CONSTANTS
  w1 = w1
  w2 = w2
  w3 = w3
  main = main
  Readers <- ThreeWindows
  Writers <- Mappers
INVARIANTS
  PermitExclusion
  NobodyForgotten
  IInv
PROPERTIES
  WritersFirst
  ImplementsLock
  SomeWriterProgresses
  ReadersServedAfterWriters
