SPECIFICATION Spec
CONSTANTS
  Columns = 3
  Rows = 3
  Operands1 <- AnyRegion
  Operands2 <- Cutters
INVARIANTS
  RoundsAreExact
  ResultIsBanded
  ArrayIsLargeEnough
  ExtentsAreTight
CHECK_DEADLOCK FALSE
