SPECIFICATION TreeSpec
CONSTANTS
  a = a
  b = b
  c = c
  root = root
  NULL = NULL
  Windows <- ThreeWindows
  Width <- Row
  Height <- Flat
  Positions <- RowPositions
SYMMETRY WindowSymmetry
VIEW Relevant
INVARIANTS
  ClipIsFresh
  PointerFindsWhatIsSeen
PROPERTIES
  UncoveredIsExposed
CHECK_DEADLOCK FALSE
