SPECIFICATION Spec
CONSTANTS
  Width = 5
  Height = 3
  Packets <- MCPackets
  Shape <- MCShape
  DrawAt <- MCDrawAt
  MaxPackets = 3
  MaxDraws = 2
INVARIANTS
  TypeOK
  DriverFollowsMouse
  LeftButtonIsPaired
  PointerLeavesNoTrace
CHECK_DEADLOCK FALSE
