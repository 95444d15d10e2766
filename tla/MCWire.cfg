SPECIFICATION WireFairSpec
CONSTANTS
  HeaderSize = 2
  NewWndWords = 2
  Sizes = {2, 4, 6}
  MaxRequestSize = 6
  ReqbufInitSize = 5
  SocketSize = 5
  MaxRequests = 3
INVARIANTS
  StreamIsWhole
PROPERTIES
  WrittenIsHandled
CHECK_DEADLOCK FALSE
