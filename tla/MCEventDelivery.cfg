SPECIFICATION FairSpec
CONSTANTS
  w1 = w1
  w2 = w2
  Windows <- TwoWindows
  ReqbufSize = 2
  RequestsOf <- ShownAndDrawn
  MaxRequests = 4
  MaxExposures = 1
INVARIANTS
  OneRequestOutstanding
  ReturnedInOrder
  EveryEventReturned
PROPERTIES
  BufferedRequestsAreSent
  PendingBeforeRequestIsSent
