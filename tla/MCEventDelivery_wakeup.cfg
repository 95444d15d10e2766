SPECIFICATION FairSpec
CONSTANTS
  w1 = w1
  w2 = w2
  Windows <- OneWindow
  ReqbufSize = 2
  RequestsOf <- EveryRequest
  MaxRequests = 2
  MaxExposures = 1
PROPERTIES
  PendingEventIsPassed
