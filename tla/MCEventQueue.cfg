SPECIFICATION Spec
CONSTANTS
  n1 = n1
  n2 = n2
  n3 = n3
  NULL = NULL
  Nodes <- Heap
  MaxEvents = 8
INVARIANTS
  TailEndsQueue
  NodesAccounted
  EventsKeepTheirContent
PROPERTIES
  ImplementsFIFO
