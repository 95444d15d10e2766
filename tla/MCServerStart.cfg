SPECIFICATION FairSpec
CONSTANTS
  Programs = {"p"}
  Root = "rootwnd"
  Backlog = 2
  MaxEvents = 1
INVARIANTS
  ConnectionsAreTakenRightly
PROPERTIES
  InputIsServed
CHECK_DEADLOCK FALSE
