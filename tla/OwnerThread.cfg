SPECIFICATION FairSpec
CONSTANTS
  a = a
  b = b
  k1 = k1
  k2 = k2
  k3 = k3
  Own = Own
  None = None
  Clients <- MCClients
  Tasks <- MCTasks
INVARIANTS StopLeavesNothing
PROPERTIES ImplementsMailbox EverythingHappens
CHECK_DEADLOCK FALSE
