SPECIFICATION FairSpec
CONSTANTS
  w1 = w1
  w2 = w2
  a = a
  kn = kn
  kb = kb
  kb2 = kb2
  None = None
  Workers <- MCWorkers
  Clients <- MCClients
  Tasks <- MCTasks
  LaneOf <- MCLaneOf
INVARIANTS QuietAfterShutdown
PROPERTIES ImplementsMailbox EveryTaskSettles
CHECK_DEADLOCK FALSE
