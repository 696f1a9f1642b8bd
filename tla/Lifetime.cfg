SPECIFICATION FairSpec
CONSTANTS
  owner = owner
  io = io
  c1 = c1
  c2 = c2
  c3 = c3
  NoThread = NoThread
  Threads <- MCThreads
  Calls <- MCCalls
  MaxGeneration = 2
INVARIANTS NoneRunsAfterReturn
PROPERTY InvalidateReturns
CHECK_DEADLOCK FALSE
