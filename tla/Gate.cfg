SPECIFICATION FairSpec
CONSTANTS
  ui = ui
  worker = worker
  p1 = p1
  p2 = p2
  o1 = o1
  r1 = r1
  NoThread = NoThread
  Threads <- MCThreads
  Posts <- MCPosts
  OneShots <- MCOneShots
  Repeaters <- MCRepeaters
  MaxEpoch = 1
INVARIANTS AccountingExact DrainedMeansQuiet
PROPERTIES StaleStaysDead DiscardsOnlyWhenLate QuiesceReturns
CHECK_DEADLOCK FALSE
