SPECIFICATION FairSpec
CONSTANTS
  keeper = keeper
  caller = caller
  p1 = p1
  t1 = t1
  t2 = t2
  Own = Own
  Keeper = keeper
  Clients <- MCClients
  Callers <- MCCallers
  Posts <- MCPosts
  Timers <- MCTimers
  Delays <- MCDelays
  MaxTime = 1
INVARIANTS DeadlineOrder RestAfterStop
PROPERTIES ImplementsMailbox EverythingHappens
CHECK_DEADLOCK FALSE
