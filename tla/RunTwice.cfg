SPECIFICATION Spec
CONSTANTS
  ui = ui
  worker = worker
  k1 = k1
  None = None
  Callers <- MCCallers
  Gated <- MCGated
  loop = loop
  Servers <- MCServers
  Loop = loop
  Others <- MCOthers
  MayThrow = TRUE
  MaxEpoch = 0
  MaxPosts = 2
INVARIANT NeverTwice
CHECK_DEADLOCK FALSE
