SPECIFICATION FairSpec
CONSTANTS
  ui = ui
  worker = worker
  k1 = k1
  None = None
  Callers <- MCCallers
  Gated <- MCGated
  loop = loop
  Servers <- MCServers
  Loop = loop
  Others <- MCOthers
  MayThrow = TRUE
  MaxEpoch = 1
  MaxPosts = 2
INVARIANTS RanOnce NoDanglingTask StandInAlone
PROPERTIES CallReturns
CHECK_DEADLOCK FALSE
