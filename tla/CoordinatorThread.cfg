SPECIFICATION FairSpec
CONSTANTS
  a = a
  kn = kn
  kb = kb
  late = late
  soon = soon
  Own = Own
  MaxTime = 2
  Clients <- MCClients
  Tasks <- MCTasks
  LaneOf <- MCLaneOf
  Timers <- MCTimers
  Repeating <- MCRepeating
  IntervalOf <- MCIntervalOf
INVARIANTS NoOversleep CancelHolds
PROPERTIES ImplementsMailbox EverythingHappens
CHECK_DEADLOCK FALSE
