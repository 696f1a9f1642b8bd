SPECIFICATION Spec
CONSTANTS
  Keys = {"i", "j", "k"}
  Vals = {0, 1}
  MaxEntries = 3
  Roots = 2
  Names = {"a", "b"}
  Leaves = {1}
  MaxHeap = 5
  MaxTree = 3
  Callers = {"c"}
  Server = "s"
  Posts = {"p"}
  Timers = {"t"}
  Nothing = "-"
  MaxGen = 2
  Callbacks = {"a", "b"}
  Waiter = "w"
  Writers = {"a", "b", "c"}
  Loose = {"c"}
  Parts = 1
  Retries = 1
  Observers = {"a", "b"}
  ValueOf <- MCValueOf
  Bounds <- MCBounds
  Owners = {"p"}
  MaxScrapes = 2
  WorkerCount = 2
  OwnerCount = 2
  Jobs = {"j"}
  Routes <- MCRoutes
  Results = {"a", "b", "v", "w"}
  VoidResults = {"v", "w"}
  Payloads = {"x", "y"}
  MaxItems = 3
  MaxNow = 2
  MaxNested = 4
  Loggers = {"s", "t"}
  MaxNodes = 5
  MaxCalls = 3
  Paths <- MCPaths
INVARIANTS
  IndexExact
  WireSound
  JsonRoundTrip
  NumbersSurvive
  FlagHonest
  TimersExact
  DoorHolds
  DrainedIsTaken
  AcceptedIsReturned
  ScrapeSound
  TreeSound
PROPERTIES
  MergeOwnsResult
  CancelIsFinal
  ImplementsCell
  ManualOrder
CHECK_DEADLOCK FALSE
