SPECIFICATION DrainSpec
CONSTANTS
  WorkerCount = 2
  OwnerCount = 2
  Jobs <- MCJobs
  Routes <- MCRoutes
INVARIANT DoneOutlivesBarrier
CHECK_DEADLOCK FALSE
