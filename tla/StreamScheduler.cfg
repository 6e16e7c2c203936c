SPECIFICATION SchedulerSpec
CONSTANTS
  Ids <- FourIds
  MaxStreams = 3
  MaxTasks = 3
  MaxArgs = 2
  MaxCalls = 4
INVARIANTS
  QueueKeepsOrder
CHECK_DEADLOCK FALSE
