SPECIFICATION FairSpec
CONSTANTS
  Keys = {k1, k2, k3}
  Unknown = Unknown
  ChunkSize = 2
  MaxRetries = 10
  Backoff = 1
  Multiplier = 2
  MaxWait = 30
  RunningTimeout = 300
  MaxExecutions = 2
CHECK_DEADLOCK FALSE
INVARIANTS TypeOK OkLeavesOnlyDropped DeadNamesTheRest LadderWithinTimeout
PROPERTIES ExecutionWindsDown ExecutionEnds
