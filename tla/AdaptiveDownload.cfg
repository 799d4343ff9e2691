SPECIFICATION FairSpec
CONSTANTS
  Task = {t1, t2, t3}
  Unknown = Unknown
  MaxSize = 1
  MAX_CONCURRENCY = 5
  MIN_CONCURRENCY = 1
  InitialConcurrency = 4
  UPDATE_CONCURRENCY_EVERY = 5
  MAX_TIMEOUTS_AT_MIN_CONCURRENCY = 2
INVARIANTS OkMeansComplete ProgressIsExact GivesUpInTime
PROPERTY Ends
CHECK_DEADLOCK FALSE
