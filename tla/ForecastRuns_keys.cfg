SPECIFICATION FairSpec
CONSTANTS
  MaxTs = 1
  Pollers = {p1}
  Batchers = {b1}
  KeyPrefix <- NoPrefix
  MaxRetryCount = 1
  MaxAttempts = 3
  MaxRuns = 1
  MaxJobs = 2
  MaxExtras = 0
PROPERTY WrittenIsDispatched
CHECK_DEADLOCK FALSE
