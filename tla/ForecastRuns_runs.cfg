SPECIFICATION FairSpec
CONSTANTS
  MaxTs = 2
  Pollers = {p1, p2}
  Batchers = {b1}
  KeyPrefix <- ForecastsPrefix
  MaxRetryCount = 1
  MaxAttempts = 3
  MaxRuns = 3
  MaxJobs = 2
  MaxExtras = 1
INVARIANTS WorkIsBounded RunsAreCreated
PROPERTIES WrittenIsDispatched
CHECK_DEADLOCK FALSE
