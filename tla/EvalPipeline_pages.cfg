\* Two workers and pages that WatchPoints join and leave: whether what is
\* dispatched is evaluated.  What a forecast says does not matter to that.
SPECIFICATION FairSpec
CONSTANTS
  Workers = {w1, w2}
  WatchPoints <- TwoWatchPoints
  MaxRun = 2
  MaxVersion = 1
  Readings <- OnlyBelow
  NotifyOnClear = TRUE
  Cooldown = 1
  PageSize = 1
  MaxPages = 2
  MaxReceive = 2
  MaxDispatch = 1
  DuplicateDelivery = FALSE
  Unreadable <- SecondRun
  MaxClock = 0
  MaxFaults = 2
  MaxChurn = 2
PROPERTIES DispatchedIsEvaluated
CHECK_DEADLOCK FALSE
