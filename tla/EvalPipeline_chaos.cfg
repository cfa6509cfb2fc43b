\* Two workers; messages duplicated, reordered and redelivered; a crash or
\* a failing call; edits between the reads of a worker.
SPECIFICATION Spec
CONSTANTS
  Workers = {w1, w2}
  WatchPoints <- OneWatchPoint
  MaxRun = 2
  MaxVersion = 2
  Readings <- Escalating
  NotifyOnClear = TRUE
  Cooldown = 1
  PageSize = 2
  MaxPages = 1
  MaxReceive = 2
  MaxDispatch = 1
  DuplicateDelivery = TRUE
  Unreadable <- NoRuns
  MaxClock = 1
  MaxFaults = 1
  MaxChurn = 0
SYMMETRY WorkerSymmetry
INVARIANTS RunsInOrder PublishedIsRecorded HistoryIsWhole AlertsAlternate
PROPERTIES LastRunNeverDecreases NotifiedWithState ImplementsAtomicEvaluation
CHECK_DEADLOCK FALSE
