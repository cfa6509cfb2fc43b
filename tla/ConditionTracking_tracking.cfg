\* Non-negative thresholds, values around them and their buffers.
SPECIFICATION Tracking
CONSTANTS
  Monitored <- NonNegative
  Points <- Around
  MaxEvaluations = 3
  MaxDelay = 2
  NotifyOnClear = TRUE
  Cooldown = 2
INVARIANTS SeverityAnnounced AtMostOneAlertPerLevel
PROPERTIES ClearedIsNotMet FluctuationKeepsAlert
CHECK_DEADLOCK FALSE
