\* One email and one webhook channel, one invocation of each worker.
CONSTANTS
  EmailChannels <- MCEmailChannels
  WebhookChannels <- MCWebhookChannels
  Snapshots <- MCSnapshots
  EmailWorkers = {e}
  WebhookWorkers = {w}
  MaxAttempts = 2
  MaxBounceFailures = 3
  MaxParks = 1
  MaxFaults = 1
SPECIFICATION Spec
INVARIANTS Consistent RulesHold
PROPERTIES ResetAfterExhaustion Drains
CHECK_DEADLOCK FALSE
