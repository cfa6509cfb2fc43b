\* Three requests, each about a batch or an API key, under one idempotency key or none.
CONSTANTS
  Requests = {r1, r2, r3}
  IdempotencyKeys = {k1}
  NoKey = none
  Bodies <- MoreCalls
  MaxWatchPoints = 3
  KeysPerHour = 1
  Never <- Lasts
  FirstKeys <- SomeKey
  MaxDays = 1
SYMMETRY Symmetry
SPECIFICATION Spec
INVARIANTS IdempotencyHolds AnswersHold
CHECK_DEADLOCK FALSE
