SPECIFICATION API
CONSTANTS
  ListRows <- MCListRows
  DefaultLimit = 2
  MaxLimit = 3
  MaxPages = 3
  Locations <- MCLocations
  Batches <- MCBatches
  NowcastHorizon = 2
  NowcastHealthyAge = 0
  NowcastDegradedAge = 1
  MediumRangeHealthyAge = 1
  MediumRangeDegradedAge = 2
  Steps <- MCSteps
  Retention <- MCRetention
  MaxTime = 3
INVARIANTS AnswersHold ReadsAreSound WalksHold
