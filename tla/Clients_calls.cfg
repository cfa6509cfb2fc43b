\* Two requests to one of the providers, with a breaker that opens at the second failure.
CONSTANTS
  Requests = {r1, r2}
  Providers = {"stripe", "google", "github", "runpod"}
  TripAfter = 1
  MaxLapses = 1
SYMMETRY Symmetry
SPECIFICATION Spec
INVARIANTS HealthyRequestsSucceed NothingIsDoubled ChoicesAreSafe Consistent
CHECK_DEADLOCK FALSE
