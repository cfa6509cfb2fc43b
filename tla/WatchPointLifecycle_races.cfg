\* Two requests at once, billing enforcement, and Stripe events in any order.
SPECIFICATION Spec
CONSTANTS
  MaxCreated = 3
  Requests = {r1, r2}
  Settings = {s1, s2}
  Ends <- FirstTick
  Plans = {free, pro}
  PlanLimit <- SmallLimits
  FreePlan = free
  PaymentGrace = 0
  OverageGrace = 0
  MaxVersion = 3
  MaxRequests = 3
  MaxEvents = 2
  MaxTime = 2
SYMMETRY Interchangeable
INVARIANTS VersionIdentifiesSettings SubscriptionIsNewest OvershootBounded
PROPERTIES DeletedStaysDeleted OnlyBillingPausesAreLifted
CHECK_DEADLOCK FALSE
