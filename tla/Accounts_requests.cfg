\* A founder and two invitees, two requests at a time, five in all.
CONSTANTS
  Founder = f
  Invitees = {u, v}
  NoUser = none
  Sessions = {s1, s2}
  Requests = {r1, r2}
  MaxTokens = 2
  MaxRequests = 5
SYMMETRY Symmetry
SPECIFICATION Spec
INVARIANTS Consistent
PROPERTIES OwnersOutliveFreshChecks StepsAreAuthorized
CHECK_DEADLOCK FALSE
