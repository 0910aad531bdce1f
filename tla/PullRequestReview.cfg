SPECIFICATION Spec
CONSTANTS
  d1 = d1
  d2 = d2
  o1 = o1
  o2 = o2
  Deliveries = {d1, d2}
  OfferDeliveries = {}
  HeadOf <- NoHeads
  RetireAttempts = 2
  Deadline = 0
  Grace = 0
  MaxChecks = 5
  MaxReviews = 4
  MaxFaults = 2
SYMMETRY Requests
INVARIANT PostedOnce
INVARIANT CheckTellsTheTruth
INVARIANT NoCheckForgotten
INVARIANT OneGenerationPerDelivery
INVARIANT ReviewsAreOwned
PROPERTY RetiredStaysClosed
PROPERTY CurrentOnlyAdvances
CHECK_DEADLOCK FALSE
