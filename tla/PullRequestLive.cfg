SPECIFICATION FairSpec
CONSTANTS
  d1 = d1
  d2 = d2
  o1 = o1
  o2 = o2
  Deliveries = {d1, d2}
  OfferDeliveries = {o1, o2}
  HeadOf <- OneHead
  RetireAttempts = 2
  Deadline = 0
  Grace = 0
  MaxChecks = 3
  MaxReviews = 4
  MaxFaults = 1
CONSTRAINT AnyTwo
PROPERTY EveryReviewEnds
PROPERTY EveryStoredCheckCompletes
PROPERTY EveryOfferAnswered
CHECK_DEADLOCK FALSE
