SPECIFICATION FairSpec
CONSTANTS
  r1 = r1
  r2 = r2
  k1 = k1
  k2 = k2
  Reviewers = {r1, r2}
  Keys = {k1, k2}
  FamilyOf <- TwoFamilies
  Verifiers <- VerifierOrder
  TurnCap = 1
  PiRetries = 2
  MaxTurns <- Turns
  PerFamily = 1
  ReviewDeadline = 1
  RunDeadline = 2
  VerifyWindow = 1
  MaxFaults = 1
INVARIANT LaneIsBounded
INVARIANT ReceiptTellsTheTruth
PROPERTY RunEnds
CHECK_DEADLOCK FALSE
