SPECIFICATION FairSpec
CONSTANTS
  MaxFaults = 3
  MaxStarts = 2
  MaxCancels = 2
INVARIANT RunIsAccounted
PROPERTY ImplementsPromise
PROPERTY JobEnds
CHECK_DEADLOCK FALSE
