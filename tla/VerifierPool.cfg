SPECIFICATION FairSpec
CONSTANTS
  PoolLanes = 2
  LaneRelaunches = 1
  MaxGroups = 3
  MaxBlind = 1
INVARIANT ClaimIsExclusive
INVARIANT ReadOnce
INVARIANT NullBriefIsFinal
INVARIANT GroupsAccounted
PROPERTY RunEnds
CHECK_DEADLOCK FALSE
