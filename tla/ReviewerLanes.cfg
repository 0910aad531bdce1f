SPECIFICATION Spec
CONSTANTS
  Reviewers = {r1, r2}
  Files = {f1, f2}
  Relaunches = 1
  Limit = 2
  r1 = r1
  r2 = r2
  f1 = f1
  f2 = f2
INVARIANT CompletedIsWhole
INVARIANT RowsTellTheLanes
INVARIANT HandleOnDisk
PROPERTY RunEnds
CHECK_DEADLOCK FALSE
