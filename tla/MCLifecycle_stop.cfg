\* What Pool.Stop leaves behind.
SPECIFICATION Spec
CONSTANTS
  p1 = p1  p2 = p2  p3 = p3
  i1 = i1  i2 = i2
  Posts = {p1, p2, p3}
  Ids = {i1, i2}
  IdOf <- MCIdOf
  Impatient = {p1, p3}
  MaxSize = 1
  PoolSize = 2
  QueueSize = 1
  MaxStarts = 2
INVARIANT StopStopsWorkers
\* A stopped Service need not be started again.
CHECK_DEADLOCK FALSE
