\* Start, Stop and Start again, with three POSTs and a deduper for one id.
SPECIFICATION FairSpec
CONSTANTS
  p1 = p1  p2 = p2  p3 = p3
  i1 = i1  i2 = i2
  Posts = {p1, p2, p3}
  Ids = {i1, i2}
  IdOf <- MCIdOf
  Impatient = {p1, p3}
  MaxSize = 1
  PoolSize = 1
  QueueSize = 1
  MaxStarts = 2
INVARIANTS ClosedOnce OpenWhileStarted OncePerGeneration
PROPERTY RetiredWorkersEnd
\* A stopped Service need not be started again.
CHECK_DEADLOCK FALSE
