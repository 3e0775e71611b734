\* One generation; four POSTs arrive before, during and after the signal.
SPECIFICATION FairProcessSpec
CONSTANTS
  p1 = p1  p2 = p2  p3 = p3  p4 = p4
  i1 = i1  i2 = i2
  Posts = {p1, p2, p3, p4}
  Ids = {i1, i2}
  IdOf <- MCIdOf
  Impatient = {p1, p4}
  MaxSize = 1
  PoolSize = 2
  QueueSize = 1
  MaxStarts = 1
INVARIANTS AcceptedOnce StopAfterAnswers
PROPERTY ExitsAfterSignal
\* The process exits, or waits for a signal.
CHECK_DEADLOCK FALSE
