\* Four calls, three at a time, two consumers, one slot more than the capacity.
SPECIFICATION FairSpec
CONSTANTS
  Calls = {e1, e2, e3, e4}
  Impatient = {e2}
  Parallel = 3
  Consumers = {w1, w2}
  Capacity = 1
  BufferSize = 2
  NoEvent = NoEvent
INVARIANTS NoSendOnClosed OvershootBounded EachInOrder
PROPERTIES AtomicSpec CloseDrains
\* Calls answered and queue closed and drained: nothing is left to do.
CHECK_DEADLOCK FALSE
