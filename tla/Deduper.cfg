\* Four ids compete for a window of three; one node more than the window needs.
SPECIFICATION Spec
CONSTANTS
  Ids = {i1, i2, i3, i4}
  Nodes = {n1, n2, n3, n4}
  MaxSize = 3
  Nil = Nil
  NoId = NoId
INVARIANTS ListMatchesMap PoolIsApart RemembersLastMaxSize
PROPERTY FifoSpec
