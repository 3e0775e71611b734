\* Two workers, a queue of one slot, a window that never evicts, a bad request,
\* and one worker that is shut down.
SPECIFICATION FairSpec
CONSTANTS
  p1 = p1  p2 = p2  p3 = p3  p4 = p4
  i1 = i1  i2 = i2  t1 = t1  t2 = t2
  w1 = w1  w2 = w2
  Posts = {p1, p2, p3, p4}
  Careless = {p4}
  Impatient = {p2}
  Ids = {i1, i2}
  Talents = {t1, t2}
  Workers = {w1, w2}
  Retiring = {w1}
  IdOf <- MCIdOf
  TalentOf <- MCTalentOf
  ScoreOf <- MCScoreOf
  Configured <- MCWeights
  ConfiguredDefault = 2
  MaxSize = 2
  QueueCapacity = 1
  NoPost = NoPost
  NoScore = NoScore
INVARIANTS AtMostOnce RecordInForce EventsConserved BoardIsBest DrainedAtExit
PROPERTIES IntakeSpec AcceptedIsApplied WorkersStop
\* Every POST answered, context cancelled, queue closed: the process is over.
CHECK_DEADLOCK FALSE
