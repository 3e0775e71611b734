\* A duplicate is answered while the first POST may still be refused.
SPECIFICATION Spec
CONSTANTS
  p1 = p1  p2 = p2  p3 = p3  p4 = p4
  i1 = i1  i2 = i2  t1 = t1  t2 = t2
  w1 = w1  w2 = w2
  Posts = {p1, p2, p3, p4}
  Careless = {}
  Impatient = {}
  Ids = {i1, i2}
  Talents = {t1, t2}
  Workers = {w1, w2}
  Retiring = {}
  IdOf <- MCIdOf
  TalentOf <- MCTalentOf
  ScoreOf <- MCScoreOf
  Configured <- MCWeights
  ConfiguredDefault = 2
  MaxSize = 2
  QueueCapacity = 1
  NoPost = NoPost
  NoScore = NoScore
INVARIANT DuplicateIsHandled
CHECK_DEADLOCK FALSE
