\* The score and the event of an answer to Rank.
SPECIFICATION StoreSpec
CONSTANTS
  Talents = {1, 2, 3}
  IdHash <- MCIdHash
  HalfRange = 128
  ScoreScale = 10
  MaxScoreValue = 20
  Writers = {u1, u2}
  Updates <- MCUpdates
  RankCalls = {r1}
  TopNCalls = {}
  Limit = 2
  NoOne = NoOne
INVARIANT RankIsWhole
CHECK_DEADLOCK FALSE
