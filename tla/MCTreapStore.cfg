\* Three updates of two talents, a tie and an improvement that overtakes, one Rank, one TopN, the updater.
SPECIFICATION FairStoreSpec
CONSTANTS
  Talents = {1, 2, 3}
  IdHash <- MCIdHash
  HalfRange = 128
  ScoreScale = 10
  MaxScoreValue = 20
  Writers = {u1, u2, u3}
  Updates <- MCUpdates
  RankCalls = {r1}
  TopNCalls = {l1}
  Limit = 2
  NoOne = NoOne
INVARIANTS SnapshotWasTrue RankIsFromTheBoards TopNIsCoherent
PROPERTIES BoardSpec SnapshotCatchesUp
CHECK_DEADLOCK FALSE
