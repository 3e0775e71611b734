\* Four events for three workers, so that the last generator has two; one id is
\* known, and a rival is worse, as good or better.
SPECIFICATION FairSpec
CONSTANTS
  NumEvents = 4
  NumWorkers = 3
  ChannelMultiplier = 1
  TopN = 2
  Score <- MCScore
  Known = {4}
  r1 = r1
  Rivals = {r1}
  RivalScores = {1, 2, 3}
INVARIANTS EverySlotIsFilled CountersAddUp ReadAfterWait WarningHasCause
PROPERTIES RunReturns NothingLeaks
\* Run has returned.
CHECK_DEADLOCK FALSE
