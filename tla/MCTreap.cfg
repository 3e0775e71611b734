\* Four talents, eight-bit scores: 13 and more saturate.
SPECIFICATION Spec
CONSTANTS
  Talents = {1, 2, 3, 4}
  IdHash <- MCIdHash
  HalfRange = 128
  ScoreScale = 10
  MaxScoreValue = 20
  Floats <- MCFloats
INVARIANTS WellFormed TreeMatchesMap TopNIsPrefix RanksShareTies FallbackRankDeficit
