\* The rank computed for a talent the snapshot does not know yet.
SPECIFICATION Spec
CONSTANTS
  Talents = {1, 2, 3, 4}
  IdHash <- MCIdHash
  HalfRange = 128
  ScoreScale = 10
  MaxScoreValue = 20
  Floats <- MCFloats
INVARIANT FallbackRankIsPlace
