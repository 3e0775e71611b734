------------------------------ MODULE Scoring ------------------------------
(***************************************************************************)
(* The scorer (domain/scoring): raw metric times the weight of the skill,  *)
(* clamped to 0..100.  Metrics and weights are integers here.  That the    *)
(* scorer may return the context's error instead is ScoreFails of Pipeline.*)
(***************************************************************************)
EXTENDS Integers

CONSTANTS
  Configured,         \* skill_weights of the configuration
  ConfiguredDefault   \* its default_skill_weight

ASSUME ScoringAssumption ==
  /\ Configured \in [DOMAIN Configured -> Int]
  /\ ConfiguredDefault \in Int

defaultSkillWeight == 100
maxScoreValue == 100

\* Only positive weights are taken from the configuration.
skillWeights ==
  [s \in {t \in DOMAIN Configured : Configured[t] > 0} |-> Configured[s]]

defaultWeight ==
  IF ConfiguredDefault > 0 THEN ConfiguredDefault ELSE defaultSkillWeight

Weight(skill) ==
  IF skill \in DOMAIN skillWeights THEN skillWeights[skill] ELSE defaultWeight

Clamp(score) ==
  IF score < 0 THEN 0 ELSE IF score > maxScoreValue THEN maxScoreValue ELSE score

Score(raw, skill) == Clamp(raw * Weight(skill))
=============================================================================
