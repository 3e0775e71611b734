----------------------------- MODULE MCPipeline -----------------------------
(* TLC instances of Pipeline, with the scores of Scoring. *)
EXTENDS Pipeline, Scoring, TLC

CONSTANTS p1, p2, p3, p4, i1, i2, t1, t2, w1, w2

\* p1 and p2 carry the same event id with different payloads; p1 and p3 are
\* about the same talent; p4 repeats p3's event.
MCIdOf     == (p1 :> i1) @@ (p2 :> i1) @@ (p3 :> i2) @@ (p4 :> i2)
MCTalentOf == (p1 :> t1) @@ (p2 :> t2) @@ (p3 :> t1) @@ (p4 :> t1)

\* A weight of zero is ignored, so "shoot" has the default; p3's score is cut
\* to 100 and p2's to 0.
MCWeights == "dribble" :> 3 @@ "shoot" :> 0
MCMetric  == (p1 :> 20) @@ (p2 :> -5) @@ (p3 :> 60) @@ (p4 :> 10)
MCSkill   == (p1 :> "dribble") @@ (p2 :> "dribble") @@ (p3 :> "shoot") @@ (p4 :> "pass")
MCScoreOf == [p \in {p1, p2, p3, p4} |-> Score(MCMetric[p], MCSkill[p])]
=============================================================================
