------------------------------- MODULE Intake -------------------------------
(***************************************************************************)
(* What the service promises to those who POST events, without handlers,   *)
(* queues or workers: an event id is accepted once, an accepted event is   *)
(* applied at most once, and a talent's score is the highest among the     *)
(* events applied for it.                                                  *)
(***************************************************************************)
EXTENDS Integers

CONSTANTS Posts, Ids, IdOf, Talents, TalentOf, ScoreOf, NoScore

VARIABLES
  accepted,    \* events answered 202
  applied,     \* events whose score has been put to the leaderboard
  top          \* each talent's score on the leaderboard

intake == <<accepted, applied, top>>

\* s is talent t's score once exactly the events of S have been applied.
IsTop(s, S, t) ==
  \/ s = NoScore /\ \A p \in S : TalentOf[p] # t
  \/ /\ \E p \in S : TalentOf[p] = t /\ ScoreOf[p] = s
     /\ \A p \in S : TalentOf[p] = t => ScoreOf[p] <= s

Init ==
  /\ accepted = {} /\ applied = {}
  /\ top = [t \in Talents |-> NoScore]

Accept(p) ==
  /\ \A q \in accepted : IdOf[q] # IdOf[p]
  /\ accepted' = accepted \cup {p}
  /\ UNCHANGED <<applied, top>>

Apply(p) ==
  /\ p \in accepted \ applied
  /\ applied' = applied \cup {p}
  /\ top' \in [Talents -> Int \cup {NoScore}]
  /\ \A t \in Talents : IsTop(top'[t], applied', t)
  /\ UNCHANGED accepted

Next == \E p \in Posts : Accept(p) \/ Apply(p)

Spec == Init /\ [][Next]_intake
=============================================================================
