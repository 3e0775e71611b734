------------------------------- MODULE Board -------------------------------
(***************************************************************************)
(* What the store of internal/adapters/repository promises, without its    *)
(* tree, its locks and the middle of its critical sections: a board of     *)
(* best scores that only rise, a snapshot of its ranks that lags behind,   *)
(* and readers that combine the two.                                       *)
(***************************************************************************)
EXTENDS Integers, Sequences, FiniteSets

CONSTANTS
  Talents, Scores,        \* sets of integers
  RankCalls, TopNCalls,   \* calls of Rank and of TopN
  Limit,                  \* the n of TopN
  NoOne

VARIABLES
  board,       \* byID: talent -> score, for the talents that have one
  boards,      \* history: the successive boards
  copy,        \* the board the updater ranks at the moment, or NoOne
  snapshot,    \* rankSnapshot: talent -> rank
  ranked,      \* where each Rank is, and what it has read
  listed       \* the same for each TopN

boardVars == <<board, boards, copy, snapshot, ranked, listed>>

\* less: u comes before t on board b.
Before(b, u, t) == b[u] > b[t] \/ (b[u] = b[t] /\ u < t)

\* t's place on b, counted from 1.
Place(b, t) == 1 + Cardinality({u \in DOMAIN b : Before(b, u, t)})

\* assignRanksWithTies: one more than the number of strictly better talents.
RanksOf(b) == [t \in DOMAIN b |-> 1 + Cardinality({u \in DOMAIN b : b[u] > b[t]})]

\* The first Limit talents of b and their scores.
TopOf(b) == [t \in {u \in DOMAIN b : Place(b, u) <= Limit} |-> b[t]]

Empty == [t \in {} |-> 0]

IdleRank == [pc |-> "idle", talent |-> 0, from |-> 0, rank |-> 0,
             estimated |-> FALSE, score |-> 0, upto |-> 0]
IdleTop  == [pc |-> "idle", at |-> 0, top |-> Empty, ranks |-> Empty]

Init ==
  /\ board = Empty /\ boards = <<Empty>>
  /\ copy = NoOne /\ snapshot = Empty
  /\ ranked = [c \in RankCalls |-> IdleRank]
  /\ listed = [c \in TopNCalls |-> IdleTop]

-----------------------------------------------------------------------------
(* Updates and the snapshot *)

\* A talent gets its first score or a higher one.
Raise(t, s) ==
  /\ t \in DOMAIN board => s > board[t]
  /\ board' = [u \in DOMAIN board \cup {t} |-> IF u = t THEN s ELSE board[u]]
  /\ boards' = Append(boards, board')
  /\ UNCHANGED <<copy, snapshot, ranked, listed>>

Collect ==
  /\ copy = NoOne /\ copy' = board
  /\ UNCHANGED <<board, boards, snapshot, ranked, listed>>

Publish ==
  /\ copy # NoOne /\ copy' = NoOne
  /\ snapshot' = RanksOf(copy)
  /\ UNCHANGED <<board, boards, ranked, listed>>

-----------------------------------------------------------------------------
(* Rank and TopN *)

RankGoes(c, fields) ==
  /\ ranked' = [ranked EXCEPT ![c] = fields]
  /\ UNCHANGED <<board, boards, copy, snapshot, listed>>

Find(c, t) ==
  /\ ranked[c].pc = "idle"
  /\ RankGoes(c, IF t \in DOMAIN board
                 THEN [ranked[c] EXCEPT !.pc = "found", !.talent = t, !.from = Len(boards)]
                 ELSE [ranked[c] EXCEPT !.pc = "not_found"])

\* The snapshot knows the talent's rank ...
LookUp(c) ==
  /\ ranked[c].pc = "found" /\ ranked[c].talent \in DOMAIN snapshot
  /\ RankGoes(c, [ranked[c] EXCEPT !.pc = "ranked", !.rank = snapshot[ranked[c].talent]])

\* ... or it did not, and the rank is estimated: never below the talent's place.
Estimate(c) ==
  /\ ranked[c].pc = "found"
  /\ \E k \in 1..Place(board, ranked[c].talent) :
       RankGoes(c, [ranked[c] EXCEPT !.pc = "ranked", !.rank = k, !.estimated = TRUE])

ReadScore(c) ==
  /\ ranked[c].pc = "ranked"
  /\ RankGoes(c, [ranked[c] EXCEPT !.pc = "scored", !.score = board[ranked[c].talent]])

Answer(c) ==
  /\ ranked[c].pc = "scored"
  /\ RankGoes(c, [ranked[c] EXCEPT !.pc = "done", !.upto = Len(boards)])

List(c) ==
  /\ listed[c].pc = "idle"
  /\ listed' = [listed EXCEPT ![c].pc = "listed", ![c].at = Len(boards), ![c].top = TopOf(board)]
  /\ UNCHANGED <<board, boards, copy, snapshot, ranked>>

\* One talent missing in the snapshot and the list is ranked by itself.
RankList(c) ==
  /\ listed[c].pc = "listed"
  /\ LET top == listed[c].top
         ranks == IF DOMAIN top \subseteq DOMAIN snapshot
                  THEN [t \in DOMAIN top |-> snapshot[t]] ELSE RanksOf(top)
     IN  listed' = [listed EXCEPT ![c].pc = "done", ![c].ranks = ranks]
  /\ UNCHANGED <<board, boards, copy, snapshot, ranked>>

Next ==
  \/ \E t \in Talents, s \in Scores : Raise(t, s)
  \/ Collect \/ Publish
  \/ \E c \in RankCalls :
       \/ \E t \in Talents : Find(c, t)
       \/ LookUp(c) \/ Estimate(c) \/ ReadScore(c) \/ Answer(c)
  \/ \E c \in TopNCalls : List(c) \/ RankList(c)

Spec == Init /\ [][Next]_boardVars

-----------------------------------------------------------------------------
(* Properties *)

\* The snapshot is always the ranking of some board there has been, whole.
SnapshotWasTrue ==
  \E i \in DOMAIN boards : snapshot = RanksOf(boards[i])

\* Rank answers with a score the talent had during the call.  Its rank is one
\* the talent has had at some time or, when estimated, not below a place the
\* talent had during the call.
RankIsFromTheBoards ==
  \A c \in RankCalls : ranked[c].pc = "done" =>
    LET t == ranked[c].talent
        during == ranked[c].from..ranked[c].upto
    IN  /\ \E i \in during : t \in DOMAIN boards[i] /\ ranked[c].score = boards[i][t]
        /\ IF ranked[c].estimated
           THEN \E i \in during : ranked[c].rank \in 1..Place(boards[i], t)
           ELSE \E i \in 1..ranked[c].upto :
                  t \in DOMAIN boards[i] /\ ranked[c].rank = RanksOf(boards[i])[t]

\* TopN answers with the first talents of the board it saw, and all the ranks
\* it gives them are of one board there had been by then.
TopNIsFromTheBoards ==
  \A c \in TopNCalls : listed[c].pc = "done" =>
    /\ listed[c].top = TopOf(boards[listed[c].at])
    /\ \E k \in DOMAIN boards : \A t \in DOMAIN listed[c].top :
         t \in DOMAIN boards[k] /\ listed[c].ranks[t] = RanksOf(boards[k])[t]

\* No board takes a talent or a point away from an earlier one.
ScoresRise ==
  \A i, j \in DOMAIN boards : i <= j =>
    \A t \in DOMAIN boards[i] : t \in DOMAIN boards[j] /\ boards[i][t] <= boards[j][t]
=============================================================================
