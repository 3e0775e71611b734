----------------------------- MODULE BoardProofs -----------------------------
(***************************************************************************)
(* What the readers of the board can rely on, for any talents and scores,  *)
(* any number of readers and any interleaving with updates and snapshots.  *)
(***************************************************************************)
EXTENDS Board, FiniteSetTheorems, SequenceTheorems, TLAPS

\* Talents and scores are numbers, and TopN asks for at least one talent.
BoardConstants ==
  /\ Talents \subseteq Int /\ IsFiniteSet(Talents)
  /\ Scores \subseteq Int /\ Limit \in Nat \ {0}

-----------------------------------------------------------------------------
(* The history of the board *)

Boards == UNION {[S -> Scores] : S \in SUBSET Talents}

LEMMA BoardValues ==
  ASSUME BoardConstants, NEW b \in Boards
  PROVE  /\ DOMAIN b \subseteq Talents /\ IsFiniteSet(DOMAIN b)
         /\ \A t \in DOMAIN b : b[t] \in Int
<1>1. PICK S \in SUBSET Talents : b \in [S -> Scores]
  BY DEF Boards
<1>2. DOMAIN b \subseteq Talents /\ \A t \in DOMAIN b : b[t] \in Int
  BY <1>1 DEF BoardConstants
<1> QED  BY <1>2, FS_Subset DEF BoardConstants

HistoryInv ==
  /\ boards \in Seq(Boards) /\ boards # <<>>
  /\ board = boards[Len(boards)]

LEMMA HistoryInit == Init => HistoryInv
<1> SUFFICES ASSUME Init PROVE HistoryInv
  OBVIOUS
<1>1. Empty \in Boards
  BY DEF Empty, Boards
<1> QED  BY <1>1 DEF Init, HistoryInv

\* Every step keeps the boards there have been.
LEMMA HistoryStep ==
  ASSUME HistoryInv, [Next]_boardVars
  PROVE  /\ HistoryInv'
         /\ Len(boards) \in Nat \ {0} /\ Len(boards') \in Nat /\ Len(boards) <= Len(boards')
         /\ DOMAIN boards = 1..Len(boards) /\ DOMAIN boards' = 1..Len(boards')
         /\ \A i \in 1..Len(boards) : boards'[i] = boards[i]
<1>1. boards \in Seq(Boards) /\ Len(boards) \in Nat \ {0} /\ DOMAIN boards = 1..Len(boards)
  BY LenProperties, EmptySeq DEF HistoryInv
<1>2. CASE UNCHANGED <<board, boards>>
  BY <1>1, <1>2 DEF HistoryInv
<1>3. ASSUME NEW t \in Talents, NEW s \in Scores, Raise(t, s)
      PROVE  /\ HistoryInv' /\ Len(boards') = Len(boards) + 1
             /\ DOMAIN boards' = 1..Len(boards')
             /\ \A i \in 1..Len(boards) : boards'[i] = boards[i]
  <2>1. board \in Boards
    BY <1>1, ElementOfSeq DEF HistoryInv
  <2>2. PICK S \in SUBSET Talents : board \in [S -> Scores]
    BY <2>1 DEF Boards
  <2>3. board' \in [S \cup {t} -> Scores]
    BY <1>3, <2>2 DEF Raise
  <2>4. board' \in Boards
    BY <2>3 DEF Boards
  <2>5. boards' = Append(boards, board')
    BY <1>3 DEF Raise
  <2>6. /\ boards' \in Seq(Boards) /\ boards' # <<>> /\ Len(boards') = Len(boards) + 1
        /\ \A i \in 1..Len(boards) : boards'[i] = boards[i]
        /\ boards'[Len(boards) + 1] = board'
    BY <1>1, <2>4, <2>5, AppendProperties
  <2>7. DOMAIN boards' = 1..Len(boards')
    BY <2>6, LenProperties
  <2> QED  BY <1>1, <2>6, <2>7 DEF HistoryInv
<1>4. ASSUME ~\E t \in Talents, s \in Scores : Raise(t, s)
      PROVE  UNCHANGED <<board, boards>>
  BY <1>4 DEF Next, boardVars, Collect, Publish, Find, LookUp, Estimate, ReadScore, Answer,
              RankGoes, List, RankList
<1> QED  BY <1>1, <1>2, <1>3, <1>4

-----------------------------------------------------------------------------
(* Scores *)

RiseInv == HistoryInv /\ ScoresRise

LEMMA RiseInit == Init => RiseInv
<1> SUFFICES ASSUME Init PROVE RiseInv
  OBVIOUS
<1>1. \A i \in DOMAIN boards : boards[i] = Empty /\ DOMAIN boards[i] = {}
  BY DEF Init, Empty
<1> QED  BY <1>1, HistoryInit DEF RiseInv, ScoresRise

LEMMA RiseStep ==
  ASSUME BoardConstants, RiseInv, [Next]_boardVars
  PROVE  RiseInv'
<1>1. HistoryInv /\ ScoresRise
  BY DEF RiseInv
<1>2. /\ HistoryInv' /\ Len(boards) \in Nat \ {0}
      /\ DOMAIN boards = 1..Len(boards) /\ DOMAIN boards' = 1..Len(boards')
      /\ \A i \in 1..Len(boards) : boards'[i] = boards[i]
  BY <1>1, HistoryStep
<1>3. CASE UNCHANGED <<board, boards>>
  BY <1>1, <1>2, <1>3 DEF RiseInv, ScoresRise
<1>4. ASSUME NEW t \in Talents, NEW s \in Scores, Raise(t, s)
      PROVE  ScoresRise'
  <2> DEFINE n == Len(boards)
  <2>1. boards' = Append(boards, board') /\ boards \in Seq(Boards)
    BY <1>1, <1>4 DEF Raise, HistoryInv
  <2>2. Len(boards') = n + 1 /\ boards'[n + 1] = board'
    BY <1>2, <2>1 DEF HistoryInv
  <2>3. \A i \in 1..n : boards[i] \in Boards
    BY <1>2, <2>1, ElementOfSeq
  <2>4. ASSUME NEW i \in 1..n, NEW u \in DOMAIN boards[i]
        PROVE  /\ u \in DOMAIN board' /\ boards[i][u] <= board'[u]
               /\ boards[i][u] \in Int
    <3>1. n \in DOMAIN boards /\ i <= n /\ board = boards[n]
      BY <1>1, <1>2 DEF HistoryInv
    <3>2. u \in DOMAIN board /\ boards[i][u] <= board[u]
      BY <1>1, <1>2, <3>1 DEF ScoresRise
    <3>3. board \in Boards /\ boards[i] \in Boards
      BY <1>2, <2>3, <3>1
    <3>4. boards[i][u] \in Int /\ board[u] \in Int /\ s \in Int
      BY <3>2, <3>3, BoardValues DEF BoardConstants
    <3>5. /\ u \in DOMAIN board' /\ board'[u] = IF u = t THEN s ELSE board[u]
          /\ t \in DOMAIN board => s > board[t]
      BY <1>4, <3>2 DEF Raise
    <3> QED  BY <3>2, <3>4, <3>5
  <2>5. board' \in Boards
    BY <1>2, <2>2, LenProperties, ElementOfSeq DEF HistoryInv
  <2>6. \A u \in DOMAIN board' : board'[u] \in Int
    BY <2>5, BoardValues
  <2> SUFFICES ASSUME NEW i \in 1..(n + 1), NEW j \in 1..(n + 1), i <= j,
                      NEW u \in DOMAIN boards'[i]
               PROVE  u \in DOMAIN boards'[j] /\ boards'[i][u] <= boards'[j][u]
    BY <1>2, <2>2 DEF ScoresRise
  <2>7. CASE j <= n
    BY <1>1, <1>2, <2>7 DEF ScoresRise
  <2>8. CASE j = n + 1 /\ i <= n
    BY <1>2, <2>2, <2>4, <2>8
  <2>9. CASE j = n + 1 /\ i = n + 1
    BY <2>2, <2>6, <2>9
  <2> QED  BY <1>2, <2>7, <2>8, <2>9
<1>5. ASSUME ~\E t \in Talents, s \in Scores : Raise(t, s)
      PROVE  UNCHANGED <<board, boards>>
  BY <1>5 DEF Next, boardVars, Collect, Publish, Find, LookUp, Estimate, ReadScore, Answer,
              RankGoes, List, RankList
<1> QED  BY <1>2, <1>3, <1>4, <1>5 DEF RiseInv

\* No interleaving of updates takes a talent or a point away from the board.
THEOREM ScoresOnlyRise ==
  ASSUME BoardConstants
  PROVE  Spec => []ScoresRise
<1>1. RiseInv /\ [Next]_boardVars => RiseInv'
  BY RiseStep
<1>2. RiseInv => ScoresRise
  BY DEF RiseInv
<1> QED  BY <1>1, <1>2, RiseInit, PTL DEF Spec

-----------------------------------------------------------------------------
(* The snapshot *)

\* That the snapshot was true rests on what the updater is about to publish.
SnapshotInv ==
  /\ HistoryInv
  /\ copy # NoOne => \E i \in DOMAIN boards : copy = boards[i]
  /\ SnapshotWasTrue

LEMMA SnapshotInit == Init => SnapshotInv
<1> SUFFICES ASSUME Init PROVE SnapshotInv
  OBVIOUS
<1>1. snapshot = RanksOf(Empty)
  BY DEF Init, Empty, RanksOf
<1>2. 1 \in DOMAIN boards /\ boards[1] = Empty
  BY DEF Init
<1> QED  BY <1>1, <1>2, HistoryInit DEF Init, SnapshotInv, SnapshotWasTrue

LEMMA SnapshotStep ==
  ASSUME SnapshotInv, [Next]_boardVars
  PROVE  SnapshotInv'
<1>1. /\ HistoryInv' /\ DOMAIN boards \subseteq DOMAIN boards'
      /\ \A i \in DOMAIN boards : boards'[i] = boards[i]
  BY HistoryStep DEF SnapshotInv
<1>2. PICK k \in DOMAIN boards : snapshot = RanksOf(boards[k])
  BY DEF SnapshotInv, SnapshotWasTrue
<1>3. CASE UNCHANGED <<copy, snapshot>>
  <2>1. snapshot' = RanksOf(boards'[k])
    BY <1>1, <1>2, <1>3
  <2> QED  BY <1>1, <1>3, <2>1 DEF SnapshotInv, SnapshotWasTrue
<1>4. CASE Collect
  <2>1. Len(boards) \in DOMAIN boards /\ copy' = boards[Len(boards)]
    BY <1>4, LenProperties, EmptySeq DEF Collect, SnapshotInv, HistoryInv
  <2>2. snapshot' = RanksOf(boards'[k])
    BY <1>1, <1>2, <1>4 DEF Collect
  <2> QED  BY <1>1, <2>1, <2>2 DEF SnapshotInv, SnapshotWasTrue
<1>5. CASE Publish
  <2>1. PICK i \in DOMAIN boards : copy = boards[i]
    BY <1>5 DEF Publish, SnapshotInv
  <2>2. snapshot' = RanksOf(boards'[i]) /\ copy' = NoOne
    BY <1>1, <1>5, <2>1 DEF Publish
  <2> QED  BY <1>1, <2>2 DEF SnapshotInv, SnapshotWasTrue
<1>6. Collect \/ Publish \/ UNCHANGED <<copy, snapshot>>
  BY DEF Next, boardVars, Raise, Find, LookUp, Estimate, ReadScore, Answer, RankGoes, List,
         RankList
<1> QED  BY <1>3, <1>4, <1>5, <1>6

\* However updates and the updater interleave, the published ranks are those of
\* one board there has been.
THEOREM SnapshotsAreTrue == Spec => []SnapshotWasTrue
<1>1. SnapshotInv => SnapshotWasTrue
  BY DEF SnapshotInv
<1>2. SnapshotInv /\ [Next]_boardVars => SnapshotInv'
  BY SnapshotStep
<1> QED  BY <1>1, <1>2, SnapshotInit, PTL DEF Spec

-----------------------------------------------------------------------------
(* Rank *)

RankStates == {"idle", "not_found", "found", "ranked", "scored", "done"}

\* What a call has read fits the boards bs up to the last-th.
TalentFits(bs, r, last) ==
  /\ last \in DOMAIN bs /\ r.from \in 1..last
  /\ r.talent \in DOMAIN bs[r.from]

RankFits(bs, r, last) ==
  IF r.estimated
  THEN \E i \in r.from..last : r.rank \in 1..Place(bs[i], r.talent)
  ELSE \E i \in 1..last : r.talent \in DOMAIN bs[i] /\ r.rank = RanksOf(bs[i])[r.talent]

ScoreFits(bs, r, last) ==
  \E i \in r.from..last : r.talent \in DOMAIN bs[i] /\ r.score = bs[i][r.talent]

Fits(bs, r, last) ==
  /\ r.pc \in {"idle", "found"} => ~r.estimated
  /\ r.pc \in {"found", "ranked", "scored", "done"} => TalentFits(bs, r, last)
  /\ r.pc \in {"ranked", "scored", "done"} => RankFits(bs, r, last)
  /\ r.pc \in {"scored", "done"} => ScoreFits(bs, r, last)

RankRecords ==
  [pc : RankStates, talent : Talents \cup {0}, from : Nat, rank : Int,
   estimated : BOOLEAN, score : Int, upto : Nat]

\* The score that ReadScore is about to read exists because talents stay on
\* the board (ScoresRise); the rank that LookUp finds is that of an earlier
\* board (SnapshotWasTrue).
RankInv ==
  /\ RiseInv /\ SnapshotInv
  /\ ranked \in [RankCalls -> RankRecords]
  /\ \A c \in RankCalls :
       Fits(boards, ranked[c], IF ranked[c].pc = "done" THEN ranked[c].upto ELSE Len(boards))

LEMMA RankInit == Init => RankInv
<1> SUFFICES ASSUME Init PROVE RankInv
  OBVIOUS
<1>1. ranked \in [RankCalls -> RankRecords]
  BY DEF Init, IdleRank, RankRecords, RankStates
<1>2. \A c \in RankCalls : ranked[c].pc = "idle" /\ ~ranked[c].estimated
  BY DEF Init, IdleRank
<1> QED  BY <1>1, <1>2, RiseInit, SnapshotInit DEF RankInv, Fits

\* What has been read goes on to fit as boards are added.
LEMMA FitsLater ==
  ASSUME HistoryInv, [Next]_boardVars, NEW r \in RankRecords, NEW last \in DOMAIN boards,
         NEW later \in DOMAIN boards', last <= later, Fits(boards, r, last)
  PROVE  Fits(boards', r, later)
<1>1. /\ DOMAIN boards = 1..Len(boards) /\ DOMAIN boards' = 1..Len(boards')
      /\ Len(boards) \in Nat /\ Len(boards') \in Nat /\ Len(boards) <= Len(boards')
      /\ \A i \in 1..Len(boards) : boards'[i] = boards[i]
  BY HistoryStep
<1>2. \A i \in 1..last : i \in 1..later /\ boards'[i] = boards[i]
  BY <1>1
<1>3. r.from \in Nat
  BY DEF RankRecords
<1>4. \A i \in r.from..last : i \in r.from..later
  BY <1>1, <1>3
<1>5. r.pc \in {"found", "ranked", "scored", "done"} =>
        r.from \in 1..last /\ r.talent \in DOMAIN boards[r.from]
  BY DEF Fits, TalentFits
<1>6. ASSUME r.pc \in {"ranked", "scored", "done"}
      PROVE  RankFits(boards', r, later)
  <2>1. RankFits(boards, r, last)
    BY <1>6 DEF Fits
  <2>2. CASE r.estimated
    <3>1. PICK i \in r.from..last : r.rank \in 1..Place(boards[i], r.talent)
      BY <2>1, <2>2 DEF RankFits
    <3>2. i \in 1..last
      BY <1>1, <1>3, <1>5, <1>6, <3>1
    <3>3. boards'[i] = boards[i] /\ i \in r.from..later
      BY <1>2, <1>4, <3>1, <3>2
    <3> QED  BY <2>2, <3>1, <3>3 DEF RankFits
  <2>3. CASE ~r.estimated
    <3>1. PICK i \in 1..last : /\ r.talent \in DOMAIN boards[i]
                               /\ r.rank = RanksOf(boards[i])[r.talent]
      BY <2>1, <2>3 DEF RankFits
    <3>2. boards'[i] = boards[i] /\ i \in 1..later
      BY <1>2, <3>1
    <3> QED  BY <2>3, <3>1, <3>2 DEF RankFits
  <2> QED  BY <2>2, <2>3
<1>7. ASSUME r.pc \in {"scored", "done"}
      PROVE  ScoreFits(boards', r, later)
  <2>1. PICK i \in r.from..last : r.talent \in DOMAIN boards[i] /\ r.score = boards[i][r.talent]
    BY <1>7 DEF Fits, ScoreFits
  <2>2. i \in 1..last
    BY <1>1, <1>3, <1>5, <1>7, <2>1
  <2> QED  BY <1>2, <1>4, <2>1, <2>2 DEF ScoreFits
<1> QED  BY <1>2, <1>5, <1>6, <1>7 DEF Fits, TalentFits

Last(c) == IF ranked[c].pc = "done" THEN ranked[c].upto ELSE Len(boards)

\* A call that does not move goes on to fit.
LEMMA RestFits ==
  ASSUME RankInv, [Next]_boardVars, NEW c \in RankCalls, ranked'[c] = ranked[c]
  PROVE  Fits(boards', ranked'[c], Last(c)')
<1>1. /\ DOMAIN boards = 1..Len(boards) /\ DOMAIN boards' = 1..Len(boards')
      /\ Len(boards) \in Nat \ {0} /\ Len(boards') \in Nat /\ Len(boards) <= Len(boards')
  BY HistoryStep DEF RankInv, RiseInv
<1>2. ranked[c] \in RankRecords /\ Fits(boards, ranked[c], Last(c))
  BY DEF RankInv, Last
<1>3. ranked[c].pc = "done" => ranked[c].upto \in DOMAIN boards
  BY <1>2 DEF Fits, TalentFits, Last
<1>4. Last(c) \in DOMAIN boards /\ Last(c)' \in DOMAIN boards' /\ Last(c) <= Last(c)'
  BY <1>1, <1>3 DEF Last
<1>5. HistoryInv
  BY DEF RankInv, RiseInv
<1>6. Fits(boards', ranked[c], Last(c)')
  BY <1>2, <1>4, <1>5, FitsLater
<1> QED  BY <1>6

\* One step of a call.
LEMMA RankMoves ==
  ASSUME BoardConstants, RankInv, NEW c \in RankCalls,
         \/ \E t \in Talents : Find(c, t)
         \/ LookUp(c) \/ Estimate(c) \/ ReadScore(c) \/ Answer(c)
  PROVE  /\ ranked' \in [RankCalls -> RankRecords]
         /\ \A d \in RankCalls : d # c => ranked'[d] = ranked[d]
         /\ Fits(boards', ranked'[c], Last(c)')
<1> DEFINE r == ranked[c]
           q == ranked'[c]
           n == Len(boards)
<1>1. /\ HistoryInv /\ ScoresRise /\ SnapshotWasTrue
      /\ r \in RankRecords /\ Fits(boards, r, Last(c))
      /\ ranked \in [RankCalls -> RankRecords]
  BY DEF RankInv, RiseInv, SnapshotInv, Last
<1>2. /\ n \in Nat \ {0} /\ n \in DOMAIN boards /\ DOMAIN boards = 1..n
      /\ board = boards[n] /\ board \in Boards
  BY <1>1, LenProperties, EmptySeq, ElementOfSeq DEF HistoryInv
<1>3. UNCHANGED <<board, boards>>
  BY DEF Find, LookUp, Estimate, ReadScore, Answer, RankGoes
<1>4. ASSUME r.pc \in {"found", "ranked", "scored"}
      PROVE  /\ TalentFits(boards, r, n) /\ r.talent \in DOMAIN board /\ r.talent \in Talents
             /\ r.from \in 1..n
             /\ board[r.talent] \in Int
  <2>1. TalentFits(boards, r, n)
    BY <1>1, <1>4 DEF Fits, Last
  <2>2. r.from \in DOMAIN boards /\ r.from <= n /\ r.talent \in DOMAIN boards[r.from]
    BY <1>2, <2>1 DEF TalentFits
  <2>3. r.talent \in DOMAIN board
    BY <1>1, <1>2, <2>2 DEF ScoresRise
  <2> QED  BY <1>2, <2>1, <2>3, BoardValues DEF TalentFits
<1>5. CASE \E t \in Talents : Find(c, t)
  <2>1. PICK t \in Talents : Find(c, t)
    BY <1>5
  <2>2. CASE t \in DOMAIN board
    <3>1. ranked' = [ranked EXCEPT ![c] = [r EXCEPT !.pc = "found", !.talent = t, !.from = n]]
      BY <2>1, <2>2 DEF Find, RankGoes
    <3>2. [r EXCEPT !.pc = "found", !.talent = t, !.from = n] \in RankRecords
      BY <1>1, <1>2 DEF RankRecords, RankStates
    <3>3. /\ q \in RankRecords /\ q.pc = "found" /\ q.talent = t /\ q.from = n
          /\ q.estimated = r.estimated
      BY <1>1, <3>1, <3>2 DEF RankRecords
    <3>6. ~r.estimated
      BY <1>1, <2>1 DEF Fits, Find
    <3>4. TalentFits(boards, q, n)
      BY <1>2, <2>2, <3>3 DEF TalentFits
    <3>5. Fits(boards', q, Last(c)')
      BY <1>3, <3>3, <3>4, <3>6 DEF Fits, Last
    <3> QED  BY <1>1, <3>1, <3>2, <3>5
  <2>3. CASE t \notin DOMAIN board
    <3>1. ranked' = [ranked EXCEPT ![c] = [r EXCEPT !.pc = "not_found"]]
      BY <2>1, <2>3 DEF Find, RankGoes
    <3>2. [r EXCEPT !.pc = "not_found"] \in RankRecords
      BY <1>1 DEF RankRecords, RankStates
    <3>3. q.pc = "not_found"
      BY <1>1, <3>1, <3>2 DEF RankRecords
    <3> QED  BY <1>1, <3>1, <3>2, <3>3 DEF Fits
  <2> QED  BY <2>2, <2>3
<1>6. CASE LookUp(c)
  <2>1. /\ r.pc = "found" /\ r.talent \in DOMAIN snapshot
        /\ ranked' = [ranked EXCEPT ![c] = [r EXCEPT !.pc = "ranked", !.rank = snapshot[r.talent]]]
    BY <1>6 DEF LookUp, RankGoes
  <2>2. PICK i \in DOMAIN boards : snapshot = RanksOf(boards[i])
    BY <1>1 DEF SnapshotWasTrue
  <2>3. r.talent \in DOMAIN boards[i] /\ boards[i] \in Boards
    BY <1>1, <1>2, <2>1, <2>2, ElementOfSeq DEF RanksOf, HistoryInv
  <2>4. RanksOf(boards[i])[r.talent] \in Int
    <3>1. IsFiniteSet({u \in DOMAIN boards[i] : boards[i][u] > boards[i][r.talent]})
      BY <2>3, BoardValues, FS_Subset
    <3> QED  BY <2>3, <3>1, FS_CardinalityType DEF RanksOf
  <2>5. ~r.estimated /\ TalentFits(boards, r, n)
    BY <1>1, <1>4, <2>1 DEF Fits
  <2>6. [r EXCEPT !.pc = "ranked", !.rank = snapshot[r.talent]] \in RankRecords
    <3>1. snapshot[r.talent] \in Int
      BY <2>2, <2>4
    <3> QED  BY <1>1, <3>1 DEF RankRecords, RankStates
  <2>7. /\ q.pc = "ranked" /\ q.talent = r.talent /\ q.from = r.from
        /\ q.rank = snapshot[r.talent] /\ ~q.estimated
    BY <1>1, <2>1, <2>5 DEF RankRecords
  <2>8. TalentFits(boards, q, n) /\ RankFits(boards, q, n)
    BY <1>2, <2>2, <2>3, <2>5, <2>7 DEF TalentFits, RankFits
  <2>9. Fits(boards', q, Last(c)')
    BY <1>3, <2>7, <2>8 DEF Fits, Last
  <2> QED  BY <1>1, <2>1, <2>6, <2>9
<1>7. CASE Estimate(c)
  <2>1. PICK k \in 1..Place(board, r.talent) :
          ranked' = [ranked EXCEPT ![c] = [r EXCEPT !.pc = "ranked", !.rank = k, !.estimated = TRUE]]
    BY <1>7 DEF Estimate, RankGoes
  <2>2. r.pc = "found" /\ k \in Int
    <3>1. r.pc = "found"
      BY <1>7 DEF Estimate
    <3> QED  BY <3>1
  <2>3. [r EXCEPT !.pc = "ranked", !.rank = k, !.estimated = TRUE] \in RankRecords
    BY <1>1, <2>2 DEF RankRecords, RankStates
  <2>4. /\ q.pc = "ranked" /\ q.talent = r.talent /\ q.from = r.from
        /\ q.rank = k /\ q.estimated
    BY <1>1, <2>1 DEF RankRecords
  <2>5. TalentFits(boards, q, n) /\ RankFits(boards, q, n)
    <3>1. n \in q.from..n
      BY <1>2, <1>4, <2>2, <2>4
    <3> QED  BY <1>2, <1>4, <2>2, <2>4, <3>1 DEF TalentFits, RankFits
  <2>6. Fits(boards', q, Last(c)')
    BY <1>3, <2>4, <2>5 DEF Fits, Last
  <2> QED  BY <1>1, <2>1, <2>3, <2>6
<1>8. CASE ReadScore(c)
  <2>1. /\ r.pc = "ranked"
        /\ ranked' = [ranked EXCEPT ![c] = [r EXCEPT !.pc = "scored", !.score = board[r.talent]]]
    BY <1>8 DEF ReadScore, RankGoes
  <2>2. [r EXCEPT !.pc = "scored", !.score = board[r.talent]] \in RankRecords
    BY <1>1, <1>4, <2>1 DEF RankRecords, RankStates
  <2>3. /\ q.pc = "scored" /\ q.talent = r.talent /\ q.from = r.from
        /\ q.rank = r.rank /\ q.estimated = r.estimated /\ q.score = board[r.talent]
    BY <1>1, <2>1 DEF RankRecords
  <2>4. RankFits(boards, r, n)
    BY <1>1, <2>1 DEF Fits, Last
  <2>5. TalentFits(boards, q, n) /\ RankFits(boards, q, n)
    BY <1>4, <2>1, <2>3, <2>4 DEF TalentFits, RankFits
  <2>6. ScoreFits(boards, q, n)
    <3>1. n \in q.from..n
      BY <1>2, <1>4, <2>1, <2>3
    <3> QED  BY <1>2, <1>4, <2>1, <2>3, <3>1 DEF ScoreFits
  <2>7. Fits(boards', q, Last(c)')
    BY <1>3, <2>3, <2>5, <2>6 DEF Fits, Last
  <2> QED  BY <1>1, <2>1, <2>2, <2>7
<1>9. CASE Answer(c)
  <2>1. /\ r.pc = "scored"
        /\ ranked' = [ranked EXCEPT ![c] = [r EXCEPT !.pc = "done", !.upto = n]]
    BY <1>9 DEF Answer, RankGoes
  <2>2. [r EXCEPT !.pc = "done", !.upto = n] \in RankRecords
    BY <1>1, <1>2, <2>1 DEF RankRecords, RankStates
  <2>3. /\ q.pc = "done" /\ q.talent = r.talent /\ q.from = r.from /\ q.upto = n
        /\ q.rank = r.rank /\ q.estimated = r.estimated /\ q.score = r.score
    BY <1>1, <2>1 DEF RankRecords
  <2>4. TalentFits(boards, r, n) /\ RankFits(boards, r, n) /\ ScoreFits(boards, r, n)
    BY <1>1, <2>1 DEF Fits, Last
  <2>5. TalentFits(boards, q, n) /\ RankFits(boards, q, n) /\ ScoreFits(boards, q, n)
    BY <2>3, <2>4 DEF TalentFits, RankFits, ScoreFits
  <2>6. Fits(boards', q, Last(c)')
    BY <1>3, <2>3, <2>5 DEF Fits, Last
  <2> QED  BY <1>1, <2>1, <2>2, <2>6
<1> QED  BY <1>5, <1>6, <1>7, <1>8, <1>9

LEMMA RankStep ==
  ASSUME BoardConstants, RankInv, [Next]_boardVars
  PROVE  RankInv'
<1>1. RiseInv' /\ SnapshotInv'
  BY RiseStep, SnapshotStep DEF RankInv
<1>2. CASE UNCHANGED ranked
  <2>1. \A c \in RankCalls : Fits(boards', ranked'[c], Last(c)')
    BY <1>2, RestFits
  <2> QED  BY <1>1, <1>2, <2>1 DEF RankInv, Last
<1>3. ASSUME NEW c \in RankCalls,
             \/ \E t \in Talents : Find(c, t)
             \/ LookUp(c) \/ Estimate(c) \/ ReadScore(c) \/ Answer(c)
      PROVE  RankInv'
  <2>1. /\ ranked' \in [RankCalls -> RankRecords]
        /\ \A d \in RankCalls : d # c => ranked'[d] = ranked[d]
        /\ Fits(boards', ranked'[c], Last(c)')
    BY <1>3, RankMoves
  <2>2. \A d \in RankCalls : Fits(boards', ranked'[d], Last(d)')
    BY <2>1, RestFits
  <2> QED  BY <1>1, <2>1, <2>2 DEF RankInv, Last
<1>4. \/ UNCHANGED ranked
      \/ \E c \in RankCalls :
           \/ \E t \in Talents : Find(c, t)
           \/ LookUp(c) \/ Estimate(c) \/ ReadScore(c) \/ Answer(c)
  BY DEF Next, boardVars, Raise, Collect, Publish, List, RankList
<1> QED  BY <1>2, <1>3, <1>4

\* Whatever happens between its steps, Rank answers with a score of the time of
\* the call and a rank that some board gave the talent, or an estimate that is
\* no worse than a place of the time of the call.
THEOREM RankAnswersFromTheBoards ==
  ASSUME BoardConstants
  PROVE  Spec => []RankIsFromTheBoards
<1>1. RankInv => RankIsFromTheBoards
  <2> SUFFICES ASSUME RankInv, NEW c \in RankCalls, ranked[c].pc = "done"
               PROVE  LET t == ranked[c].talent
                          during == ranked[c].from..ranked[c].upto
                      IN  /\ \E i \in during :
                               t \in DOMAIN boards[i] /\ ranked[c].score = boards[i][t]
                          /\ IF ranked[c].estimated
                             THEN \E i \in during : ranked[c].rank \in 1..Place(boards[i], t)
                             ELSE \E i \in 1..ranked[c].upto :
                                    /\ t \in DOMAIN boards[i]
                                    /\ ranked[c].rank = RanksOf(boards[i])[t]
    BY DEF RankIsFromTheBoards
  <2>1. /\ RankFits(boards, ranked[c], ranked[c].upto)
        /\ ScoreFits(boards, ranked[c], ranked[c].upto)
    BY DEF RankInv, Fits
  <2> QED  BY <2>1 DEF RankFits, ScoreFits
<1>2. RankInv /\ [Next]_boardVars => RankInv'
  BY RankStep
<1> QED  BY <1>1, <1>2, RankInit, PTL DEF Spec

-----------------------------------------------------------------------------
(* TopN *)

\* Ranking the first talents of a board among themselves gives the ranks they
\* have on the board: whoever is better than one of them is one of them.
LEMMA TopRanks ==
  ASSUME BoardConstants, NEW b \in Boards, NEW t \in DOMAIN TopOf(b)
  PROVE  t \in DOMAIN b /\ RanksOf(TopOf(b))[t] = RanksOf(b)[t]
<1> DEFINE top == TopOf(b)
<1>1. /\ DOMAIN b \subseteq Talents /\ IsFiniteSet(DOMAIN b)
      /\ \A u \in DOMAIN b : u \in Int /\ b[u] \in Int
  BY BoardValues DEF BoardConstants
<1>2. /\ DOMAIN top = {u \in DOMAIN b : Place(b, u) <= Limit}
      /\ \A u \in DOMAIN top : top[u] = b[u]
  BY DEF TopOf
<1>3. t \in DOMAIN b /\ Place(b, t) <= Limit
  BY <1>2
<1>4. ASSUME NEW u \in DOMAIN b, b[u] > b[t]
      PROVE  u \in DOMAIN top
  <2> DEFINE ahead(v) == {w \in DOMAIN b : Before(b, w, v)}
  <2>1. \A w \in DOMAIN b : Before(b, w, u) => Before(b, w, t)
    BY <1>1, <1>3, <1>4 DEF Before
  <2>2. ahead(u) \subseteq ahead(t)
    BY <2>1
  <2>3. IsFiniteSet(ahead(t))
    BY <1>1, FS_Subset
  <2>4. Cardinality(ahead(u)) <= Cardinality(ahead(t)) /\ IsFiniteSet(ahead(u))
    BY <2>2, <2>3, FS_Subset
  <2>5. Cardinality(ahead(u)) \in Nat /\ Cardinality(ahead(t)) \in Nat
    BY <2>3, <2>4, FS_CardinalityType
  <2>6. Place(b, u) = 1 + Cardinality(ahead(u)) /\ Place(b, t) = 1 + Cardinality(ahead(t))
    BY DEF Place
  <2>7. Limit \in Int
    BY DEF BoardConstants
  <2>8. Place(b, u) <= Limit
    BY <1>3, <2>4, <2>5, <2>6, <2>7
  <2> QED  BY <1>2, <2>8
<1>5. {u \in DOMAIN top : top[u] > top[t]} = {u \in DOMAIN b : b[u] > b[t]}
  BY <1>2, <1>4
<1> QED  BY <1>3, <1>5 DEF RanksOf

\* What a call of TopN has read fits the boards bs.
ListFits(bs, l) ==
  /\ l.pc \in {"listed", "done"} => l.at \in DOMAIN bs /\ l.top = TopOf(bs[l.at])
  /\ l.pc = "done" =>
       \E k \in DOMAIN bs : \A t \in DOMAIN l.top :
         t \in DOMAIN bs[k] /\ l.ranks[t] = RanksOf(bs[k])[t]

ListInv ==
  /\ SnapshotInv
  /\ DOMAIN listed = TopNCalls
  /\ \A c \in TopNCalls :
       DOMAIN listed[c] = {"pc", "at", "top", "ranks"} /\ ListFits(boards, listed[c])

LEMMA ListInit == Init => ListInv
<1> SUFFICES ASSUME Init PROVE ListInv
  OBVIOUS
<1>1. \A c \in TopNCalls : listed[c] = IdleTop
  BY DEF Init
<1>2. IdleTop.pc = "idle" /\ DOMAIN IdleTop = {"pc", "at", "top", "ranks"}
  BY DEF IdleTop
<1> QED  BY <1>1, <1>2, SnapshotInit DEF Init, ListInv, ListFits

\* One step of a call.
LEMMA ListMoves ==
  ASSUME BoardConstants, ListInv, NEW c \in TopNCalls, List(c) \/ RankList(c)
  PROVE  /\ DOMAIN listed' = TopNCalls
         /\ \A d \in TopNCalls : d # c => listed'[d] = listed[d]
         /\ DOMAIN listed'[c] = {"pc", "at", "top", "ranks"}
         /\ ListFits(boards', listed'[c])
<1> DEFINE l == listed[c]
           m == listed'[c]
<1>1. /\ HistoryInv /\ SnapshotWasTrue /\ DOMAIN listed = TopNCalls
      /\ DOMAIN l = {"pc", "at", "top", "ranks"} /\ ListFits(boards, l)
  BY DEF ListInv, SnapshotInv
<1>2. Len(boards) \in DOMAIN boards /\ board = boards[Len(boards)]
  BY <1>1, LenProperties, EmptySeq DEF HistoryInv
<1>3. CASE List(c)
  <2>1. /\ boards' = boards
        /\ listed' = [listed EXCEPT ![c].pc = "listed", ![c].at = Len(boards),
                                    ![c].top = TopOf(board)]
    BY <1>3 DEF List
  <2>2. /\ DOMAIN listed' = TopNCalls /\ DOMAIN m = DOMAIN l
        /\ \A d \in TopNCalls : d # c => listed'[d] = listed[d]
        /\ m.pc = "listed" /\ m.at = Len(boards) /\ m.top = TopOf(board)
    BY <1>1, <2>1
  <2> QED  BY <1>1, <1>2, <2>1, <2>2 DEF ListFits
<1>4. CASE RankList(c)
  <2> DEFINE ranks == IF DOMAIN l.top \subseteq DOMAIN snapshot
                      THEN [t \in DOMAIN l.top |-> snapshot[t]] ELSE RanksOf(l.top)
  <2>1. /\ l.pc = "listed" /\ boards' = boards
        /\ listed' = [listed EXCEPT ![c].pc = "done", ![c].ranks = ranks]
    BY <1>4 DEF RankList
  <2>2. /\ DOMAIN listed' = TopNCalls /\ DOMAIN m = DOMAIN l
        /\ \A d \in TopNCalls : d # c => listed'[d] = listed[d]
        /\ m.pc = "done" /\ m.at = l.at /\ m.top = l.top /\ m.ranks = ranks
    BY <1>1, <2>1
  <2>3. l.at \in DOMAIN boards /\ l.top = TopOf(boards[l.at])
    BY <1>1, <2>1 DEF ListFits
  <2>4. \E k \in DOMAIN boards : \A t \in DOMAIN l.top :
          t \in DOMAIN boards[k] /\ ranks[t] = RanksOf(boards[k])[t]
    <3>1. CASE DOMAIN l.top \subseteq DOMAIN snapshot
      <4>1. PICK k \in DOMAIN boards : snapshot = RanksOf(boards[k])
        BY <1>1 DEF SnapshotWasTrue
      <4>2. DOMAIN snapshot = DOMAIN boards[k]
        BY <4>1 DEF RanksOf
      <4> QED  BY <3>1, <4>1, <4>2
    <3>2. CASE ~(DOMAIN l.top \subseteq DOMAIN snapshot)
      <4>1. boards[l.at] \in Boards
        BY <1>1, <2>3, LenProperties, ElementOfSeq DEF HistoryInv
      <4>2. \A t \in DOMAIN l.top :
              t \in DOMAIN boards[l.at] /\ RanksOf(l.top)[t] = RanksOf(boards[l.at])[t]
        BY <2>3, <4>1, TopRanks
      <4> QED  BY <2>3, <3>2, <4>2
    <3> QED  BY <3>1, <3>2
  <2>5. ListFits(boards', m)
    BY <2>1, <2>2, <2>3, <2>4 DEF ListFits
  <2> QED  BY <1>1, <2>2, <2>5
<1> QED  BY <1>3, <1>4

LEMMA ListStep ==
  ASSUME BoardConstants, ListInv, [Next]_boardVars
  PROVE  ListInv'
<1>1. SnapshotInv' /\ DOMAIN boards \subseteq DOMAIN boards'
      /\ \A i \in DOMAIN boards : boards'[i] = boards[i]
  BY SnapshotStep, HistoryStep DEF ListInv, SnapshotInv
<1>2. ASSUME NEW d \in TopNCalls, listed'[d] = listed[d]
      PROVE  /\ DOMAIN listed'[d] = {"pc", "at", "top", "ranks"}
             /\ ListFits(boards', listed'[d])
  BY <1>1, <1>2 DEF ListInv, ListFits
<1>3. CASE UNCHANGED listed
  BY <1>1, <1>2, <1>3 DEF ListInv
<1>4. ASSUME NEW c \in TopNCalls, List(c) \/ RankList(c)
      PROVE  ListInv'
  BY <1>1, <1>2, <1>4, ListMoves DEF ListInv
<1>5. UNCHANGED listed \/ \E c \in TopNCalls : List(c) \/ RankList(c)
  BY DEF Next, boardVars, Raise, Collect, Publish, Find, LookUp, Estimate, ReadScore, Answer,
         RankGoes
<1> QED  BY <1>3, <1>4, <1>5

\* TopN gives its list the ranks of one board there has been, whether it takes
\* them from the snapshot or ranks the list by itself.
THEOREM ListsAreFromTheBoards ==
  ASSUME BoardConstants
  PROVE  Spec => []TopNIsFromTheBoards
<1>1. ListInv => TopNIsFromTheBoards
  BY DEF ListInv, ListFits, TopNIsFromTheBoards
<1>2. ListInv /\ [Next]_boardVars => ListInv'
  BY ListStep
<1> QED  BY <1>1, <1>2, ListInit, PTL DEF Spec
=============================================================================
