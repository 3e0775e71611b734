------------------------ MODULE LoadGeneratorProofs ------------------------
(***************************************************************************)
(* Run reads what its workers have written only after they have ended, and *)
(* therefore a warning of its verification has a cause; the goroutines of  *)
(* the generation fill every slot once; and the counters of the submission *)
(* account for every event.  For any number of events and workers, any     *)
(* scores, failing requests and cancellation.                              *)
(***************************************************************************)
EXTENDS LoadGenerator, FiniteSetTheorems, SequenceTheorems, TLAPS

USE LoadAssumption DEF Groups, Idle, Ended, Unborn

-----------------------------------------------------------------------------
(* Workers and phases *)

WaitInv ==
  /\ worker \in [Groups -> [Pool -> Int]]
  /\ jobs \in [Groups -> Seq(Events)]
  /\ ReadAfterWait

LEMMA WaitInit == Init => WaitInv
<1> SUFFICES ASSUME Init PROVE WaitInv
  OBVIOUS
<1>1. <<>> \in Seq(Events)
  BY EmptySeq
<1> QED  BY <1>1 DEF Init, WaitInv, ReadAfterWait

\* A step of one worker is made in the phase of its group.
LEMMA WaitWorker ==
  ASSUME WaitInv, NEW g \in Groups, NEW w \in Pool, Worker(g, w)
  PROVE  WaitInv' /\ phase = g /\ phase' = phase
<1>1. ASSUME NEW where \in Int, WorkerAt(g, w, where), worker[g][w] \in Events \cup {Idle},
             phase' = phase, jobs' \in [Groups -> Seq(Events)]
      PROVE  WaitInv' /\ phase = g /\ phase' = phase
  <2>1. worker[g][w] # -1 /\ worker[g][w] # -2
    BY <1>1 DEF Events
  <2>2. phase = g
    BY <2>1 DEF WaitInv, ReadAfterWait
  <2>3. /\ worker' \in [Groups -> [Pool -> Int]]
        /\ \A h \in Groups, v \in Pool : h # g => worker'[h][v] = worker[h][v]
    BY <1>1 DEF WorkerAt, WaitInv
  <2>4. ReadAfterWait'
    BY <1>1, <2>2, <2>3 DEF WaitInv, ReadAfterWait
  <2> QED  BY <1>1, <2>2, <2>3, <2>4 DEF WaitInv
<1>2. CASE Take(g, w)
  <2>1. worker[g][w] = Idle /\ jobs[g] # <<>> /\ jobs[g] \in Seq(Events) /\ phase' = phase
    BY <1>2 DEF Take, WaitInv
  <2>2. Head(jobs[g]) \in Events /\ Tail(jobs[g]) \in Seq(Events)
    BY <2>1, HeadTailProperties
  <2>3. jobs' \in [Groups -> Seq(Events)]
    BY <1>2, <2>2 DEF Take, WaitInv
  <2>4. \E where \in Int : WorkerAt(g, w, where)
    BY <1>2, <2>2 DEF Take, Events
  <2> QED  BY <1>1, <2>1, <2>3, <2>4
<1>3. CASE WorkerEnds(g, w)
  <2>1. worker[g][w] = Idle /\ WorkerAt(g, w, Ended) /\ UNCHANGED <<phase, jobs>>
    BY <1>3 DEF WorkerEnds
  <2>2. Ended \in Int
    OBVIOUS
  <2> QED  BY <1>1, <2>1, <2>2 DEF WaitInv
<1>4. CASE (g = "submit" /\ Submit(w)) \/ (g = "rank" /\ Retrieve(w))
  <2>1. worker[g][w] \in Events /\ WorkerAt(g, w, Idle) /\ UNCHANGED <<phase, jobs>>
    BY <1>4 DEF Submit, Retrieve
  <2>2. Idle \in Int
    OBVIOUS
  <2> QED  BY <1>1, <2>1, <2>2 DEF WaitInv
<1> QED  BY <1>2, <1>3, <1>4 DEF Worker

\* Run starts a group when no worker is left, and leaves its phase when all of
\* them have ended.
LEMMA WaitRun ==
  ASSUME WaitInv, Run
  PROVE  WaitInv'
<1> USE DEF WaitInv, ReadAfterWait
<1>1. CASE Generated \/ Slept
  BY <1>1 DEF Generated, Slept, StartGroup
<1>2. CASE Submitted \/ Ranked
  BY <1>2 DEF Submitted, Ranked, GroupOver, Waited, groups
<1>3. CASE Healthy \/ HealthFails \/ CollectResult \/ CollectCancelled
  BY <1>3 DEF Healthy, HealthFails, CollectResult, CollectCancelled, groups
<1>4. CASE GetLeaderboard \/ LeaderboardFails \/ Verify
  BY <1>4 DEF GetLeaderboard, LeaderboardFails, Verify, groups
<1> QED  BY <1>1, <1>2, <1>3, <1>4 DEF Run

LEMMA WaitStep ==
  ASSUME WaitInv, [Next]_vars
  PROVE  WaitInv'
<1>1. ASSUME NEW g \in Groups, Feeder(g) PROVE WaitInv'
  <2>1. CASE Feed(g)
    <3>1. jobs[g] \in Seq(Events) /\ feed[g] \in Events
      BY <2>1 DEF Feed, Feeding, WaitInv
    <3>2. Append(jobs[g], feed[g]) \in Seq(Events)
      BY <3>1, AppendProperties
    <3> QED  BY <2>1, <3>2 DEF Feed, WaitInv, ReadAfterWait
  <2>2. CASE FeedCancelled(g)
    BY <2>2 DEF FeedCancelled, WaitInv, ReadAfterWait
  <2> QED  BY <1>1, <2>1, <2>2 DEF Feeder
<1>2. CASE UNCHANGED <<phase, worker, jobs>>
  BY <1>2 DEF WaitInv, ReadAfterWait
<1>3. ASSUME NEW k \in Generators, Generator(k) PROVE UNCHANGED <<phase, worker, jobs>>
  BY <1>3 DEF Generator, Generate, GenerateFails, Put, groups
<1>4. Cancel \/ Apply \/ UNCHANGED vars => UNCHANGED <<phase, worker, jobs>>
  BY DEF Cancel, Apply, vars, groups
<1> QED  BY <1>1, <1>2, <1>3, <1>4, WaitRun, WaitWorker DEF Next

\* Counters and rankings are not written any more when Run reads them.
THEOREM WaitsBeforeReading == Spec => []ReadAfterWait
<1>1. WaitInv => ReadAfterWait
  BY DEF WaitInv
<1> QED  BY <1>1, WaitInit, WaitStep, PTL DEF Spec

-----------------------------------------------------------------------------
(* The verification *)

\* The first of the board b is a rival or has been applied, with its own score,
\* nobody in the rankings is better, and b is sorted.
Leads(b) ==
  /\ b[1].talent \in Rivals \cup applied
  /\ b[1].talent \in Events => b[1] = [talent |-> b[1].talent, score |-> Score[b[1].talent]]
  /\ \A e \in rankings : Score[e] <= b[1].score
  /\ \A i \in 2..Len(b) : b[i].score <= b[i - 1].score

\* The leaderboard was at least as good as the rankings when it was fetched, and
\* the rankings do not change after that.
WarningInv ==
  /\ rankings \subseteq applied /\ applied \subseteq accepted /\ accepted \subseteq Events
  /\ phase = "verify" /\ leaderboard # <<>> => Leads(leaderboard)
  /\ verdict = "warning" => phase = "done"
  /\ WarningHasCause

LEMMA WarningInit == Init => WarningInv
  BY DEF Init, WarningInv, WarningHasCause

\* The server's entries are finitely many.
LEMMA EntriesFinite ==
  ASSUME applied \subseteq Events, NEW rivals \in RivalBoards
  PROVE  /\ IsFiniteSet(Entries(rivals))
         /\ \A x \in Entries(rivals) : x.score \in Int
         /\ \A x \in Entries(rivals) :
              \/ x.talent \in Rivals
              \/ x.talent \in applied /\ x = [talent |-> x.talent, score |-> Score[x.talent]]
<1>1. PICK S \in SUBSET Rivals : rivals \in [S -> RivalScores]
  BY DEF RivalBoards
<1> DEFINE own    == {[talent |-> e, score |-> Score[e]] : e \in applied}
           theirs == {[talent |-> r, score |-> rivals[r]] : r \in S}
<1>2. Entries(rivals) = own \cup theirs
  BY <1>1 DEF Entries
<1>3. IsFiniteSet(applied) /\ IsFiniteSet(S)
  <2>1. 1 \in Int /\ NumEvents \in Int
    OBVIOUS
  <2>2. IsFiniteSet(1..NumEvents)
    BY <2>1, FS_Interval
  <2> QED  BY <1>1, <2>2, FS_Subset, RivalsAssumption DEF Events
<1>4. IsFiniteSet(own)
  <2> DEFINE f == [e \in applied |-> [talent |-> e, score |-> Score[e]]]
  <2>1. f \in Surjection(applied, own)
    BY DEF Surjection
  <2> HIDE DEF f, own
  <2> QED  BY <1>3, <2>1, FS_Surjection
<1>5. IsFiniteSet(theirs)
  <2> DEFINE f == [r \in S |-> [talent |-> r, score |-> rivals[r]]]
  <2>1. f \in Surjection(S, theirs)
    BY DEF Surjection
  <2> HIDE DEF f, theirs
  <2> QED  BY <1>3, <2>1, FS_Surjection
<1>6. \A x \in own : /\ x.score \in Int /\ x.talent \in applied
                    /\ x = [talent |-> x.talent, score |-> Score[x.talent]]
  OBVIOUS
<1>7. \A x \in theirs : x.score \in Int /\ x.talent \in Rivals
  <2>1. \A r \in S : rivals[r] \in Int /\ r \in Rivals
    BY <1>1, RivalsAssumption
  <2> QED  BY <2>1
<1> HIDE DEF own, theirs
<1>8. IsFiniteSet(own \cup theirs)
  BY <1>4, <1>5, FS_Union
<1> QED  BY <1>2, <1>6, <1>7, <1>8

\* The best of a leaderboard is as good as anybody on the server.
LEMMA BestOfBoards ==
  ASSUME applied \subseteq Events, rankings \subseteq applied,
         NEW rivals \in RivalBoards, NEW b \in Boards(Entries(rivals)), b # <<>>
  PROVE  Leads(b)
<1> DEFINE E == Entries(rivals)
           n == IF Cardinality(E) < TopN THEN Cardinality(E) ELSE TopN
<1>1. /\ b \in [1..n -> E]
      /\ \A i, j \in 1..n : i < j => b[i].score >= b[j].score
      /\ \A x \in E : (\E i \in 1..n : b[i] = x) \/ \A i \in 1..n : b[i].score >= x.score
  BY DEF Boards
<1>2. n \in Nat
  BY EntriesFinite, FS_CardinalityType
<1>3. /\ \A x \in E : x.score \in Int
      /\ \A x \in E :
           \/ x.talent \in Rivals
           \/ x.talent \in applied /\ x = [talent |-> x.talent, score |-> Score[x.talent]]
  BY EntriesFinite
<1>4. \A e \in rankings : [talent |-> e, score |-> Score[e]] \in E
  BY DEF Entries
<1> HIDE DEF E, n
<1>5. b \in Seq(E) /\ Len(b) = n
  BY <1>1, <1>2
<1>6. n # 0
  BY <1>5, EmptySeq
<1>7. 1 \in 1..n /\ \A i \in 1..n : i = 1 \/ 1 < i
  BY <1>2, <1>6
<1>8. b[1] \in E
  BY <1>1, <1>7
<1>9. ASSUME NEW e \in rankings
      PROVE  Score[e] <= b[1].score
  <2> DEFINE x == [talent |-> e, score |-> Score[e]]
  <2>1. x \in E /\ x.score = Score[e] /\ x.score \in Int /\ b[1].score \in Int
    BY <1>3, <1>4, <1>8
  <2> HIDE DEF x
  <2>2. ASSUME NEW i \in 1..n, b[i] = x
        PROVE  x.score <= b[1].score
    <3>1. i = 1 \/ b[1].score >= b[i].score
      BY <1>1, <1>7
    <3> QED  BY <2>1, <2>2, <3>1
  <2>3. CASE \A i \in 1..n : b[i].score >= x.score
    BY <1>7, <2>1, <2>3
  <2>4. x.score <= b[1].score
    BY <1>1, <2>1, <2>2, <2>3
  <2> QED  BY <2>1, <2>4
<1>10. ASSUME NEW i \in 2..Len(b)
       PROVE  b[i].score <= b[i - 1].score
  <2>1. i \in 1..n /\ i - 1 \in 1..n /\ i - 1 < i
    BY <1>2, <1>5
  <2>2. b[i].score \in Int /\ b[i - 1].score \in Int /\ b[i - 1].score >= b[i].score
    BY <1>1, <1>3, <2>1
  <2> QED  BY <2>2
<1>11. b[1].talent \in Rivals => b[1].talent \notin Events
  BY RivalsAssumption
<1> QED  BY <1>3, <1>8, <1>9, <1>10, <1>11 DEF Leads

\* A cause stays a cause as the server goes on applying events.
LEMMA CauseStays ==
  ASSUME WarningInv, UNCHANGED <<rankings, leaderboard, verdict>>, applied \subseteq applied'
  PROVE  WarningHasCause'
  BY DEF WarningInv, WarningHasCause, Foremost

\* And the leaderboard still leads.
LEMMA LeadsStays ==
  ASSUME WarningInv, UNCHANGED <<rankings, leaderboard>>, applied \subseteq applied',
         phase = "verify", leaderboard # <<>>
  PROVE  Leads(leaderboard)'
  BY DEF WarningInv, Leads

LEMMA WarningVerify ==
  ASSUME WarningInv, Verify
  PROVE  WarningInv'
<1>1. UNCHANGED <<accepted, applied, rankings, leaderboard>> /\ phase = "verify"
  BY DEF Verify, serverVars
<1>2. CASE UNCHANGED verdict
  BY <1>1, <1>2, CauseStays DEF Verify, WarningInv
<1>3. ASSUME NEW top \in Foremost(rankings), leaderboard # <<>>, phase' = "done",
             verdict' = IF Matches(top) THEN "verified" ELSE "warning"
      PROVE  WarningInv'
  <2> DEFINE t == leaderboard[1].talent
  <2>1. CASE Matches(top)
    BY <1>1, <1>3, <2>1 DEF WarningInv, WarningHasCause
  <2>2. CASE ~Matches(top)
    <3>1. Leads(leaderboard) /\ top \in rankings /\ rankings \subseteq applied
      BY <1>1, <1>3 DEF WarningInv, Foremost
    <3>2. CASE t \notin rankings
      <4>1. /\ t \in Rivals \cup (applied \ rankings)
            /\ \A e \in rankings : Score[e] <= leaderboard[1].score
        BY <3>1, <3>2 DEF Leads
      <4> QED  BY <1>1, <1>3, <4>1 DEF WarningInv, WarningHasCause
    <3>3. CASE t \in rankings
      <4>1. leaderboard[1] = [talent |-> t, score |-> Score[t]] /\ leaderboard[1].score = Score[t]
        <5>1. t \in Events
          BY <3>1, <3>3 DEF WarningInv
        <5> QED  BY <3>1, <5>1 DEF Leads
      <4>2. t \in Foremost(rankings)
        BY <3>1, <3>3, <4>1 DEF Leads, Foremost
      <4>3. t # top
        BY <2>2, <3>1, <4>1 DEF Matches, Leads
      <4>4. IsFiniteSet(Foremost(rankings))
        <5>1. Foremost(rankings) \subseteq Events
          BY DEF Foremost, WarningInv
        <5>2. 1 \in Int /\ NumEvents \in Int
          OBVIOUS
        <5> QED  BY <5>1, <5>2, FS_Interval, FS_Subset DEF Events
      <4> HIDE DEF t
      <4>5. Cardinality(Foremost(rankings)) > 1
        <5>1. IsFiniteSet({t}) /\ Cardinality({t}) = 1
          BY FS_Singleton
        <5>2. top \notin {t}
          BY <4>3
        <5>3. Cardinality({t} \cup {top}) = Cardinality({t}) + 1
          BY <5>1, <5>2, FS_AddElement, Zenon
        <5>4. {t} \cup {top} \subseteq Foremost(rankings)
          BY <1>3, <4>2
        <5>5. /\ Cardinality({t} \cup {top}) <= Cardinality(Foremost(rankings))
              /\ Cardinality(Foremost(rankings)) \in Nat
          BY <4>4, <5>4, FS_Subset, FS_CardinalityType
        <5> QED  BY <5>1, <5>3, <5>5
      <4>6. leaderboard[1].talent \in Foremost(rankings)
        BY <4>2 DEF t
      <4> QED  BY <1>1, <1>3, <4>5, <4>6 DEF WarningInv, WarningHasCause, Foremost
    <3> QED  BY <3>2, <3>3
  <2> QED  BY <2>1, <2>2
<1> QED  BY <1>2, <1>3 DEF Verify

LEMMA WarningStep ==
  ASSUME WaitInv, WarningInv, [Next]_vars
  PROVE  WarningInv'
<1>1. CASE GetLeaderboard
  <2>1. /\ phase' = "verify"
        /\ UNCHANGED <<accepted, applied, rankings, verdict>>
    BY <1>1 DEF GetLeaderboard, serverVars
  <2>2. PICK b : leaderboard' = b /\ \E rivals \in RivalBoards : b \in Boards(Entries(rivals))
    BY <1>1 DEF GetLeaderboard
  <2>3. b # <<>> => Leads(b)
    BY <2>2, BestOfBoards DEF WarningInv
  <2>4. leaderboard' # <<>> => Leads(leaderboard)'
    BY <2>1, <2>2, <2>3 DEF Leads
  <2>5. verdict # "warning"
    BY <1>1 DEF GetLeaderboard, WarningInv
  <2> QED  BY <2>1, <2>4, <2>5 DEF WarningInv, WarningHasCause
<1>2. ASSUME NEW w \in Pool, Submit(w)
      PROVE  WarningInv'
  <2>1. /\ accepted \subseteq accepted' /\ accepted' \subseteq Events
        /\ UNCHANGED <<phase, applied, rankings, leaderboard, verdict>>
    BY <1>2 DEF Submit, WarningInv
  <2> QED  BY <2>1, CauseStays, LeadsStays DEF WarningInv
<1>3. CASE Apply
  <2>1. /\ applied \subseteq applied' /\ applied' \subseteq accepted /\ accepted' = accepted
        /\ UNCHANGED <<phase, rankings, leaderboard, verdict>>
    BY <1>3 DEF Apply, outcome, WarningInv
  <2> QED  BY <2>1, CauseStays, LeadsStays DEF WarningInv
<1>4. ASSUME NEW w \in Pool, Worker("rank", w)
      PROVE  WarningInv'
  <2>1. phase = "rank" /\ phase' = phase
    BY <1>4, WaitWorker
  <2>2. rankings' \subseteq applied /\ UNCHANGED <<accepted, applied, verdict>>
    BY <1>4 DEF Worker, Take, WorkerEnds, Retrieve, serverVars, outcome, WarningInv
  <2>3. verdict # "warning"
    BY <2>1 DEF WarningInv
  <2> QED  BY <2>1, <2>2, <2>3 DEF WarningInv, WarningHasCause
<1>5. CASE UNCHANGED <<accepted, applied, rankings, leaderboard, verdict>>
           /\ (phase' = phase \/ (phase' # "verify" /\ phase # "done"))
  BY <1>5, CauseStays, LeadsStays DEF WarningInv
<1>6. ASSUME NEW w \in Pool, Take("submit", w) \/ WorkerEnds("submit", w)
      PROVE  UNCHANGED <<accepted, applied, rankings, leaderboard, verdict, phase>>
  BY <1>6 DEF Take, WorkerEnds, serverVars, outcome
<1>7. ASSUME NEW g \in Groups, Feeder(g)
      PROVE  UNCHANGED <<accepted, applied, rankings, leaderboard, verdict, phase>>
  BY <1>7 DEF Feeder, Feed, FeedCancelled, serverVars, outcome
<1>8. ASSUME NEW k \in Generators, Generator(k)
      PROVE  UNCHANGED <<accepted, applied, rankings, leaderboard, verdict, phase>>
  BY <1>8 DEF Generator, Generate, GenerateFails, Put, serverVars, outcome
<1>9. Cancel \/ UNCHANGED vars
        => UNCHANGED <<accepted, applied, rankings, leaderboard, verdict, phase>>
  BY DEF Cancel, vars, serverVars, outcome
<1>10. CASE Run /\ ~GetLeaderboard /\ ~Verify
  <2>1. /\ UNCHANGED <<accepted, applied, rankings, leaderboard, verdict>>
        /\ phase' = phase \/ (phase' # "verify" /\ phase # "done")
    BY <1>10 DEF Run, Healthy, HealthFails, CollectResult, CollectCancelled, Generated,
                 Submitted, Slept, Ranked, LeaderboardFails, GroupOver, StartGroup,
                 serverVars, outcome
  <2> QED  BY <1>5, <2>1
<1>11. CASE \E g \in Groups, w \in Pool : Worker(g, w)
  BY <1>2, <1>4, <1>5, <1>6, <1>11 DEF Worker
<1> QED  BY <1>1, <1>3, <1>5, <1>7, <1>8, <1>9, <1>10, <1>11, WarningVerify DEF Next

\* A warning of the verification tells of a talent that is not in the rankings
\* and as good as their best, or of best talents that tie, although the server
\* goes on applying events while ranks and leaderboard are fetched one after the
\* other and has the talents of others on its board.
THEOREM WarningsHaveCauses == Spec => []WarningHasCause
<1>1. WarningInv => WarningHasCause
  BY DEF WarningInv
<1>2. WaitInv /\ [Next]_vars => WaitInv'
  BY WaitStep
<1>3. WaitInv /\ WarningInv /\ [Next]_vars => WarningInv'
  BY WarningStep
<1> QED  BY <1>1, <1>2, <1>3, WaitInit, WarningInit, PTL DEF Spec

-----------------------------------------------------------------------------
(* Generation *)

\* The shares of the goroutines lie within the events, one after the other.
LEMMA Shares ==
  /\ \A k \in Generators : /\ First(k) \in Int /\ LastOf(k) \in Int
                           /\ 1 <= First(k) /\ First(k) <= LastOf(k) /\ LastOf(k) <= NumEvents
  /\ \A k, l \in Generators : k < l => LastOf(k) < First(l)
<1> DEFINE m == IF NumWorkers < NumEvents THEN NumWorkers ELSE NumEvents
           p == PerGenerator
<1>1. m \in Nat /\ 1 <= m /\ m <= NumEvents
  <2>1. CASE NumWorkers < NumEvents
    BY <2>1
  <2>2. CASE ~(NumWorkers < NumEvents)
    BY <2>2
  <2> QED  BY <2>1, <2>2
<1>2. Generators = 1..m /\ Cardinality(Generators) = m
  BY <1>1, FS_Interval DEF Generators
<1>3. p \in Nat /\ 1 <= p /\ m * p <= NumEvents
  <2>1. p = NumEvents \div m
    BY <1>2 DEF PerGenerator
  <2> HIDE DEF m
  <2>2. NumEvents \div m \in Nat /\ 1 <= NumEvents \div m /\ m * (NumEvents \div m) <= NumEvents
    BY <1>1
  <2> QED  BY <2>1, <2>2
<1> HIDE DEF m, p
<1>4. ASSUME NEW k \in 1..m PROVE k * p \in Int /\ 0 <= (k - 1) * p /\ (k - 1) * p + p = k * p
  <2>1. k \in Nat /\ k - 1 \in Nat /\ p \in Nat
    BY <1>1, <1>3
  <2>2. k * p \in Int /\ 0 <= (k - 1) * p
    BY <2>1
  <2>3. (k - 1) * p + p = k * p
    BY <2>1
  <2> QED  BY <2>2, <2>3
<1>5. ASSUME NEW k \in 1..m, NEW l \in 1..m, k < l PROVE k * p <= (l - 1) * p
  <2>1. PICK a \in Nat : l - 1 = k + a
    <3>1. l - 1 - k \in Nat /\ l - 1 = k + (l - 1 - k)
      BY <1>1, <1>5
    <3> QED  BY <3>1
  <2>2. k \in Int /\ p \in Int /\ p >= 0 /\ a >= 0
    BY <1>1, <1>3
  <2>3. (k + a) * p = k * p + a * p /\ a * p >= 0
    BY <2>2
  <2>4. k * p \in Int /\ a * p \in Int
    BY <2>2
  <2> QED  BY <2>1, <2>3, <2>4
<1>6. ASSUME NEW k \in 1..m, k # m PROVE k * p <= NumEvents
  <2>1. k * p <= (m - 1) * p /\ (m - 1) * p + p = m * p /\ k * p \in Int /\ (m - 1) * p \in Int
    BY <1>1, <1>3, <1>4, <1>5, <1>6
  <2>2. m * p \in Int
    BY <1>1, <1>3
  <2> QED  BY <1>3, <2>1, <2>2
<1>7. ASSUME NEW k \in 1..m
      PROVE  /\ First(k) = (k - 1) * p + 1 /\ First(k) \in Int
             /\ LastOf(k) = IF k = m THEN NumEvents ELSE k * p
  <2>1. (k - 1) * p \in Int
    BY <1>1, <1>3
  <2> QED  BY <1>2, <2>1 DEF First, LastOf, p
<1>8. ASSUME NEW k \in Generators
      PROVE  /\ First(k) \in Int /\ LastOf(k) \in Int
             /\ 1 <= First(k) /\ First(k) <= LastOf(k) /\ LastOf(k) <= NumEvents
  <2>1. k \in 1..m
    BY <1>2
  <2>2. CASE k = m
    <3>1. (k - 1) * p \in Int /\ 0 <= (k - 1) * p /\ (k - 1) * p + p = m * p /\ m * p \in Int
      BY <1>1, <1>3, <1>4, <2>1, <2>2
    <3> QED  BY <1>1, <1>3, <1>7, <2>1, <2>2, <3>1
  <2>3. CASE k # m
    <3>1. (k - 1) * p \in Int /\ 0 <= (k - 1) * p /\ (k - 1) * p + p = k * p /\ k * p \in Int
          /\ k * p <= NumEvents
      BY <1>1, <1>3, <1>4, <1>6, <2>1, <2>3
    <3> QED  BY <1>3, <1>7, <2>1, <2>3, <3>1
  <2> QED  BY <2>2, <2>3
<1>9. ASSUME NEW k \in Generators, NEW l \in Generators, k < l
      PROVE  LastOf(k) < First(l)
  <2>1. k \in 1..m /\ l \in 1..m /\ k # m
    BY <1>1, <1>2, <1>9
  <2>2. k * p <= (l - 1) * p /\ k * p \in Int /\ (l - 1) * p \in Int
    BY <1>1, <1>3, <1>5, <1>9, <2>1
  <2> QED  BY <1>7, <2>1, <2>2
<1> QED  BY <1>8, <1>9

\* A result for event e has been sent by the goroutine whose share e is in.
Made(nx, e) ==
  \E k \in DOMAIN nx :
    e \in First(k)..LastOf(k) /\ (nx[k] = 0 \/ e < nx[k])

\* Each event is in filled, or among the results that wait, at most once, and
\* only when its goroutine is past it.
FillInv ==
  /\ DOMAIN next \subseteq Generators
  /\ \A k \in DOMAIN next : next[k] \in {0} \cup First(k)..LastOf(k)
  /\ results \in Seq([index : Events, ok : BOOLEAN])
  /\ received \in Nat /\ filled \subseteq Events
  /\ \A e \in filled : Made(next, e)
  /\ \A i \in 1..Len(results) : results[i].ok =>
       Made(next, results[i].index) /\ results[i].index \notin filled
  /\ \A i, j \in 1..Len(results) : i # j /\ results[i].ok /\ results[j].ok =>
       results[i].index # results[j].index
  /\ phase = "health" => received = 0 /\ filled = {} /\ results = <<>> /\ DOMAIN next = {}
  /\ EverySlotIsFilled

LEMMA FillInit == Init => FillInv
<1> SUFFICES ASSUME Init PROVE FillInv
  OBVIOUS
<1>1. <<>> \in Seq([index : Events, ok : BOOLEAN]) /\ Len(<<>>) = 0
  BY EmptySeq
<1> QED  BY <1>1 DEF Init, FillInv, EverySlotIsFilled

\* A goroutine sends the result of the next event of its share and goes on.
LEMMA FillPut ==
  ASSUME FillInv, NEW k \in DOMAIN next, next[k] # 0,
         NEW r, r \in [index : {next[k]}, ok : BOOLEAN],
         NEW then \in {next[k] + 1, NumEvents + 1}, Put(k, r, then)
  PROVE  FillInv'
<1> DEFINE e == next[k]
<1>0. /\ k \in Generators /\ \A l \in DOMAIN next : l \in Generators /\ l \in Int
      /\ e \in First(k)..LastOf(k)
      /\ \A l \in Generators : First(l) \in Int /\ LastOf(l) \in Int
      /\ LastOf(k) <= NumEvents /\ 1 <= First(k)
  BY Shares DEF FillInv, Generators
<1>1. e \in Int /\ e \in Events
  BY <1>0 DEF Events
<1>2. ~Made(next, e)
  <2> SUFFICES ASSUME NEW l \in DOMAIN next, e \in First(l)..LastOf(l), next[l] = 0 \/ e < next[l]
               PROVE  FALSE
    BY DEF Made
  <2>1. l # k
    BY <1>1
  <2>2. l < k \/ k < l
    BY <1>0, <2>1
  <2> QED  BY <1>0, <1>1, <2>2, Shares
<1>3. /\ results' = Append(results, r) /\ r.index = e
      /\ next' = [next EXCEPT ![k] = IF then > LastOf(k) THEN 0 ELSE then]
      /\ UNCHANGED <<phase, received, filled>>
  BY DEF Put
<1>4. DOMAIN next' = DOMAIN next /\ \A l \in DOMAIN next : l # k => next'[l] = next[l]
  BY <1>3
<1>5. next'[k] = 0 \/ (next'[k] = e + 1 /\ e + 1 <= LastOf(k))
  <2>1. next'[k] = IF then > LastOf(k) THEN 0 ELSE then
    BY <1>3
  <2>2. CASE then = e + 1
    BY <1>0, <1>1, <2>1, <2>2
  <2>3. CASE then = NumEvents + 1
    BY <1>0, <1>1, <2>1, <2>3
  <2> QED  BY <2>2, <2>3
<1>6. ASSUME NEW f, Made(next, f)
      PROVE  Made(next', f)
  <2>1. PICK l \in DOMAIN next : f \in First(l)..LastOf(l) /\ (next[l] = 0 \/ f < next[l])
    BY <1>6 DEF Made
  <2>2. next'[l] = 0 \/ f < next'[l]
    <3>1. f \in Int
      BY <1>0, <2>1
    <3>2. CASE l = k
      BY <1>1, <1>5, <2>1, <3>1, <3>2
    <3> QED  BY <1>4, <2>1, <3>2
  <2> QED  BY <1>4, <2>1, <2>2 DEF Made
<1>7. Made(next', e)
  <2>1. next'[k] = 0 \/ e < next'[k]
    BY <1>1, <1>5
  <2> QED  BY <1>0, <1>4, <2>1 DEF Made
<1>8. ASSUME NEW l \in DOMAIN next' PROVE next'[l] \in {0} \cup First(l)..LastOf(l)
  <2>1. CASE l = k
    BY <1>0, <1>1, <1>5, <2>1
  <2> QED  BY <1>4, <2>1 DEF FillInv
<1>9. /\ results' \in Seq([index : Events, ok : BOOLEAN]) /\ Len(results') = Len(results) + 1
      /\ \A i \in 1..Len(results) : results'[i] = results[i]
      /\ results'[Len(results) + 1] = r /\ Len(results) \in Nat
  <2>1. r \in [index : Events, ok : BOOLEAN]
    BY <1>1
  <2>2. results \in Seq([index : Events, ok : BOOLEAN])
    BY DEF FillInv
  <2> QED  BY <1>3, <2>1, <2>2, AppendProperties
<1> DEFINE n == Len(results)
<1>10. \A i \in 1..Len(results') : i \in 1..n \/ i = n + 1
  BY <1>9
<1>11. ASSUME NEW i \in 1..Len(results'), results'[i].ok
       PROVE  Made(next', results'[i].index) /\ results'[i].index \notin filled
  <2>1. CASE i \in 1..n
    BY <1>6, <1>9, <1>11, <2>1 DEF FillInv
  <2>2. CASE i = n + 1
    BY <1>2, <1>3, <1>7, <1>9, <2>2 DEF FillInv
  <2> QED  BY <1>10, <2>1, <2>2
<1>12. ASSUME NEW i \in 1..n, results[i].ok
       PROVE  results[i].index # e
  BY <1>2, <1>12 DEF FillInv
<1>13. ASSUME NEW i \in 1..Len(results'), NEW j \in 1..Len(results'), i # j,
              results'[i].ok, results'[j].ok
       PROVE  results'[i].index # results'[j].index
  <2>1. CASE i \in 1..n /\ j \in 1..n
    <3>1. results'[i] = results[i] /\ results'[j] = results[j]
      BY <1>9, <2>1
    <3> QED  BY <1>13, <2>1, <3>1 DEF FillInv
  <2>2. CASE i \in 1..n /\ j = n + 1
    BY <1>3, <1>9, <1>12, <1>13, <2>2
  <2>3. CASE i = n + 1 /\ j \in 1..n
    BY <1>3, <1>9, <1>12, <1>13, <2>3
  <2> QED  BY <1>10, <1>13, <2>1, <2>2, <2>3
<1>14. \A f \in filled : Made(next', f)
  BY <1>6 DEF FillInv
<1>15. DOMAIN next # {} /\ phase # "health"
  BY DEF FillInv
<1> QED  BY <1>3, <1>4, <1>8, <1>9, <1>11, <1>13, <1>14, <1>15
        DEF FillInv, EverySlotIsFilled, Generators, First, LastOf, PerGenerator

\* Run takes the first result.
LEMMA FillCollect ==
  ASSUME FillInv, CollectResult
  PROVE  FillInv'
<1> DEFINE R == [index : Events, ok : BOOLEAN]
           r == Head(results)
<1>1. /\ phase = "generate" /\ results # <<>> /\ results \in Seq(R)
      /\ filled' = IF r.ok THEN filled \cup {r.index} ELSE filled
      /\ phase' = IF r.ok THEN phase ELSE "failed"
      /\ results' = Tail(results) /\ received' = received + 1 /\ next' = next
      /\ received \in Nat /\ filled \subseteq Events
  BY DEF CollectResult, FillInv
<1>2. /\ r = results[1] /\ r \in R /\ 1 \in 1..Len(results)
      /\ Len(Tail(results)) = Len(results) - 1 /\ Tail(results) \in Seq(R)
      /\ \A i \in 1..Len(Tail(results)) :
           Tail(results)[i] = results[i + 1] /\ i + 1 \in 1..Len(results) /\ i + 1 # 1
  <2>1. /\ r = results[1] /\ r \in R /\ Tail(results) \in Seq(R)
        /\ Len(Tail(results)) = Len(results) - 1
        /\ \A i \in 1..Len(Tail(results)) : Tail(results)[i] = results[i + 1]
    <3>1. r \in R /\ Tail(results) \in Seq(R) /\ Len(Tail(results)) = Len(results) - 1
          /\ \A i \in 1..Len(Tail(results)) : Tail(results)[i] = results[i + 1]
      BY <1>1, HeadTailProperties, Zenon
    <3> QED  BY <1>1, <3>1
  <2>2. Len(results) \in Nat /\ Len(results) # 0
    BY <1>1, EmptySeq, LenProperties
  <2>3. \A i \in 1..Len(Tail(results)) : i + 1 \in 1..Len(results) /\ i + 1 # 1
    BY <2>1, <2>2
  <2> QED  BY <2>1, <2>2, <2>3
<1> HIDE DEF r
<1>3. \A f : Made(next', f) <=> Made(next, f)
  BY <1>1 
<1>4. r.ok => r.index \notin filled /\ Made(next, r.index)
  BY <1>1, <1>2 DEF FillInv
<1>5. ASSUME NEW i \in 1..Len(results'), results'[i].ok
      PROVE  Made(next, results'[i].index) /\ results'[i].index \notin filled'
  <2>1. /\ results'[i] = results[i + 1] /\ i + 1 \in 1..Len(results) /\ i + 1 # 1
        /\ results[i + 1].ok
    BY <1>1, <1>2, <1>5
  <2>2. r.ok => results[i + 1].index # r.index
    BY <1>2, <2>1 DEF FillInv
  <2>3. Made(next, results[i + 1].index) /\ results[i + 1].index \notin filled
    BY <2>1 DEF FillInv
  <2> QED  BY <1>1, <2>1, <2>2, <2>3
<1>6. ASSUME NEW i \in 1..Len(results'), NEW j \in 1..Len(results'), i # j,
             results'[i].ok, results'[j].ok
      PROVE  results'[i].index # results'[j].index
  <2>1. /\ results'[i] = results[i + 1] /\ i + 1 \in 1..Len(results)
        /\ results'[j] = results[j + 1] /\ j + 1 \in 1..Len(results) /\ i + 1 # j + 1
    BY <1>1, <1>2, <1>6
  <2> QED  BY <1>6, <2>1 DEF FillInv
<1>7. filled' \subseteq Events /\ \A f \in filled' : Made(next, f)
  BY <1>1, <1>2, <1>4 DEF FillInv
<1>8. r.ok => Cardinality(filled') = received'
  <2>1. IsFiniteSet(filled)
    <3>1. IsFiniteSet(1..NumEvents)
      BY FS_Interval
    <3> QED  BY <1>1, <3>1, FS_Subset DEF Events
  <2>2. Cardinality(filled) = received
    BY <1>1 DEF FillInv, EverySlotIsFilled
  <2> QED  BY <1>1, <1>4, <2>1, <2>2, FS_AddElement
<1>9. EverySlotIsFilled'
  BY <1>1, <1>8 DEF EverySlotIsFilled
<1> QED  BY <1>1, <1>2, <1>3, <1>5, <1>6, <1>7, <1>9
        DEF FillInv, Generators, First, LastOf, PerGenerator

\* Run goes from one phase to the next.
LEMMA FillRun ==
  ASSUME FillInv, Run, ~CollectResult
  PROVE  FillInv'
<1>1. CASE Healthy
  <2>1. /\ phase = "health" /\ phase' = "generate" /\ next' = [k \in Generators |-> First(k)]
        /\ UNCHANGED <<results, received, filled>>
    BY <1>1 DEF Healthy
  <2>2. received = 0 /\ filled = {} /\ results = <<>> /\ Cardinality({}) = 0
    BY <2>1, FS_EmptySet DEF FillInv
  <2>3. \A k \in Generators : First(k) \in First(k)..LastOf(k)
    BY Shares
  <2>4. <<>> \in Seq([index : Events, ok : BOOLEAN]) /\ Len(<<>>) = 0
    BY EmptySeq
  <2> QED  BY <2>1, <2>2, <2>3, <2>4
          DEF FillInv, EverySlotIsFilled, Generators, First, LastOf, PerGenerator
<1>2. CASE phase' \notin {"health", "generate"} /\ UNCHANGED generation
           /\ (phase' = "failed" \/ filled = Events)
  <2>1. \A f : Made(next', f) <=> Made(next, f)
    BY <1>2 DEF generation
  <2> QED  BY <1>2, <2>1
          DEF FillInv, EverySlotIsFilled, generation, Generators, First, LastOf, PerGenerator
<1>3. CASE Generated
  <2>1. phase = "generate" /\ received = NumEvents /\ phase' = "submit" /\ UNCHANGED generation
    BY <1>3 DEF Generated, StartGroup
  <2>2. filled \subseteq Events /\ Cardinality(filled) = NumEvents
    BY <2>1 DEF FillInv, EverySlotIsFilled
  <2>3. IsFiniteSet(Events) /\ Cardinality(Events) = NumEvents
    BY FS_Interval DEF Events
  <2>4. filled = Events
    BY <2>2, <2>3, FS_Subset
  <2> QED  BY <1>2, <2>1, <2>4
<1>4. CASE HealthFails \/ CollectCancelled \/ LeaderboardFails
  BY <1>2, <1>4 DEF HealthFails, CollectCancelled, LeaderboardFails
<1>5. CASE Submitted \/ Slept \/ Ranked \/ GetLeaderboard \/ Verify
  <2>1. /\ phase \in {"submit", "rank", "sleep", "board", "verify"} /\ UNCHANGED generation
        /\ phase' \in {"sleep", "rank", "board", "verify", "failed", "done"}
    BY <1>5 DEF Submitted, Slept, Ranked, GetLeaderboard, Verify, GroupOver, StartGroup
  <2> QED  BY <1>2, <2>1 DEF FillInv, EverySlotIsFilled
<1> QED  BY <1>1, <1>3, <1>4, <1>5 DEF Run

LEMMA FillStep ==
  ASSUME FillInv, [Next]_vars
  PROVE  FillInv'
<1>1. CASE UNCHANGED <<phase, generation>>
  <2>1. \A f : Made(next', f) <=> Made(next, f)
    BY <1>1 DEF generation
  <2> QED  BY <1>1, <2>1
          DEF FillInv, EverySlotIsFilled, generation, Generators, First, LastOf, PerGenerator
<1>2. ASSUME NEW g \in Groups, Feeder(g) PROVE UNCHANGED <<phase, generation>>
  BY <1>2 DEF Feeder, Feed, FeedCancelled
<1>3. ASSUME NEW g \in Groups, NEW w \in Pool, Worker(g, w) PROVE UNCHANGED <<phase, generation>>
  BY <1>3 DEF Worker, Take, WorkerEnds, Submit, Retrieve
<1>4. Cancel \/ Apply \/ UNCHANGED vars => UNCHANGED <<phase, generation>>
  BY DEF Cancel, Apply, vars
<1>5. ASSUME NEW k \in Generators, Generator(k) PROVE FillInv'
  <2>1. CASE Generate(k)
    BY <1>5, <2>1, FillPut DEF Generator, Generate
  <2>2. CASE GenerateFails(k)
    BY <1>5, <2>2, FillPut DEF Generator, GenerateFails
  <2> QED  BY <1>5, <2>1, <2>2 DEF Generator
<1> QED  BY <1>1, <1>2, <1>3, <1>4, <1>5, FillCollect, FillRun DEF Next

\* However the goroutines of the generation share the work, and in whatever
\* order their results arrive, no slot of `events` is left empty or set twice.
THEOREM SlotsAreFilled == Spec => []EverySlotIsFilled
<1>1. FillInv => EverySlotIsFilled
  BY DEF FillInv
<1>2. FillInv /\ [Next]_vars => FillInv'
  BY FillStep
<1> QED  BY <1>1, <1>2, FillInit, PTL DEF Spec

-----------------------------------------------------------------------------
(* Accounting *)

\* The events that are still to be submitted: not yet fed, in the channel or
\* at a worker.
Unfed == IF feed["submit"] = 0 THEN {} ELSE feed["submit"]..NumEvents
Queued == {jobs["submit"][i] : i \in 1..Len(jobs["submit"])}
InHand == {worker["submit"][w] : w \in Pool} \cap Events
Todo == Unfed \cup Queued \cup InHand

\* No event is at two places.
Once ==
  /\ Unfed \cap Queued = {} /\ Unfed \cap InHand = {} /\ Queued \cap InHand = {}
  /\ \A i, j \in 1..Len(jobs["submit"]) : i # j => jobs["submit"][i] # jobs["submit"][j]
  /\ \A v, w \in Pool : v # w /\ worker["submit"][w] \in Events =>
       worker["submit"][v] # worker["submit"][w]

\* A worker that has ended has seen the channel closed and empty, or the
\* cancellation.
Drained ==
  phase = "submit" /\ ~ctxDone /\ (\E w \in Pool : worker["submit"][w] = Ended) =>
    Unfed = {} /\ Queued = {}

\* No event is submitted twice.
PlaceInv ==
  /\ feed \in [Groups -> 0..NumEvents]
  /\ Once /\ Drained
  /\ accepted \subseteq Events /\ Todo \cap accepted = {}
  /\ phase \in {"health", "generate"} =>
       feed["submit"] = 0 /\ jobs["submit"] = <<>> /\ accepted = {}

\* Every event that has left Todo has been counted, and nothing else, unless
\* the run is cancelled.
CountInv ==
  /\ stats \in [submitted : Nat, successful : Nat, duplicate : Nat, failed : Nat]
  /\ stats.submitted = stats.successful + stats.duplicate + stats.failed
  /\ stats.successful <= Cardinality(accepted)
  /\ Cardinality(accepted) <= stats.successful + stats.failed
  /\ phase \in {"health", "generate"} => stats.submitted = 0
  /\ phase = "submit" /\ ~ctxDone => stats.submitted + Cardinality(Todo) = NumEvents
  /\ phase \in {"sleep", "rank", "board", "verify", "done"} =>
       ctxDone \/ stats.submitted = NumEvents

LEMMA PlacesStay ==
  ASSUME UNCHANGED <<feed["submit"], jobs["submit"], worker["submit"]>>
  PROVE  /\ Unfed' = Unfed /\ Queued' = Queued /\ InHand' = InHand /\ Todo' = Todo
         /\ Once' <=> Once
<1>1. Unfed' = Unfed
  BY DEF Unfed
<1>2. Queued' = Queued
  BY DEF Queued
<1>3. InHand' = InHand
  BY DEF InHand, Pool, Events
<1> QED  BY <1>1, <1>2, <1>3 DEF Todo, Once, Pool, Events

LEMMA PlaceInit == Init => PlaceInv
<1> SUFFICES ASSUME Init PROVE PlaceInv
  OBVIOUS
<1>1. Unfed = {} /\ Queued = {} /\ InHand = {}
  BY EmptySeq DEF Init, Unfed, Queued, InHand, Events
<1>2. Once
  BY <1>1, EmptySeq DEF Init, Once, Events
<1> QED  BY <1>1, <1>2 DEF Init, PlaceInv, Drained, Todo, Events

\* The feeder moves an event to the channel.
LEMMA PlaceFeed ==
  ASSUME WaitInv, PlaceInv, Feed("submit")
  PROVE  PlaceInv' /\ Todo' = Todo
<1> DEFINE f == feed["submit"]
           q == jobs["submit"]
<1>1. /\ f \in Events /\ q \in Seq(Events)
      /\ jobs' = [jobs EXCEPT !["submit"] = Append(q, f)]
      /\ feed' = [feed EXCEPT !["submit"] = IF f = NumEvents THEN 0 ELSE f + 1]
      /\ UNCHANGED <<phase, ctxDone, worker, accepted>>
  BY DEF Feed, Feeding, WaitInv, serverVars
<1>2. feed' \in [Groups -> 0..NumEvents] /\ feed'["submit"] = IF f = NumEvents THEN 0 ELSE f + 1
  BY <1>1 DEF PlaceInv, Events
<1>3. f \in Unfed /\ Unfed' = Unfed \ {f}
  <2>1. f \in Int /\ 1 <= f /\ f <= NumEvents
    BY <1>1 DEF Events
  <2>2. CASE f = NumEvents
    BY <1>2, <2>1, <2>2 DEF Unfed
  <2>3. CASE f # NumEvents
    BY <1>2, <2>1, <2>3 DEF Unfed
  <2> QED  BY <2>2, <2>3
<1>4. /\ jobs'["submit"] = Append(q, f) /\ Len(jobs'["submit"]) = Len(q) + 1 /\ Len(q) \in Nat
      /\ \A i \in 1..Len(q) : jobs'["submit"][i] = q[i]
      /\ jobs'["submit"][Len(q) + 1] = f
  <2>1. jobs'["submit"] = Append(q, f)
    BY <1>1 DEF WaitInv
  <2> QED  BY <1>1, <2>1, AppendProperties
<1>5. \A i \in 1..Len(jobs'["submit"]) : i \in 1..Len(q) \/ i = Len(q) + 1
  BY <1>4
<1>6. Queued' = Queued \cup {f}
  <2>1. ASSUME NEW x \in Queued' PROVE x \in Queued \cup {f}
    BY <1>4, <1>5, <2>1 DEF Queued
  <2>2. ASSUME NEW x \in Queued \cup {f} PROVE x \in Queued'
    <3>1. \A i \in 1..Len(q) : i \in 1..Len(jobs'["submit"])
      BY <1>4
    <3>2. Len(q) + 1 \in 1..Len(jobs'["submit"])
      BY <1>4
    <3> QED  BY <1>4, <2>2, <3>1, <3>2 DEF Queued
  <2> QED  BY <2>1, <2>2
<1>7. InHand' = InHand
  BY <1>1 DEF InHand, Pool, Events
<1>8. Todo' = Todo
  BY <1>3, <1>6, <1>7 DEF Todo
<1>9. \A i, j \in 1..Len(jobs'["submit"]) : i # j => jobs'["submit"][i] # jobs'["submit"][j]
  <2>1. \A i \in 1..Len(q) : q[i] # f
    BY <1>3 DEF PlaceInv, Once, Queued
  <2> QED  BY <1>4, <1>5, <2>1 DEF PlaceInv, Once
<1>10. Once'
  <2>1. /\ Unfed' \cap Queued' = {} /\ Unfed' \cap InHand' = {} /\ Queued' \cap InHand' = {}
    BY <1>3, <1>6, <1>7 DEF PlaceInv, Once
  <2> QED  BY <1>1, <1>9, <2>1 DEF PlaceInv, Once, Pool, Events
<1>11. Drained'
  BY <1>1, <1>3 DEF PlaceInv, Drained
<1>12. phase \notin {"health", "generate"}
  BY <1>1 DEF PlaceInv, Events
<1> QED  BY <1>1, <1>2, <1>8, <1>10, <1>11, <1>12 DEF PlaceInv

\* A cancelled feeder forgets the rest.
LEMMA PlaceFeedCancelled ==
  ASSUME WaitInv, PlaceInv, FeedCancelled("submit")
  PROVE  PlaceInv'
<1>1. /\ ctxDone /\ feed' = [feed EXCEPT !["submit"] = 0]
      /\ UNCHANGED <<phase, ctxDone, jobs, worker, accepted>>
  BY DEF FeedCancelled, serverVars
<1>2. Unfed' = {} /\ Queued' = Queued /\ InHand' = InHand
  BY <1>1 DEF Unfed, Queued, InHand, Pool, Events, PlaceInv
<1>3. Once'
  BY <1>1, <1>2 DEF PlaceInv, Once, Pool, Events
<1> QED  BY <1>1, <1>2, <1>3 DEF PlaceInv, Drained, Todo, Events

\* A worker takes an event, and ends instead when the run is cancelled.
LEMMA PlaceTake ==
  ASSUME WaitInv, PlaceInv, NEW w \in Pool, Take("submit", w)
  PROVE  PlaceInv' /\ (ctxDone \/ Todo' = Todo)
<1> DEFINE q == jobs["submit"]
           h == Head(q)
           at == worker["submit"]
           p == worker'["submit"]
           q2 == jobs'["submit"]
<1>1. /\ at[w] = Idle /\ q # <<>> /\ q \in Seq(Events)
      /\ jobs' = [jobs EXCEPT !["submit"] = Tail(q)]
      /\ worker' = [worker EXCEPT !["submit"][w] = IF ctxDone THEN Ended ELSE h]
      /\ UNCHANGED <<phase, ctxDone, feed, accepted>>
  BY DEF Take, WorkerAt, WaitInv, serverVars
<1>2. p[w] = (IF ctxDone THEN Ended ELSE h) /\ \A v \in Pool : v # w => p[v] = at[v]
  BY <1>1 DEF WaitInv
<1>3. /\ q2 = Tail(q) /\ h \in Events /\ Tail(q) \in Seq(Events) /\ Len(Tail(q)) = Len(q) - 1
      /\ \A i \in 1..Len(Tail(q)) : Tail(q)[i] = q[i + 1]
      /\ h = q[1] /\ Len(q) \in Nat /\ Len(q) # 0
  <2>1. q2 = Tail(q)
    BY <1>1 DEF WaitInv
  <2>2. /\ h \in Events /\ Tail(q) \in Seq(Events) /\ Len(Tail(q)) = Len(q) - 1
        /\ \A i \in 1..Len(Tail(q)) : Tail(q)[i] = q[i + 1]
    BY <1>1, HeadTailProperties, Zenon
  <2>3. h = q[1] /\ Len(q) \in Nat /\ Len(q) # 0
    BY <1>1, EmptySeq, LenProperties
  <2> QED  BY <2>1, <2>2, <2>3
<1> HIDE DEF h
<1>4. /\ \A i \in 1..Len(q2) : i + 1 \in 1..Len(q) /\ i + 1 # 1 /\ q2[i] = q[i + 1]
      /\ \A i \in 1..Len(q) : i = 1 \/ (i - 1 \in 1..Len(q2) /\ i = (i - 1) + 1)
      /\ 1 \in 1..Len(q)
  BY <1>3
<1>5. h \in Queued /\ Queued' = Queued \ {h}
  <2>1. h \in Queued
    BY <1>3, <1>4 DEF Queued
  <2>2. ASSUME NEW x \in Queued' PROVE x \in Queued \ {h}
    <3>1. PICK i \in 1..Len(q2) : x = q2[i]
      BY DEF Queued
    <3>2. x = q[i + 1] /\ i + 1 \in 1..Len(q) /\ q[i + 1] # q[1]
      BY <1>4, <3>1 DEF PlaceInv, Once
    <3> QED  BY <1>3, <3>2 DEF Queued
  <2>3. ASSUME NEW x \in Queued, x # h PROVE x \in Queued'
    <3>1. PICK i \in 1..Len(q) : x = q[i]
      BY DEF Queued
    <3>2. i - 1 \in 1..Len(q2) /\ i = (i - 1) + 1
      BY <1>3, <1>4, <2>3, <3>1
    <3>3. x = q2[i - 1]
      BY <1>4, <3>1, <3>2
    <3> QED  BY <3>2, <3>3 DEF Queued
  <2> QED  BY <2>1, <2>2, <2>3
<1>6. h \notin Unfed /\ h \notin InHand /\ at[w] \notin Events
  BY <1>1, <1>5 DEF PlaceInv, Once, Events
<1>7. InHand' = IF ctxDone THEN InHand ELSE InHand \cup {h}
  <2>1. \A x : x \in InHand <=> (x \in Events /\ \E v \in Pool : v # w /\ x = at[v])
    BY <1>6 DEF InHand
  <2>2. \A x : x \in InHand' <=> (x \in Events /\ \E v \in Pool : x = p[v])
    BY DEF InHand, Events, Pool
  <2>3. -1 \notin Events
    BY DEF Events
  <2> HIDE DEF at, p
  <2>4. \A v \in Pool : v # w => p[v] = at[v]
    BY <1>2
  <2>5. \A x \in Events : x = p[w] <=> (~ctxDone /\ x = h)
    BY <1>2, <2>3
  <2>6. ASSUME NEW x
        PROVE  x \in InHand' <=> (x \in InHand \/ (~ctxDone /\ x = h))
    <3>1. x \in InHand => x \in InHand'
      BY <2>1, <2>2, <2>4, Zenon
    <3>2. ~ctxDone /\ x = h => x \in InHand'
      BY <1>3, <2>2, <2>5, Zenon
    <3>3. ASSUME x \in InHand' PROVE x \in InHand \/ (~ctxDone /\ x = h)
      <4>1. PICK v \in Pool : x = p[v] /\ x \in Events
        BY <2>2, <3>3
      <4>2. CASE v = w
        BY <2>5, <4>1, <4>2
      <4>3. CASE v # w
        BY <2>1, <2>4, <4>1, <4>3
      <4> QED  BY <4>2, <4>3
    <3> QED  BY <3>1, <3>2, <3>3
  <2> QED  BY <2>6
<1>8. Unfed' = Unfed
  BY <1>1 DEF Unfed
<1>9. \A v, u \in Pool : v # u /\ p[u] \in Events => p[v] # p[u]
  <2>1. \A v \in Pool : at[v] # h
    BY <1>3, <1>6 DEF InHand
  <2>2. -1 \notin Events
    BY DEF Events
  <2> QED  BY <1>2, <1>3, <2>1, <2>2 DEF PlaceInv, Once
<1>10. \A i, j \in 1..Len(q2) : i # j => q2[i] # q2[j]
  <2>1. \A i, j \in 1..Len(q) : i # j => q[i] # q[j]
    BY DEF PlaceInv, Once
  <2> HIDE DEF q, q2
  <2>2. ASSUME NEW i \in 1..Len(q2), NEW j \in 1..Len(q2), i # j PROVE q2[i] # q2[j]
    <3>1. /\ i + 1 \in 1..Len(q) /\ j + 1 \in 1..Len(q)
          /\ q2[i] = q[i + 1] /\ q2[j] = q[j + 1]
      BY <1>4
    <3>2. i + 1 # j + 1
      BY <2>2
    <3> QED  BY <2>1, <3>1, <3>2
  <2> QED  BY <2>2
<1>11. Once'
  <2>1. Unfed' \cap Queued' = {} /\ Unfed' \cap InHand' = {} /\ Queued' \cap InHand' = {}
    BY <1>5, <1>6, <1>7, <1>8 DEF PlaceInv, Once
  <2> QED  BY <1>9, <1>10, <2>1 DEF Once, Events, Pool
<1>12. Drained'
  <2>1. CASE ctxDone
    BY <1>1, <2>1 DEF Drained
  <2>2. CASE ~ctxDone
    <3>1. \A v \in Pool : p[v] = Ended => at[v] = Ended
      BY <1>2, <1>3, <2>2 DEF Events
    <3> QED  BY <1>1, <1>5, <3>1 DEF PlaceInv, Drained, Pool
  <2> QED  BY <2>1, <2>2
<1>13. phase \notin {"health", "generate"}
  BY <1>1 DEF PlaceInv
<1>14. Todo' \subseteq Todo /\ (ctxDone \/ Todo' = Todo)
  BY <1>5, <1>7, <1>8 DEF Todo
<1> QED  BY <1>1, <1>11, <1>12, <1>13, <1>14 DEF PlaceInv, Events

\* A worker that finds the channel closed and empty ends.
LEMMA PlaceEnds ==
  ASSUME WaitInv, PlaceInv, NEW w \in Pool, WorkerEnds("submit", w)
  PROVE  PlaceInv' /\ Todo' = Todo
<1> DEFINE at == worker["submit"]
           p == worker'["submit"]
<1>1. /\ at[w] = Idle /\ jobs["submit"] = <<>> /\ feed["submit"] \notin Events
      /\ worker' = [worker EXCEPT !["submit"][w] = Ended]
      /\ UNCHANGED <<phase, ctxDone, feed, jobs, accepted>>
  BY DEF WorkerEnds, WorkerAt, Feeding, serverVars
<1>2. p[w] = Ended /\ \A v \in Pool : v # w => p[v] = at[v]
  BY <1>1 DEF WaitInv
<1>3. Unfed = {} /\ Unfed' = {}
  BY <1>1 DEF Unfed, PlaceInv, Events
<1>4. Queued = {} /\ Queued' = {}
  BY <1>1, EmptySeq DEF Queued
<1>5. Idle \notin Events /\ Ended \notin Events
  BY DEF Events
<1>6. InHand' = InHand
  <2>1. \A x : x \in InHand <=> (x \in Events /\ \E v \in Pool : x = at[v])
    BY DEF InHand
  <2>2. \A x : x \in InHand' <=> (x \in Events /\ \E v \in Pool : x = p[v])
    BY DEF InHand, Events, Pool
  <2> HIDE DEF at, p
  <2>3. \A x \in Events : \A v \in Pool : x = at[v] <=> x = p[v]
    BY <1>1, <1>2, <1>5
  <2>4. ASSUME NEW x PROVE x \in InHand <=> x \in InHand'
    BY <2>1, <2>2, <2>3, Zenon
  <2> QED  BY <2>4
<1>7. \A v, u \in Pool : v # u /\ p[u] \in Events => p[v] # p[u]
  BY <1>1, <1>2, <1>5 DEF PlaceInv, Once
<1>8. Once'
  BY <1>1, <1>3, <1>4, <1>7 DEF PlaceInv, Once, Events, Pool
<1>9. Todo' = Todo
  BY <1>3, <1>4, <1>6 DEF Todo
<1>10. Drained'
  BY <1>3, <1>4 DEF Drained
<1> QED  BY <1>1, <1>8, <1>9, <1>10 DEF PlaceInv, Events

\* A worker submits its event, which leaves Todo and may get accepted.
LEMMA PlaceSubmit ==
  ASSUME WaitInv, PlaceInv, NEW w \in Pool, Submit(w)
  PROVE  /\ PlaceInv' /\ worker["submit"][w] \in Todo
         /\ Todo' = Todo \ {worker["submit"][w]}
<1> DEFINE at == worker["submit"]
           p == worker'["submit"]
           e == at[w]
<1>1. /\ e \in Events /\ worker' = [worker EXCEPT !["submit"][w] = Idle]
      /\ accepted' \in {accepted, accepted \cup {e}}
      /\ UNCHANGED <<phase, ctxDone, feed, jobs>>
  <2>1. /\ e \in Events /\ worker' = [worker EXCEPT !["submit"][w] = Idle]
        /\ accepted' \in {accepted, accepted \cup ({e} \ Known)}
        /\ UNCHANGED <<phase, ctxDone, feed, jobs>>
    BY DEF Submit, WorkerAt
  <2>2. {e} \ Known = {} \/ {e} \ Known = {e}
    OBVIOUS
  <2>3. CASE {e} \ Known = {}
    <3>1. accepted \cup ({e} \ Known) = accepted
      BY <2>3
    <3> QED  BY <2>1, <3>1
  <2> QED  BY <2>1, <2>2, <2>3
<1>2. p[w] = Idle /\ \A v \in Pool : v # w => p[v] = at[v]
  BY <1>1 DEF WaitInv
<1>3. Unfed' = Unfed /\ Queued' = Queued
  BY <1>1 DEF Unfed, Queued
<1>4. Idle \notin Events
  BY DEF Events
<1>5. e \in InHand /\ InHand' = InHand \ {e}
  <2>1. \A x : x \in InHand <=> (x \in Events /\ \E v \in Pool : x = at[v])
    BY DEF InHand
  <2>2. \A x : x \in InHand' <=> (x \in Events /\ \E v \in Pool : x = p[v])
    BY DEF InHand, Events, Pool
  <2>3. \A v \in Pool : v # w => at[v] # e
    BY <1>1 DEF PlaceInv, Once
  <2> QED  BY <1>1, <1>2, <1>4, <2>1, <2>2, <2>3
<1>6. e \notin Unfed /\ e \notin Queued
  BY <1>5 DEF PlaceInv, Once
<1>7. e \in Todo /\ Todo' = Todo \ {e}
  BY <1>3, <1>5, <1>6 DEF Todo
<1>8. \A v, u \in Pool : v # u /\ p[u] \in Events => p[v] # p[u]
  BY <1>1, <1>2, <1>4 DEF PlaceInv, Once
<1>9. Once'
  <2>1. Unfed' \cap Queued' = {} /\ Unfed' \cap InHand' = {} /\ Queued' \cap InHand' = {}
    BY <1>3, <1>5 DEF PlaceInv, Once
  <2> QED  BY <1>1, <1>8, <2>1 DEF PlaceInv, Once, Events, Pool
<1>10. Drained'
  <2>1. \A v \in Pool : p[v] = Ended => at[v] = Ended
    BY <1>2
  <2> QED  BY <1>1, <1>3, <2>1 DEF PlaceInv, Drained, Pool
<1>11. phase = "submit"
  <2>1. e # Unborn /\ e # Ended
    BY <1>1 DEF Events
  <2> QED  BY <2>1 DEF WaitInv, ReadAfterWait
<1> QED  BY <1>1, <1>7, <1>9, <1>10, <1>11 DEF PlaceInv, Events

\* Run starts the submission when nothing has been submitted.
LEMMA PlaceGenerated ==
  ASSUME WaitInv, PlaceInv, Generated
  PROVE  PlaceInv' /\ Todo' = Events
<1>1. /\ phase = "generate" /\ phase' = "submit" /\ UNCHANGED <<ctxDone, jobs, accepted>>
      /\ feed' = [feed EXCEPT !["submit"] = 1]
      /\ worker' = [worker EXCEPT !["submit"] = [w \in Pool |-> Idle]]
  BY DEF Generated, StartGroup, serverVars
<1>2. jobs["submit"] = <<>> /\ accepted = {} /\ feed'["submit"] = 1
      /\ feed' \in [Groups -> 0..NumEvents]
  BY <1>1 DEF PlaceInv
<1>3. \A w \in Pool : worker'["submit"][w] = Idle
  BY <1>1 DEF WaitInv
<1>4. Unfed' = Events
  BY <1>2 DEF Unfed, Events
<1>5. Queued' = {}
  BY <1>1, <1>2, EmptySeq DEF Queued
<1>6. InHand' = {}
  BY <1>3 DEF InHand, Pool, Events
<1>7. Once'
  <2>1. \A v, w \in Pool : ~(worker'["submit"][w] \in Events)
    BY <1>3 DEF Events
  <2>2. Len(jobs'["submit"]) = 0
    BY <1>1, <1>2, EmptySeq
  <2> QED  BY <1>5, <1>6, <2>1, <2>2 DEF Once, Pool, Events
<1>8. Drained'
  BY <1>3 DEF Drained, Pool
<1> QED  BY <1>1, <1>2, <1>4, <1>5, <1>6, <1>7, <1>8 DEF PlaceInv, Todo, Events

\* The rest of Run leaves the events where they are.
LEMMA PlaceRun ==
  ASSUME WaitInv, PlaceInv, Run, ~Generated
  PROVE  PlaceInv' /\ Todo' = Todo
<1>1. UNCHANGED <<feed["submit"], jobs["submit"], worker["submit"], accepted, ctxDone>>
  BY DEF Run, Healthy, HealthFails, CollectResult, CollectCancelled, Submitted, Slept, Ranked,
         GetLeaderboard, LeaderboardFails, Verify, GroupOver, StartGroup, groups, serverVars,
         WaitInv, PlaceInv
<1>2. feed' \in [Groups -> 0..NumEvents]
  BY DEF PlaceInv, Run, Healthy, HealthFails, CollectResult, CollectCancelled, Submitted, Slept,
         Ranked, GetLeaderboard, LeaderboardFails, Verify, GroupOver, StartGroup, groups
<1>3. /\ phase' # "submit"
      /\ phase' \in {"health", "generate"} => phase \in {"health", "generate"}
  BY DEF Run, Healthy, HealthFails, CollectResult, CollectCancelled, Submitted, Slept,
         Ranked, GetLeaderboard, LeaderboardFails, Verify, GroupOver, StartGroup
<1>4. Todo' = Todo /\ Once'
  BY <1>1, PlacesStay DEF PlaceInv
<1> QED  BY <1>1, <1>2, <1>3, <1>4 DEF PlaceInv, Drained, Events

\* The group that fetches ranks, the goroutines of the generation, the server
\* and the clock do not touch the submission.
LEMMA Elsewhere ==
  ASSUME WaitInv, feed \in [Groups -> 0..NumEvents],
         Next, ~Run, \A w \in Pool : ~Worker("submit", w), ~Feeder("submit")
  PROVE  /\ UNCHANGED <<feed["submit"], jobs["submit"], worker["submit"], accepted, stats, phase>>
         /\ (ctxDone' = ctxDone \/ ctxDone')
         /\ feed' \in [Groups -> 0..NumEvents]
<1>1. CASE Cancel \/ Apply
  BY <1>1 DEF Cancel, Apply, groups, serverVars, outcome
<1>2. ASSUME NEW k \in Generators, Generator(k)
      PROVE  UNCHANGED <<feed, jobs, worker, accepted, stats, phase, ctxDone>>
  BY <1>2 DEF Generator, Generate, GenerateFails, Put, groups, serverVars, outcome
<1>3. CASE Feed("rank") \/ FeedCancelled("rank")
  <2>1. UNCHANGED <<jobs["submit"], worker, accepted, stats, phase, ctxDone>>
    BY <1>3 DEF WaitInv, Feed, FeedCancelled, serverVars, outcome
  <2>2. feed' = [feed EXCEPT !["rank"] = 0] \/
        (feed["rank"] \in Events /\
           feed' = [feed EXCEPT !["rank"] = IF @ = NumEvents THEN 0 ELSE @ + 1])
    BY <1>3 DEF Feed, FeedCancelled, Feeding
  <2>3. feed'["submit"] = feed["submit"]
    BY <2>2
  <2>4. feed' \in [Groups -> 0..NumEvents]
    BY <2>2 DEF Events
  <2> QED  BY <2>1, <2>3, <2>4
<1>4. ASSUME NEW w \in Pool, Worker("rank", w)
      PROVE  UNCHANGED <<feed, jobs["submit"], worker["submit"], accepted, stats, phase, ctxDone>>
  BY <1>4 DEF WaitInv, Worker, Take, WorkerEnds, Retrieve, WorkerAt, serverVars, outcome
<1>5. CASE \E g \in Groups, w \in Pool : Worker(g, w)
  BY <1>4, <1>5
<1>6. CASE \E g \in Groups : Feeder(g)
  BY <1>3, <1>6 DEF Feeder
<1> QED  BY <1>1, <1>2, <1>5, <1>6 DEF Next

LEMMA PlaceStep ==
  ASSUME WaitInv, PlaceInv, [Next]_vars
  PROVE  PlaceInv'
<1>1. CASE UNCHANGED vars
  <2>1. UNCHANGED <<feed, jobs, worker, accepted, phase, ctxDone>>
    BY <1>1 DEF vars, groups, serverVars
  <2> QED  BY <2>1, PlacesStay DEF PlaceInv, Drained, Pool, Events
<1>2. CASE Run
  BY <1>2, PlaceGenerated, PlaceRun
<1>3. CASE Feeder("submit")
  BY <1>3, PlaceFeed, PlaceFeedCancelled DEF Feeder
<1>4. ASSUME NEW w \in Pool, Worker("submit", w) PROVE PlaceInv'
  BY <1>4, PlaceTake, PlaceEnds, PlaceSubmit DEF Worker
<1>5. CASE Next /\ ~Run /\ (\A w \in Pool : ~Worker("submit", w)) /\ ~Feeder("submit")
  <2>1. /\ UNCHANGED <<feed["submit"], jobs["submit"], worker["submit"], accepted, phase>>
        /\ (ctxDone' = ctxDone \/ ctxDone') /\ feed' \in [Groups -> 0..NumEvents]
    BY <1>5, Elsewhere DEF PlaceInv
  <2>2. Todo' = Todo /\ Unfed' = Unfed /\ Queued' = Queued /\ Once'
    BY <2>1, PlacesStay DEF PlaceInv
  <2> QED  BY <2>1, <2>2 DEF PlaceInv, Drained, Pool, Events
<1> QED  BY <1>1, <1>2, <1>3, <1>4, <1>5

LEMMA CountInit == Init => CountInv
<1> SUFFICES ASSUME Init PROVE CountInv
  OBVIOUS
<1>1. Cardinality(accepted) = 0
  BY FS_EmptySet DEF Init
<1> QED  BY <1>1 DEF Init, CountInv

\* What changes neither counters nor Todo, or is cancelled.
LEMMA CountStays ==
  ASSUME CountInv, UNCHANGED <<stats, accepted, phase>>,
         ctxDone' \/ (~ctxDone /\ Todo' = Todo)
  PROVE  CountInv'
<1>1. ctxDone' \/ (~ctxDone /\ Cardinality(Todo') = Cardinality(Todo))
  OBVIOUS
<1> QED  BY <1>1 DEF CountInv

\* The four counters after an answer of each kind.
LEMMA CountAdds ==
  ASSUME stats \in [submitted : Nat, successful : Nat, duplicate : Nat, failed : Nat],
         NEW r \in {"successful", "duplicate", "failed"}
  PROVE  /\ Count(r) \in [submitted : Nat, successful : Nat, duplicate : Nat, failed : Nat]
         /\ Count(r).submitted = stats.submitted + 1
         /\ Count(r).successful = stats.successful + (IF r = "successful" THEN 1 ELSE 0)
         /\ Count(r).duplicate = stats.duplicate + (IF r = "duplicate" THEN 1 ELSE 0)
         /\ Count(r).failed = stats.failed + (IF r = "failed" THEN 1 ELSE 0)
<1>1. CASE r = "successful"
  <2> DEFINE c == [stats EXCEPT !["submitted"] = @ + 1, !["successful"] = @ + 1]
  <2>1. c \in [submitted : Nat, successful : Nat, duplicate : Nat, failed : Nat]
    OBVIOUS
  <2>2. c.submitted = stats.submitted + 1 /\ c.successful = stats.successful + 1
    OBVIOUS
  <2>3. c.duplicate = stats.duplicate /\ c.failed = stats.failed
    OBVIOUS
  <2>4. Count(r) = c
    BY <1>1, Zenon DEF Count
  <2> HIDE DEF c
  <2> QED  BY <1>1, <2>1, <2>2, <2>3, <2>4
<1>2. CASE r = "duplicate"
  <2> DEFINE c == [stats EXCEPT !["submitted"] = @ + 1, !["duplicate"] = @ + 1]
  <2>1. c \in [submitted : Nat, successful : Nat, duplicate : Nat, failed : Nat]
    OBVIOUS
  <2>2. c.submitted = stats.submitted + 1 /\ c.duplicate = stats.duplicate + 1
    OBVIOUS
  <2>3. c.successful = stats.successful /\ c.failed = stats.failed
    OBVIOUS
  <2>4. Count(r) = c
    BY <1>2, Zenon DEF Count
  <2> HIDE DEF c
  <2> QED  BY <1>2, <2>1, <2>2, <2>3, <2>4
<1>3. CASE r = "failed"
  <2> DEFINE c == [stats EXCEPT !["submitted"] = @ + 1, !["failed"] = @ + 1]
  <2>1. c \in [submitted : Nat, successful : Nat, duplicate : Nat, failed : Nat]
    OBVIOUS
  <2>2. c.submitted = stats.submitted + 1 /\ c.failed = stats.failed + 1
    OBVIOUS
  <2>3. c.successful = stats.successful /\ c.duplicate = stats.duplicate
    OBVIOUS
  <2>4. Count(r) = c
    BY <1>3, Zenon DEF Count
  <2> HIDE DEF c
  <2> QED  BY <1>3, <2>1, <2>2, <2>3, <2>4
<1> QED  BY <1>1, <1>2, <1>3

\* A submission takes one event from Todo and counts it once, as a success
\* only if the server has taken it.
LEMMA CountSubmit ==
  ASSUME WaitInv, PlaceInv, CountInv, NEW w \in Pool, Submit(w)
  PROVE  CountInv'
<1> DEFINE e == worker["submit"][w]
<1>1. /\ e \in Events /\ e \in Todo /\ Todo' = Todo \ {e} /\ e \notin accepted
      /\ phase = "submit" /\ UNCHANGED <<phase, ctxDone>>
  <2>1. e \in Events /\ UNCHANGED <<phase, ctxDone>>
    BY DEF Submit
  <2>2. e # Unborn /\ e # Ended
    BY <2>1 DEF Events
  <2> QED  BY <2>1, <2>2, PlaceSubmit DEF WaitInv, ReadAfterWait, PlaceInv
<1>2. IsFiniteSet(Events)
  BY FS_Interval DEF Events
<1>3. IsFiniteSet(Todo) /\ IsFiniteSet(accepted)
  <2>1. Todo \subseteq Events
    <3>1. Unfed \subseteq Events
      BY DEF Unfed, PlaceInv, Events
    <3>2. Queued \subseteq Events
      BY DEF Queued, WaitInv
    <3>3. InHand \subseteq Events
      BY DEF InHand
    <3> QED  BY <3>1, <3>2, <3>3 DEF Todo
  <2> QED  BY <1>2, <2>1, FS_Subset DEF PlaceInv
<1>4. Cardinality(Todo') = Cardinality(Todo) - 1 /\ Cardinality(Todo) \in Nat
  <2>1. Cardinality(Todo \ {e}) = Cardinality(Todo) - 1
    BY <1>1, <1>3, FS_RemoveElement
  <2> QED  BY <1>1, <1>3, <2>1, FS_CardinalityType
<1>5. Cardinality(accepted \cup {e}) = Cardinality(accepted) + 1 /\ Cardinality(accepted) \in Nat
  BY <1>1, <1>3, FS_AddElement, FS_CardinalityType
<1>6. {e} \ Known = IF e \in Known THEN {} ELSE {e}
  OBVIOUS
<1> DEFINE a == Cardinality(accepted)
           b == Cardinality(accepted')
<1>7. \/ /\ stats' = Count("successful") /\ b = a + 1
      \/ /\ stats' = Count("duplicate") /\ b = a
      \/ /\ stats' = Count("failed") /\ b \in {a, a + 1}
  <2>1. CASE e \in Known
    <3>1. accepted \cup ({e} \ Known) = accepted
      BY <1>6, <2>1
    <3> QED  BY <2>1, <3>1 DEF Submit
  <2>2. CASE e \notin Known
    <3>1. accepted \cup ({e} \ Known) = accepted \cup {e}
      BY <1>6, <2>2
    <3> QED  BY <1>5, <2>2, <3>1 DEF Submit
  <2> QED  BY <2>1, <2>2
<1> HIDE DEF a, b
<1>8. a \in Nat /\ stats.successful <= a /\ a <= stats.successful + stats.failed
      /\ stats \in [submitted : Nat, successful : Nat, duplicate : Nat, failed : Nat]
      /\ stats.submitted = stats.successful + stats.duplicate + stats.failed
  BY <1>5 DEF CountInv, a
<1>9. /\ stats' \in [submitted : Nat, successful : Nat, duplicate : Nat, failed : Nat]
      /\ stats'.submitted = stats'.successful + stats'.duplicate + stats'.failed
      /\ stats'.successful <= b /\ b <= stats'.successful + stats'.failed
      /\ stats'.submitted = stats.submitted + 1
  <2>1. CASE stats' = Count("successful") /\ b = a + 1
    BY <1>8, <2>1, CountAdds
  <2>2. CASE stats' = Count("duplicate") /\ b = a
    BY <1>8, <2>2, CountAdds
  <2>3. CASE stats' = Count("failed") /\ b \in {a, a + 1}
    BY <1>8, <2>3, CountAdds
  <2> QED  BY <1>7, <2>1, <2>2, <2>3
<1>10. ~ctxDone => stats'.submitted + Cardinality(Todo') = NumEvents
  BY <1>1, <1>4, <1>8, <1>9 DEF CountInv
<1> QED  BY <1>1, <1>9, <1>10 DEF CountInv, b

\* Run begins the submission with all events in Todo, and leaves it with none.
LEMMA CountRun ==
  ASSUME WaitInv, PlaceInv, CountInv, Run
  PROVE  CountInv'
<1>1. UNCHANGED <<stats, accepted, ctxDone>>
  BY DEF Run, Healthy, HealthFails, CollectResult, CollectCancelled, Generated, Submitted, Slept,
         Ranked, GetLeaderboard, LeaderboardFails, Verify, serverVars, outcome
<1>2. CASE Generated
  <2>1. phase = "generate" /\ phase' = "submit" /\ Todo' = Events
    BY <1>2, PlaceGenerated DEF Generated, StartGroup
  <2>2. Cardinality(Events) = NumEvents
    BY FS_Interval DEF Events
  <2> QED  BY <1>1, <2>1, <2>2 DEF CountInv
<1>3. CASE Submitted
  <2>1. phase = "submit" /\ phase' = "sleep" /\ \A w \in Pool : worker["submit"][w] = Ended
    BY <1>3 DEF Submitted, GroupOver, Waited
  <2>2. 1 \in Pool
    BY DEF Pool
  <2>3. ~ctxDone => Unfed = {} /\ Queued = {}
    BY <2>1, <2>2 DEF PlaceInv, Drained
  <2>4. InHand = {}
    BY <2>1 DEF InHand, Events
  <2>5. ~ctxDone => Cardinality(Todo) = 0
    BY <2>3, <2>4, FS_EmptySet DEF Todo
  <2>6. ~ctxDone => stats.submitted = NumEvents
    BY <2>1, <2>5 DEF CountInv
  <2> QED  BY <1>1, <2>1, <2>6 DEF CountInv
<1>4. CASE ~Generated /\ ~Submitted
  <2>1. /\ phase' \notin {"submit"}
        /\ phase' \in {"health", "generate"} => phase \in {"health", "generate"}
        /\ phase' \in {"sleep", "rank", "board", "verify", "done"} =>
             phase \in {"sleep", "rank", "board", "verify", "done"}
    BY <1>4 DEF Run, Healthy, HealthFails, CollectResult, CollectCancelled, Slept,
         Ranked, GetLeaderboard, LeaderboardFails, Verify, GroupOver, StartGroup
  <2> QED  BY <1>1, <2>1 DEF CountInv
<1> QED  BY <1>2, <1>3, <1>4

LEMMA CountStep ==
  ASSUME WaitInv, PlaceInv, CountInv, [Next]_vars
  PROVE  CountInv'
<1>1. CASE UNCHANGED vars
  <2>1. UNCHANGED <<feed, jobs, worker, accepted, phase, ctxDone, stats>>
    BY <1>1 DEF vars, groups, serverVars, outcome
  <2> QED  BY <2>1, PlacesStay, CountStays
<1>2. CASE Run
  BY <1>2, CountRun
<1>3. CASE Feeder("submit")
  <2>1. CASE Feed("submit")
    BY <2>1, PlaceFeed, CountStays DEF Feed, serverVars, outcome
  <2>2. CASE FeedCancelled("submit")
    BY <2>2, CountStays DEF FeedCancelled, serverVars, outcome
  <2> QED  BY <1>3, <2>1, <2>2 DEF Feeder
<1>4. ASSUME NEW w \in Pool, Worker("submit", w) PROVE CountInv'
  <2>1. CASE Take("submit", w)
    BY <2>1, PlaceTake, CountStays DEF Take, serverVars, outcome
  <2>2. CASE WorkerEnds("submit", w)
    BY <2>2, PlaceEnds, CountStays DEF WorkerEnds, serverVars, outcome
  <2>3. CASE Submit(w)
    BY <2>3, CountSubmit
  <2> QED  BY <1>4, <2>1, <2>2, <2>3 DEF Worker
<1>5. CASE Next /\ ~Run /\ (\A w \in Pool : ~Worker("submit", w)) /\ ~Feeder("submit")
  <2>1. /\ UNCHANGED <<feed["submit"], jobs["submit"], worker["submit"], accepted, stats, phase>>
        /\ (ctxDone' = ctxDone \/ ctxDone')
    BY <1>5, Elsewhere DEF PlaceInv
  <2> QED  BY <2>1, PlacesStay, CountStays
<1> QED  BY <1>1, <1>2, <1>3, <1>4, <1>5

\* The counters Run reads account for every event, once, and a success is an
\* event the server has; however many workers share the channel, whichever
\* requests fail and whenever the run is cancelled.
THEOREM CountersAgree == Spec => []CountersAddUp
<1>1. CountInv => CountersAddUp
  BY DEF CountInv, CountersAddUp
<1>2. WaitInv /\ [Next]_vars => WaitInv'
  BY WaitStep
<1>3. WaitInv /\ PlaceInv /\ [Next]_vars => PlaceInv'
  BY PlaceStep
<1>4. WaitInv /\ PlaceInv /\ CountInv /\ [Next]_vars => CountInv'
  BY CountStep
<1> QED  BY <1>1, <1>2, <1>3, <1>4, WaitInit, PlaceInit, CountInit, PTL DEF Spec
=============================================================================
