--------------------------- MODULE LoadGenerator ---------------------------
(***************************************************************************)
(* The load tool (internal/testevents): Run generates events, POSTs them,  *)
(* waits two minutes, asks for the rank of every talent and for the head of*)
(* the leaderboard, and compares the two.  Generation is split among       *)
(* goroutines that send their results to one buffered channel; submission  *)
(* and the retrieval of ranks are a group each: a feeder, a buffered       *)
(* channel of event numbers, and workers a WaitGroup waits for.            *)
(*                                                                         *)
(* Every event has a talent and an id of its own, so it is named by its    *)
(* number.  The server is what Intake promises: a POST may be accepted and *)
(* an accepted event is applied some time later; any request may fail, a   *)
(* POST also after the server has accepted it.  Its leaderboard is not this*)
(* run's alone: talents of earlier runs and of other clients, the rivals,  *)
(* are on it too.                                                          *)
(***************************************************************************)
EXTENDS Integers, Sequences, FiniteSets

CONSTANTS
  NumEvents,          \* config.NumEvents
  NumWorkers,         \* config.Workers
  ChannelMultiplier,  \* WorkerChannelMultiplier
  TopN,               \* config.TopN
  Score,              \* the score the server computes for each event
  Known,              \* events whose id an earlier run has used, for a rival
  Rivals,             \* talents of earlier runs and of other clients
  RivalScores         \* the scores rivals may have

Events == 1..NumEvents
Pool   == 1..NumWorkers

\* With no event or no worker generateEvents divides by zero.
ASSUME LoadAssumption ==
  /\ NumEvents \in Nat \ {0} /\ NumWorkers \in Nat \ {0}
  /\ ChannelMultiplier \in Nat \ {0} /\ TopN \in Nat \ {0}
  /\ Score \in [Events -> Int] /\ Known \subseteq Events

\* generateEvents gives its events talents nobody else has.
ASSUME RivalsAssumption ==
  IsFiniteSet(Rivals) /\ Rivals \cap Events = {} /\ RivalScores \subseteq Int

Groups == {"submit", "rank"}

Idle == 0
Ended == -1
Unborn == -2

VARIABLES
  phase,       \* where Run is, or how it returned
  ctxDone,     \* the context of Run is done: ten minutes have passed
  next,        \* generation: the next event of each goroutine; 0 when it has ended
  results,     \* generation: resultChan
  received,    \* generation: results received
  filled,      \* generation: the slots of `events` that are set
  feed,        \* groups: the next number the feeder sends; 0 when it has ended
  jobs,        \* groups: the channel
  worker,      \* groups: the event each worker is at, or Idle, Ended, Unborn
  accepted, applied,    \* the server: POSTs taken, and those on its leaderboard
  stats,       \* submitted, successful, duplicate, failed
  rankings,    \* events whose talent's rank has been retrieved
  leaderboard, \* the head of the leaderboard as retrieved
  verdict      \* of verifyLeaderboardConsistency

generation == <<next, results, received, filled>>
groups     == <<feed, jobs, worker>>
serverVars == <<accepted, applied>>
outcome    == <<stats, rankings, leaderboard, verdict>>
vars       == <<phase, ctxDone, generation, groups, serverVars, outcome>>

Init ==
  /\ phase = "health" /\ ctxDone = FALSE
  /\ next = [g \in {} |-> 0] /\ results = <<>> /\ received = 0 /\ filled = {}
  /\ feed = [g \in Groups |-> 0] /\ jobs = [g \in Groups |-> <<>>]
  /\ worker = [g \in Groups |-> [w \in Pool |-> Unborn]]
  /\ accepted = {} /\ applied = {}
  /\ stats = [submitted |-> 0, successful |-> 0, duplicate |-> 0, failed |-> 0]
  /\ rankings = {} /\ leaderboard = <<>> /\ verdict = "none"

-----------------------------------------------------------------------------
(* Health check and generation *)

\* workerCount in generateEvents.
Generators == 1..(IF NumWorkers < NumEvents THEN NumWorkers ELSE NumEvents)
PerGenerator == NumEvents \div Cardinality(Generators)

\* Mutant of First: every goroutine but the first begins one event too early.
FirstTooEarly(k) == IF k = 1 THEN 1 ELSE (k - 1) * PerGenerator

First(k) == (k - 1) * PerGenerator + 1

\* Mutant of LastOf: the events that are left over belong to nobody.
LastOfShare(k) == k * PerGenerator

\* The last goroutine takes what is left over.
LastOf(k) == IF k = Cardinality(Generators) THEN NumEvents ELSE k * PerGenerator

HealthFails ==
  /\ phase = "health" /\ phase' = "failed"
  /\ UNCHANGED <<ctxDone, generation, groups, serverVars, outcome>>

Healthy ==
  /\ phase = "health" /\ ~ctxDone /\ phase' = "generate"
  /\ next' = [k \in Generators |-> First(k)]
  /\ UNCHANGED <<ctxDone, results, received, filled, groups, serverVars, outcome>>

\* Mutant of Buffer: an unbuffered channel, as near as the model comes to it.
SmallBuffer == 1

Buffer == NumEvents

Put(k, result, then) ==
  /\ Len(results) < Buffer
  /\ results' = Append(results, result)
  /\ next' = [next EXCEPT ![k] = IF then > LastOf(k) THEN 0 ELSE then]
  /\ UNCHANGED <<phase, ctxDone, received, filled, groups, serverVars, outcome>>

\* generateSingleEvent(i).
Generate(k) ==
  /\ next[k] # 0 /\ ~ctxDone
  /\ Put(k, [index |-> next[k], ok |-> TRUE], next[k] + 1)

\* The context is done: an error for this event, and the goroutine ends.
GenerateFails(k) ==
  /\ next[k] # 0 /\ ctxDone
  /\ Put(k, [index |-> next[k], ok |-> FALSE], NumEvents + 1)

StartGroup(g) ==
  /\ feed' = [feed EXCEPT ![g] = 1]
  /\ worker' = [worker EXCEPT ![g] = [w \in Pool |-> Idle]]
  /\ phase' = g

CollectResult ==
  /\ phase = "generate" /\ received < NumEvents /\ results # <<>>
  /\ LET r == Head(results)
     IN  /\ filled' = IF r.ok THEN filled \cup {r.index} ELSE filled
         /\ phase' = IF r.ok THEN phase ELSE "failed"
  /\ results' = Tail(results) /\ received' = received + 1
  /\ UNCHANGED <<ctxDone, next, groups, serverVars, outcome>>

CollectCancelled ==
  /\ phase = "generate" /\ received < NumEvents /\ ctxDone
  /\ phase' = "failed"
  /\ UNCHANGED <<ctxDone, generation, groups, serverVars, outcome>>

Generated ==
  /\ phase = "generate" /\ received = NumEvents
  /\ StartGroup("submit")
  /\ UNCHANGED <<ctxDone, generation, jobs, serverVars, outcome>>

-----------------------------------------------------------------------------
(* A group: its feeder and its workers *)

Feeding(g) == feed[g] \in Events

Feed(g) ==
  /\ Feeding(g) /\ Len(jobs[g]) < NumWorkers * ChannelMultiplier
  /\ jobs' = [jobs EXCEPT ![g] = Append(@, feed[g])]
  /\ feed' = [feed EXCEPT ![g] = IF @ = NumEvents THEN 0 ELSE @ + 1]
  /\ UNCHANGED <<phase, ctxDone, generation, worker, serverVars, outcome>>

FeedCancelled(g) ==
  /\ Feeding(g) /\ ctxDone
  /\ feed' = [feed EXCEPT ![g] = 0]
  /\ UNCHANGED <<phase, ctxDone, generation, jobs, worker, serverVars, outcome>>

WorkerAt(g, w, where) == worker' = [worker EXCEPT ![g][w] = where]

Take(g, w) ==
  /\ worker[g][w] = Idle /\ jobs[g] # <<>>
  /\ jobs' = [jobs EXCEPT ![g] = Tail(@)]
  /\ WorkerAt(g, w, IF ctxDone THEN Ended ELSE Head(jobs[g]))
  /\ UNCHANGED <<phase, ctxDone, generation, feed, serverVars, outcome>>

\* The channel is closed, which the feeder does as it ends, and empty.
WorkerEnds(g, w) ==
  /\ worker[g][w] = Idle /\ jobs[g] = <<>> /\ ~Feeding(g)
  /\ WorkerAt(g, w, Ended)
  /\ UNCHANGED <<phase, ctxDone, generation, feed, jobs, serverVars, outcome>>

Waited(g) == \A w \in Pool : worker[g][w] = Ended

\* Mutant of GroupOver: wg.Add is called by the goroutines themselves.
GroupOverEarly(g, then) ==
  /\ phase = g /\ \E w \in Pool : worker[g][w] = Ended
  /\ phase' = then

\* wg.Wait returns.
GroupOver(g, then) ==
  /\ phase = g /\ Waited(g)
  /\ phase' = then

-----------------------------------------------------------------------------
(* submitSingleEvent *)

Count(result) == [stats EXCEPT !.submitted = @ + 1, ![result] = @ + 1]

\* Mutant of Submit: a failed request is not counted as submitted.
SubmitUncounted(w) ==
  LET e == worker["submit"][w]
  IN  /\ e \in Events
      /\ \/ /\ stats' = Count(IF e \in Known THEN "duplicate" ELSE "successful")
            /\ accepted' = accepted \cup ({e} \ Known)
         \/ /\ stats' = [stats EXCEPT !.failed = @ + 1]
            /\ accepted' \in {accepted, accepted \cup ({e} \ Known)}
      /\ WorkerAt("submit", w, Idle)
      /\ UNCHANGED <<phase, ctxDone, generation, feed, jobs, applied, rankings, leaderboard, verdict>>

\* 202 counts as a success and 200 as a duplicate; everything else, a lost
\* answer included, is a failure.
Submit(w) ==
  LET e == worker["submit"][w]
  IN  /\ e \in Events
      /\ \/ /\ stats' = Count(IF e \in Known THEN "duplicate" ELSE "successful")
            /\ accepted' = accepted \cup ({e} \ Known)
         \/ /\ stats' = Count("failed")
            /\ accepted' \in {accepted, accepted \cup ({e} \ Known)}
      /\ WorkerAt("submit", w, Idle)
      /\ UNCHANGED <<phase, ctxDone, generation, feed, jobs, applied, rankings, leaderboard, verdict>>

Submitted ==
  /\ GroupOver("submit", "sleep")
  /\ UNCHANGED <<ctxDone, generation, groups, serverVars, outcome>>

\* The server's workers.
Apply ==
  /\ \E e \in accepted \ applied : applied' = applied \cup {e}
  /\ UNCHANGED <<phase, ctxDone, generation, groups, accepted, outcome>>

\* time.Sleep, which does not look at the context.
Slept ==
  /\ phase = "sleep" /\ StartGroup("rank")
  /\ UNCHANGED <<ctxDone, generation, jobs, serverVars, outcome>>

-----------------------------------------------------------------------------
(* Ranks, leaderboard, verification *)

\* retrieveSingleRanking: a talent without a score is a 404.
Retrieve(w) ==
  LET e == worker["rank"][w]
  IN  /\ e \in Events
      /\ rankings' \in {rankings, rankings \cup ({e} \cap applied)}
      /\ WorkerAt("rank", w, Idle)
      /\ UNCHANGED <<phase, ctxDone, generation, feed, jobs, serverVars, stats, leaderboard, verdict>>

Ranked ==
  /\ GroupOver("rank", "board")
  /\ UNCHANGED <<ctxDone, generation, groups, serverVars, outcome>>

\* What the rivals have on the board, which matters at one moment only, that of
\* the request: any of them may be there by then, with any score.
RivalBoards == UNION {[S -> RivalScores] : S \in SUBSET Rivals}

\* The server's whole store.
Entries(rivals) ==
  {[talent |-> e, score |-> Score[e]] : e \in applied} \cup
  {[talent |-> r, score |-> rivals[r]] : r \in DOMAIN rivals}

\* The lists the server may answer with: the best TopN of its entries, ties in
\* any order.
Boards(entries) ==
  LET n == IF Cardinality(entries) < TopN THEN Cardinality(entries) ELSE TopN
  IN  {b \in [1..n -> entries] :
         /\ \A i, j \in 1..n : i < j => b[i] # b[j] /\ b[i].score >= b[j].score
         /\ \A x \in entries :
              (\E i \in 1..n : b[i] = x) \/ \A i \in 1..n : b[i].score >= x.score}

GetLeaderboard ==
  /\ phase = "board" /\ ~ctxDone
  /\ \E rivals \in RivalBoards : leaderboard' \in Boards(Entries(rivals))
  /\ phase' = "verify"
  /\ UNCHANGED <<ctxDone, generation, groups, serverVars, stats, rankings, verdict>>

LeaderboardFails ==
  /\ phase = "board" /\ phase' = "failed"
  /\ UNCHANGED <<ctxDone, generation, groups, serverVars, outcome>>

\* The talents that may come first when the rankings are sorted by score.
Foremost(S) == {e \in S : \A f \in S : Score[f] <= Score[e]}

\* Mutant of Matches: the last of the leaderboard instead of the first.
MatchesLast(top) == leaderboard[Len(leaderboard)].talent = top

\* verifyLeaderboardConsistency: the same talent with the same score, and a list
\* that is sorted.
Matches(top) ==
  /\ leaderboard[1] = [talent |-> top, score |-> Score[top]]
  /\ \A i \in 2..Len(leaderboard) : leaderboard[i].score <= leaderboard[i - 1].score

Verify ==
  /\ phase = "verify"
  /\ IF rankings = {} THEN phase' = "failed" /\ UNCHANGED verdict
     ELSE /\ phase' = "done"
          /\ IF leaderboard = <<>> THEN UNCHANGED verdict
             ELSE \E top \in Foremost(rankings) :
                    verdict' = IF Matches(top) THEN "verified" ELSE "warning"
  /\ UNCHANGED <<ctxDone, generation, groups, serverVars, stats, rankings, leaderboard>>

-----------------------------------------------------------------------------

Cancel ==
  /\ ~ctxDone /\ ctxDone' = TRUE
  /\ UNCHANGED <<phase, generation, groups, serverVars, outcome>>

Generator(k) == k \in DOMAIN next /\ (Generate(k) \/ GenerateFails(k))

Feeder(g) == Feed(g) \/ FeedCancelled(g)

Worker(g, w) ==
  \/ Take(g, w) \/ WorkerEnds(g, w)
  \/ g = "submit" /\ Submit(w)
  \/ g = "rank" /\ Retrieve(w)

Run ==
  \/ Healthy \/ HealthFails
  \/ CollectResult \/ CollectCancelled \/ Generated
  \/ Submitted \/ Slept \/ Ranked
  \/ GetLeaderboard \/ LeaderboardFails \/ Verify

Next ==
  \/ Run \/ Cancel \/ Apply
  \/ \E k \in Generators : Generator(k)
  \/ \E g \in Groups : Feeder(g)
  \/ \E g \in Groups, w \in Pool : Worker(g, w)

Spec == Init /\ [][Next]_vars

\* Goroutines that can run do, and the client's timeout ends every request.
\* Nobody need cancel, and the server need not ever apply an event.
Fairness ==
  /\ WF_vars(Run)
  /\ \A k \in Generators : WF_vars(Generator(k))
  /\ \A g \in Groups : WF_vars(Feeder(g)) /\ \A w \in Pool : WF_vars(Worker(g, w))

FairSpec == Spec /\ Fairness

-----------------------------------------------------------------------------
(* Properties *)

Returned == phase \in {"failed", "done"}

\* However the goroutines share the work, each slot of `events` is set once
\* and all are when generation is over.
EverySlotIsFilled ==
  /\ phase \in Groups \cup {"sleep", "board", "verify", "done"} => filled = Events
  /\ phase = "generate" => Cardinality(filled) = received

\* The counters agree when the workers have been waited for, and account for
\* every event unless the run was cancelled; a success is an event the server
\* has, but it may have events that count as failed.
CountersAddUp ==
  phase \in {"sleep", "rank", "board", "verify", "done"} =>
    /\ stats.submitted = stats.successful + stats.duplicate + stats.failed
    /\ ctxDone \/ stats.submitted = NumEvents
    /\ stats.successful <= Cardinality(accepted)
    /\ Cardinality(accepted) <= stats.successful + stats.failed

\* Nobody writes to counters or rankings that Run has begun to read: a group's
\* workers have all ended when Run has left its phase.
ReadAfterWait ==
  \A g \in Groups, w \in Pool : worker[g][w] \in {Unborn, Ended} \/ phase = g

\* A warning tells of somebody at least as good as the best of the rankings who
\* is not in the rankings (a rival, or a talent of this run whose request failed
\* or whose event was applied too late), or of best talents that share a score.
\* It never means that the rankings hold somebody the leaderboard had missed.
WarningHasCause ==
  verdict = "warning" =>
    \/ /\ leaderboard[1].talent \in Rivals \cup (applied \ rankings)
       /\ \A e \in rankings : Score[e] <= leaderboard[1].score
    \/ /\ leaderboard[1].talent \in Foremost(rankings)
       /\ Cardinality(Foremost(rankings)) > 1

\* Run returns, cancelled or not, whatever requests fail.
RunReturns == <>Returned

\* No goroutine stays behind blocked on a channel nobody serves any more.
NothingLeaks ==
  <>[](/\ \A k \in DOMAIN next : next[k] = 0
       /\ \A g \in Groups : ~Feeding(g) /\ \A w \in Pool : worker[g][w] \in {Unborn, Ended})
=============================================================================
