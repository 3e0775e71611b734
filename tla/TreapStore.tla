----------------------------- MODULE TreapStore -----------------------------
(***************************************************************************)
(* TreapStore under concurrency.  Writers (the workers) update the tree,   *)
(* the map and, in place, the record of a talent while they hold mu;       *)
(* readers answer Rank and TopN; one goroutine refreshes the rank snapshot *)
(* that both readers use.                                                  *)
(*                                                                         *)
(* A critical section is one action unless somebody without the lock can   *)
(* see its middle: Rank keeps a pointer to the talent's record and reads   *)
(* its fields after unlocking, so an improvement is three actions; TopN    *)
(* takes the second lock inside the first, so it is two.  The sections of  *)
(* snapshotMutex are one step each.  All of it implements Board, which has *)
(* neither tree nor locks.                                                 *)
(***************************************************************************)
EXTENDS Treap

CONSTANTS
  Writers,         \* calls of UpdateBestWithMeta, each carrying an event of its own
  Updates,         \* what a call may carry: <<talent, score>>
  RankCalls, TopNCalls,   \* calls of Rank and of TopN
  Limit,           \* the n of TopN
  NoOne

ASSUME StoreAssumption ==
  /\ \A u \in Updates : u[1] \in Talents /\ IsFloat(u[2])
  /\ RankCalls \cap TopNCalls = {} /\ Limit \in Nat \ {0}
  /\ NoOne \notin Writers /\ \A S \in SUBSET Talents : NoOne \notin [S -> Int]

VARIABLES
  event,           \* record.eventID, skill and rawMetric: the update they came with
  mu,              \* the writer that holds mu, or NoOne
  writer,          \* where each update is, and what it carries
  call,            \* where each read is, and what it has read so far
  collected,       \* the entries the updater has collected and not yet published
  rankSnapshot,
  updating,        \* the updater goroutine is alive
  stored,          \* history: every <<talent, score, event>> written to a record
  boards           \* history: the successive values of byID

store   == <<root, byID, event, mu>>
ranking == <<collected, rankSnapshot, updating>>
history == <<stored, boards>>
allVars == <<store, writer, call, ranking, history>>

NotCollecting == [busy |-> FALSE, entries |-> <<>>]

StoreInit ==
  /\ Init
  /\ event = <<>> /\ mu = NoOne
  /\ writer = [w \in Writers |-> [pc |-> "idle", talent |-> 0, score |-> 0]]
  /\ call = [r \in RankCalls \cup TopNCalls |-> [pc |-> "idle"]]
  /\ collected = NotCollecting /\ rankSnapshot = <<>> /\ updating = TRUE
  /\ stored = {} /\ boards = <<byID>>

-----------------------------------------------------------------------------
(* Locks *)

\* TopN calls inside mu.RLock.
Reading == {r \in TopNCalls : call[r].pc = "ranks"}

CanRLock == mu = NoOne
CanLock  == mu = NoOne /\ Reading = {}

-----------------------------------------------------------------------------
(* UpdateBestWithMeta *)

WriterAt(w, pc, t, ns) == writer' = [writer EXCEPT ![w] = [pc |-> pc, talent |-> t, score |-> ns]]

SetEvent(t, w) == [u \in DOMAIN event \cup {t} |-> IF u = t THEN w ELSE event[u]]

\* History: the record of t now is, or is about to be, (ns, w).
Written(t, ns, w) ==
  /\ stored' = stored \cup {<<t, ns, w>>}
  /\ boards' = Append(boards, byID')

\* A new record is complete before anyone can see it.
CreateRecord(w, t, ns) ==
  /\ writer[w].pc = "idle" /\ CanLock
  /\ NewTalent(t, ns)
  /\ event' = SetEvent(t, w)
  /\ WriterAt(w, "done", t, ns)
  /\ Written(t, ns, w)
  /\ UNCHANGED <<mu, call, ranking>>

LeaveRecord(w, t, ns) ==
  /\ writer[w].pc = "idle" /\ CanLock
  /\ NotAnImprovement(t, ns)
  /\ WriterAt(w, "done", t, ns)
  /\ UNCHANGED <<event, mu, call, ranking, history>>

\* Mutant of ImproveScore: the last score wins.
ImproveScoreAnyway(w, t, ns) ==
  /\ writer[w].pc = "idle" /\ CanLock
  /\ t \in DOMAIN byID
  /\ root' = deleteNode(root, t, byID[t])
  /\ byID' = [byID EXCEPT ![t] = ns]
  /\ mu' = w
  /\ WriterAt(w, "event", t, ns)
  /\ Written(t, ns, w)
  /\ UNCHANGED <<event, call, ranking>>

\* deleteNode and old.score = ns; mu stays locked.
ImproveScore(w, t, ns) ==
  /\ writer[w].pc = "idle" /\ CanLock
  /\ t \in DOMAIN byID /\ ns > byID[t]
  /\ root' = deleteNode(root, t, byID[t])
  /\ byID' = [byID EXCEPT ![t] = ns]
  /\ mu' = w
  /\ WriterAt(w, "event", t, ns)
  /\ Written(t, ns, w)
  /\ UNCHANGED <<event, call, ranking>>

\* old.eventID = eventID and the other metadata.
ImproveEvent(w) ==
  /\ writer[w].pc = "event"
  /\ event' = SetEvent(writer[w].talent, w)
  /\ writer' = [writer EXCEPT ![w].pc = "insert"]
  /\ UNCHANGED <<root, byID, mu, call, ranking, history>>

\* insert and unlock.
ImproveTree(w) ==
  /\ writer[w].pc = "insert"
  /\ root' = insert(root, writer[w].talent, writer[w].score)
  /\ mu' = NoOne
  /\ writer' = [writer EXCEPT ![w].pc = "done"]
  /\ UNCHANGED <<byID, event, call, ranking, history>>

Update(w) ==
  \/ \E u \in Updates :
       LET t == u[1]
           ns == toFixedPoint(u[2])
       IN  CreateRecord(w, t, ns) \/ LeaveRecord(w, t, ns) \/ ImproveScore(w, t, ns)
  \/ ImproveEvent(w)
  \/ ImproveTree(w)

-----------------------------------------------------------------------------
(* Rank *)

\* The fields of f, and those of g that f does not have.
Over(f, g) == [x \in DOMAIN f \cup DOMAIN g |-> IF x \in DOMAIN f THEN f[x] ELSE g[x]]

Goes(r, fields) == call' = [call EXCEPT ![r] = Over(fields, call[r])]

\* HandleGetRank and HandleGetLeaderboard: a path without a talent or a limit
\* that is no positive number is answered 400; the store is not asked.
BadRequest(r) ==
  /\ call[r].pc = "idle"
  /\ Goes(r, [pc |-> "bad_request"])
  /\ UNCHANGED <<store, writer, ranking, history>>

\* byID is consulted under mu.RLock.  `from` and `upto` are history: which
\* boards there were during the call.
FindRecord(r, t) ==
  /\ call[r].pc = "idle" /\ CanRLock
  /\ Goes(r, IF t \in DOMAIN byID
             THEN [pc |-> "snapshot", talent |-> t, from |-> Len(boards)]
             ELSE [pc |-> "not_found"])
  /\ UNCHANGED <<store, writer, ranking, history>>

LookUpRank(r) ==
  /\ call[r].pc = "snapshot"
  /\ IF call[r].talent \in DOMAIN rankSnapshot
     THEN Goes(r, [pc |-> "score", rank |-> rankSnapshot[call[r].talent], fallback |-> FALSE])
     ELSE Goes(r, [pc |-> "fallback"])
  /\ UNCHANGED <<store, writer, ranking, history>>

\* Not in the snapshot: calculateRank under mu.RLock.
ComputeRank(r) ==
  /\ call[r].pc = "fallback" /\ CanRLock
  /\ LET t == call[r].talent
     IN  Goes(r, [pc |-> "score", rank |-> calculateRank(root, t, byID[t]), fallback |-> TRUE])
  /\ UNCHANGED <<store, writer, ranking, history>>

\* The fields of the record are read without a lock, one after the other.
ReadScore(r) ==
  /\ call[r].pc = "score"
  /\ Goes(r, [pc |-> "event", score |-> byID[call[r].talent]])
  /\ UNCHANGED <<store, writer, ranking, history>>

ReadEvent(r) ==
  /\ call[r].pc = "event"
  /\ Goes(r, [pc |-> "done", event |-> event[call[r].talent], upto |-> Len(boards)])
  /\ UNCHANGED <<store, writer, ranking, history>>

Rank(r) ==
  \/ BadRequest(r)
  \/ \E t \in Talents : FindRecord(r, t)
  \/ LookUpRank(r) \/ ComputeRank(r) \/ ReadScore(r) \/ ReadEvent(r)

-----------------------------------------------------------------------------
(* TopN *)

\* Mutant of CollectTop: the tree is read without mu.
CollectTopUnlocked(r) ==
  /\ call[r].pc = "idle"
  /\ LET top == collectTopN(byID, root, Limit)
     IN  Goes(r, [pc |-> "ranks", from |-> Len(boards), entries |-> top,
                  events |-> [i \in DOMAIN top |-> event[top[i].id]]])
  /\ UNCHANGED <<store, writer, ranking, history>>

\* collectTopN under mu.RLock, which stays held.
CollectTop(r) ==
  /\ call[r].pc = "idle" /\ CanRLock
  /\ LET top == collectTopN(byID, root, Limit)
     IN  Goes(r, [pc |-> "ranks", from |-> Len(boards), entries |-> top,
                  events |-> [i \in DOMAIN top |-> event[top[i].id]]])
  /\ UNCHANGED <<store, writer, ranking, history>>

\* Ranks from the snapshot under snapshotMutex.RLock; one talent missing there
\* and all are ranked among the entries collected.
AssignTopRanks(r) ==
  /\ call[r].pc = "ranks"
  /\ LET es == call[r].entries
         ranks == IF \A i \in DOMAIN es : es[i].id \in DOMAIN rankSnapshot
                  THEN [i \in DOMAIN es |-> rankSnapshot[es[i].id]]
                  ELSE assignRanksWithTies(es)
     IN  Goes(r, [pc |-> "done", ranks |-> ranks])
  /\ UNCHANGED <<store, writer, ranking, history>>

TopN(r) == BadRequest(r) \/ CollectTop(r) \/ AssignTopRanks(r)

-----------------------------------------------------------------------------
(* updateRankSnapshot, and the goroutine that calls it at every tick *)

\* Mutant of Collect: the tree is read without mu.
CollectUnlocked ==
  /\ updating /\ ~collected.busy
  /\ collected' = [busy |-> TRUE, entries |-> collectAllEntries(byID, root)]
  /\ UNCHANGED <<store, writer, call, rankSnapshot, updating, history>>

Collect ==
  /\ updating /\ ~collected.busy /\ CanRLock
  /\ collected' = [busy |-> TRUE, entries |-> collectAllEntries(byID, root)]
  /\ UNCHANGED <<store, writer, call, rankSnapshot, updating, history>>

\* Mutants of Publish: the rank is the position in the list, whatever the ties,
\* or only talents that are new to the snapshot get a rank.
PublishPositions ==
  /\ collected.busy
  /\ LET es == collected.entries
     IN  rankSnapshot' =
           [t \in {es[i].id : i \in DOMAIN es} |-> CHOOSE i \in DOMAIN es : es[i].id = t]
  /\ collected' = NotCollecting
  /\ UNCHANGED <<store, writer, call, updating, history>>

PublishNewcomers ==
  /\ collected.busy
  /\ LET es    == collected.entries
         ranks == assignRanksWithTies(es)
     IN  rankSnapshot' =
           Over(rankSnapshot, [t \in {es[i].id : i \in DOMAIN es} |->
                                 ranks[CHOOSE i \in DOMAIN es : es[i].id = t]])
  /\ collected' = NotCollecting
  /\ UNCHANGED <<store, writer, call, updating, history>>

Publish ==
  /\ collected.busy
  /\ LET es    == collected.entries
         ranks == assignRanksWithTies(es)
     IN  rankSnapshot' =
           [t \in {es[i].id : i \in DOMAIN es} |->
              ranks[CHOOSE i \in DOMAIN es : es[i].id = t]]
  /\ collected' = NotCollecting
  /\ UNCHANGED <<store, writer, call, updating, history>>

\* ctx.Done in the goroutine's select.
StopUpdating ==
  /\ updating /\ ~collected.busy
  /\ updating' = FALSE
  /\ UNCHANGED <<store, writer, call, collected, rankSnapshot, history>>

StoreNext ==
  \/ \E w \in Writers : Update(w)
  \/ \E r \in RankCalls : Rank(r)
  \/ \E r \in TopNCalls : TopN(r)
  \/ Collect \/ Publish \/ StopUpdating

StoreSpec == StoreInit /\ [][StoreNext]_allVars

\* A goroutine inside a critical section leaves it, and the ticker ticks.
StoreFairness ==
  /\ \A w \in Writers : WF_allVars(ImproveEvent(w) \/ ImproveTree(w))
  /\ \A r \in TopNCalls : WF_allVars(AssignTopRanks(r))
  /\ WF_allVars(Collect) /\ WF_allVars(Publish)

FairStoreSpec == StoreSpec /\ StoreFairness

-----------------------------------------------------------------------------
(* Properties *)

Listed == {r \in TopNCalls : call[r].pc = "done"}

(* Readers as Board sees them *)

Field(r, f, unread) == IF f \in DOMAIN call[r] THEN call[r][f] ELSE unread

RankPhase ==
  [idle |-> "idle", bad_request |-> "idle", not_found |-> "not_found", snapshot |-> "found",
   fallback |-> "found", score |-> "ranked", event |-> "scored", done |-> "done"]

RanksSeen ==
  [r \in RankCalls |->
    [pc |-> RankPhase[call[r].pc], talent |-> Field(r, "talent", 0), from |-> Field(r, "from", 0),
     rank |-> Field(r, "rank", 0), estimated |-> Field(r, "fallback", FALSE),
     score |-> Field(r, "score", 0), upto |-> Field(r, "upto", 0)]]

\* A list of entries as a board, and the values that go with the entries by talent.
AsBoard(es) ==
  [t \in {es[i].id : i \in DOMAIN es} |-> es[CHOOSE i \in DOMAIN es : es[i].id = t].score]

ByTalent(es, values) ==
  IF values = <<>> THEN <<>>
  ELSE [t \in {es[i].id : i \in DOMAIN es} |-> values[CHOOSE i \in DOMAIN es : es[i].id = t]]

TopPhase == [idle |-> "idle", bad_request |-> "idle", ranks |-> "listed", done |-> "done"]

TopsSeen ==
  [r \in TopNCalls |->
    LET es == Field(r, "entries", <<>>)
    IN  [pc |-> TopPhase[call[r].pc], at |-> Field(r, "from", 0), top |-> AsBoard(es),
         ranks |-> ByTalent(es, Field(r, "ranks", <<>>))]]

Promise == INSTANCE Board WITH
  Scores <- {toFixedPoint(u[2]) : u \in Updates},
  board <- byID, snapshot <- rankSnapshot, ranked <- RanksSeen, listed <- TopsSeen,
  copy <- IF collected.busy THEN AsBoard(collected.entries) ELSE NoOne

\* The store does what Board promises: the updater copies whole boards, never
\* a tree from which an update has just removed a talent; no update lowers a
\* score; every read is of the board or of the snapshot as it was at one moment.
BoardSpec == Promise!Spec

RanksOf(b) == Promise!RanksOf(b)

\* The snapshot is always the ranking of some board there has been, whole.
SnapshotWasTrue == Promise!SnapshotWasTrue

\* Rank answers with a score the talent had during the call, although it is
\* read without the lock, and with a rank it has had, or an estimate that is
\* never worse than a place it had during the call.
RankIsFromTheBoards == Promise!RankIsFromTheBoards

\* TopN lists the first Limit talents of the board it locked, in order, each
\* with a score and an event that belong together; its ranks are all those of
\* one board there has been, that of the last snapshot or the one it locked.
TopNIsCoherent ==
  \A r \in Listed :
    LET es == call[r].entries
        b  == boards[call[r].from]
    IN  /\ Len(es) = IF Cardinality(DOMAIN b) < Limit THEN Cardinality(DOMAIN b) ELSE Limit
        /\ \A i \in DOMAIN es :
             /\ es[i].score = b[es[i].id]
             /\ Cardinality({u \in DOMAIN b : less(b[u], u, es[i].score, es[i].id)}) = i - 1
             /\ <<es[i].id, es[i].score, call[r].events[i]>> \in stored
        /\ \E k \in 1..call[r].from : \A i \in DOMAIN es :
             es[i].id \in DOMAIN boards[k] /\ call[r].ranks[i] = RanksOf(boards[k])[es[i].id]

\* When updates have ceased, the snapshot catches up with the board, unless
\* its goroutine has been told to stop.
SnapshotCatchesUp ==
  (\A w \in Writers : writer[w].pc = "done") ~> (rankSnapshot = RanksOf(byID) \/ ~updating)

\* ARCHITECTURE.md: thread-safe concurrent access: the score and the event of
\* an answer to Rank were written together.
RankIsWhole ==
  \A r \in {c \in RankCalls : call[c].pc = "done"} :
    <<call[r].talent, call[r].score, call[r].event>> \in stored
=============================================================================
