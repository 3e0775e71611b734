----------------------------- MODULE Lifecycle -----------------------------
(***************************************************************************)
(* Service.Start and Service.Stop, the worker pool they start and stop, and*)
(* the POST handlers that use the Service meanwhile.  Start builds a new   *)
(* generation of components and puts them into the Service's fields, first *)
(* the deduper, then the queue and the pool; Start and Stop hold s.mu, the *)
(* handlers do not, so each call of theirs finds what the field it reads   *)
(* holds at that moment.  The deduper of a generation is the bounded window*)
(* of DedupeWindow, which forgets its oldest id to record a new one.       *)
(*                                                                         *)
(* Pool.Stop closes the pool's shutdown channel, on which no worker        *)
(* listens, and waits for each worker in turn with a timeout; the workers  *)
(* end when their context is cancelled or when their queue, which          *)
(* Service.Stop closes afterwards, is drained.                             *)
(***************************************************************************)
EXTENDS DedupeWindow, FiniteSets

CONSTANTS
  Posts, Ids, IdOf,   \* POST requests and the event id of each
  Impatient,          \* POSTs whose client may hang up, cancelling r.Context()
  PoolSize,           \* workers per pool
  QueueSize,          \* capacity and buffer of the queue
  MaxStarts           \* bound: how often the Service is started

ASSUME LifecycleAssumption ==
  /\ IdOf \in [Posts -> Ids] /\ IsFiniteSet(Ids)
  /\ Impatient \subseteq Posts
  /\ PoolSize \in Nat \ {0} /\ QueueSize \in Nat \ {0} /\ MaxStarts \in Nat \ {0}

Workers == 1..PoolSize
Generations == 1..MaxStarts

VARIABLES
  started,     \* s.started
  deduperGen,  \* the generation of the deduper in the Service's fields
  gen,         \* that of the queue and the pool; 0 before the first Start
  waitingFor,  \* the worker Stop waits for; 0 when no Stop is under way (s.mu is free)
  signals,     \* how often each pool's shutdown channel has been closed
  stopChs,     \* how often s.stopCh has been closed
  ctxDone,     \* generations whose context is cancelled
  closed,      \* generations whose queue is closed
  queued,      \* events in each queue
  recorded,    \* the window of each deduper
  log,         \* history: the POSTs each deduper has recorded, in that order
  running,     \* workers of each pool that have not closed `done`
  post         \* where each handler is, and the generations it has used

lifecycle  == <<started, deduperGen, gen, waitingFor, signals, stopChs>>
components == <<ctxDone, closed, queued, recorded, log, running>>
vars       == <<lifecycle, components, post>>

Init ==
  /\ started = FALSE /\ deduperGen = 0 /\ gen = 0 /\ waitingFor = 0
  /\ signals = [g \in Generations |-> 0] /\ stopChs = 0
  /\ ctxDone = {} /\ closed = {}
  /\ queued = [g \in Generations |-> {}]
  /\ recorded = [g \in Generations |-> <<>>]
  /\ log = [g \in Generations |-> <<>>]
  /\ running = [g \in Generations |-> {}]
  /\ post = [p \in Posts |-> [pc |-> "idle", deduper |-> 0, queue |-> 0]]

-----------------------------------------------------------------------------
(* Start and Stop *)

\* Start, of a Service that is not started: the deduper.  s.mu stays held.
StartDeduper ==
  /\ waitingFor = 0 /\ ~started /\ deduperGen = gen /\ gen < MaxStarts
  /\ deduperGen' = gen + 1
  /\ UNCHANGED <<started, gen, waitingFor, signals, stopChs, components, post>>

\* Mutant of StartPool: the Service counts as started before its workers are.
StartWithoutPool ==
  /\ deduperGen > gen
  /\ started' = TRUE /\ gen' = deduperGen
  /\ UNCHANGED <<deduperGen, waitingFor, signals, stopChs, components, post>>

\* Start goes on: the queue, the pool and its workers.
StartPool ==
  /\ deduperGen > gen
  /\ started' = TRUE /\ gen' = deduperGen
  /\ running' = [running EXCEPT ![deduperGen] = Workers]
  /\ UNCHANGED <<deduperGen, waitingFor, signals, stopChs, ctxDone, closed, queued, recorded, log, post>>

\* Mutant of StopCalled: the started flag is not looked at.
StopUnguarded ==
  /\ waitingFor = 0 /\ gen > 0 /\ deduperGen = gen /\ signals[gen] < 2
  /\ signals' = [signals EXCEPT ![gen] = @ + 1]
  /\ waitingFor' = 1
  /\ UNCHANGED <<started, deduperGen, gen, stopChs, components, post>>

\* Stop takes s.mu and signals the pool; a Service not started is left alone.
StopCalled ==
  /\ waitingFor = 0 /\ started
  /\ signals' = [signals EXCEPT ![gen] = @ + 1]
  /\ waitingFor' = 1
  /\ UNCHANGED <<started, deduperGen, gen, stopChs, components, post>>

\* `case <-worker.done`.
WaitOver ==
  /\ waitingFor \in Workers /\ waitingFor \notin running[gen]
  /\ waitingFor' = waitingFor + 1
  /\ UNCHANGED <<started, deduperGen, gen, signals, stopChs, components, post>>

\* `case <-time.After(workerShutdownTimeout)`.
WaitTimesOut ==
  /\ waitingFor \in Workers /\ waitingFor \in running[gen]
  /\ waitingFor' = waitingFor + 1
  /\ UNCHANGED <<started, deduperGen, gen, signals, stopChs, components, post>>

\* Mutant of StopCloses: the queue stays open.
StopLeavesQueueOpen ==
  /\ waitingFor > PoolSize
  /\ stopChs' = IF stopChs = 0 THEN 1 ELSE stopChs
  /\ started' = FALSE /\ waitingFor' = 0
  /\ UNCHANGED <<deduperGen, gen, signals, components, post>>

\* The pool is done with: close the queue, and stopCh if it still is open.
StopCloses ==
  /\ waitingFor > PoolSize
  /\ closed' = closed \cup {gen}
  /\ stopChs' = IF stopChs = 0 THEN 1 ELSE stopChs
  /\ started' = FALSE /\ waitingFor' = 0
  /\ UNCHANGED <<deduperGen, gen, signals, ctxDone, queued, recorded, log, running, post>>

\* The context given to Start is cancelled.
Cancel(g) ==
  /\ g \in 1..gen \ ctxDone
  /\ ctxDone' = ctxDone \cup {g}
  /\ UNCHANGED <<lifecycle, closed, queued, recorded, log, running, post>>

-----------------------------------------------------------------------------
(* Handlers: each call reads a field of the Service, without s.mu *)

At(p, pc, d, q) == post' = [post EXCEPT ![p] = [pc |-> pc, deduper |-> d, queue |-> q]]

Duplicate(p) ==
  /\ post[p].pc = "idle" /\ gen > 0
  /\ IdOf[p] \in Recorded(recorded[deduperGen])
  /\ At(p, "duplicate", 0, 0)
  /\ UNCHANGED <<lifecycle, components>>

\* The id becomes the newest of the window, which forgets the oldest if it is full.
RecordIn(g, p) ==
  /\ recorded' = [recorded EXCEPT ![g] = RecordNew(@, IdOf[p])]
  /\ log' = [log EXCEPT ![g] = Append(@, p)]

\* Mutant of Record: the id is recorded without looking whether it is there.
RecordUnchecked(p) ==
  /\ post[p].pc = "idle" /\ gen > 0
  /\ RecordIn(deduperGen, p)
  /\ At(p, "recorded", deduperGen, 0)
  /\ UNCHANGED <<lifecycle, ctxDone, closed, queued, running>>

\* SeenAndRecord finds nothing.
Record(p) ==
  /\ post[p].pc = "idle" /\ gen > 0
  /\ IdOf[p] \notin Recorded(recorded[deduperGen])
  /\ RecordIn(deduperGen, p)
  /\ At(p, "recorded", deduperGen, 0)
  /\ UNCHANGED <<lifecycle, ctxDone, closed, queued, running>>

HasRoom == gen \notin closed /\ Cardinality(queued[gen]) < QueueSize

Enqueue(p) ==
  /\ post[p].pc = "recorded" /\ HasRoom
  /\ queued' = [queued EXCEPT ![gen] = @ \cup {p}]
  /\ At(p, "accepted", post[p].deduper, gen)
  /\ UNCHANGED <<lifecycle, ctxDone, closed, recorded, log, running>>

\* The queue is closed or full, or the select sees that the client is gone.
EnqueueFails(p) ==
  /\ post[p].pc = "recorded"
  /\ ~HasRoom \/ p \in Impatient
  /\ At(p, "rollback", post[p].deduper, 0)
  /\ UNCHANGED <<lifecycle, components>>

Rollback(p) ==
  /\ post[p].pc = "rollback"
  /\ recorded' = [recorded EXCEPT ![deduperGen] = Unrecord(@, IdOf[p])]
  /\ At(p, "backpressure", post[p].deduper, deduperGen)
  /\ UNCHANGED <<lifecycle, ctxDone, closed, queued, log, running>>

Handler(p) == Duplicate(p) \/ Record(p) \/ Enqueue(p) \/ EnqueueFails(p) \/ Rollback(p)

-----------------------------------------------------------------------------
(* Workers: receiving and processing an event is one step here *)

Work(g, w) ==
  /\ w \in running[g]
  /\ \E p \in queued[g] : queued' = [queued EXCEPT ![g] = @ \ {p}]
  /\ UNCHANGED <<lifecycle, ctxDone, closed, recorded, log, running, post>>

WorkerEnds(g, w) ==
  /\ w \in running[g]
  /\ g \in ctxDone \/ (g \in closed /\ queued[g] = {})
  /\ running' = [running EXCEPT ![g] = @ \ {w}]
  /\ UNCHANGED <<lifecycle, ctxDone, closed, queued, recorded, log, post>>

Stop == StopCalled \/ WaitOver \/ WaitTimesOut \/ StopCloses

Start == StartDeduper \/ StartPool

Next ==
  \/ Start \/ Stop
  \/ \E g \in Generations : Cancel(g)
  \/ \E p \in Posts : Handler(p)
  \/ \E g \in Generations, w \in Workers : Work(g, w) \/ WorkerEnds(g, w)

Spec == Init /\ [][Next]_vars

\* A Start or Stop under way goes on, its timers fire, and workers run; nobody
\* has to call Start or Stop, and no client has to POST.
Fairness ==
  /\ WF_vars(StartPool)
  /\ WF_vars(WaitOver \/ WaitTimesOut) /\ WF_vars(StopCloses)
  /\ \A g \in Generations, w \in Workers : WF_vars(Work(g, w) \/ WorkerEnds(g, w))

FairSpec == Spec /\ Fairness

-----------------------------------------------------------------------------
(* Properties *)

Where == {"idle", "duplicate", "recorded", "accepted", "rollback", "backpressure"}

TypeOK ==
  /\ started \in BOOLEAN /\ gen \in 0..MaxStarts /\ deduperGen \in 0..MaxStarts /\ waitingFor \in 0..(PoolSize + 1)
  /\ signals \in [Generations -> Nat] /\ stopChs \in Nat
  /\ ctxDone \subseteq Generations /\ closed \subseteq Generations
  /\ queued \in [Generations -> SUBSET Posts]
  /\ recorded \in [Generations -> Windows(Ids)]
  /\ log \in [Generations -> Seq(Posts)]
  /\ running \in [Generations -> SUBSET Workers]
  /\ post \in [Posts -> [pc : Where, deduper : 0..MaxStarts, queue : 0..MaxStarts]]

\* No channel is closed a second time, which would panic, however often the
\* Service is started and stopped.
ClosedOnce == stopChs <= 1 /\ \A g \in Generations : signals[g] <= 1

\* A started Service that nobody is stopping has an open queue and, unless its
\* context is cancelled, all its workers: a Stop never reaches the components
\* of the next Start.
OpenWhileStarted ==
  started =>
    /\ gen \notin closed
    /\ gen \in ctxDone \/ running[gen] = Workers

AcceptedBy(g) == {p \in Posts : post[p].pc = "accepted" /\ post[p].queue = g}

\* A POST of the id that used the deduper of one generation to record it and
\* then, on the other side of a Start, g's queue to enqueue or g's deduper to
\* roll back.
Straddled(g, id) ==
  \E p \in Posts : IdOf[p] = id /\ post[p].queue = g /\ post[p].deduper # g

\* The ids deduper g has recorded from the i-th on, up to the j-th.
RecordedBetween(g, i, j) == {IdOf[log[g][k]] : k \in i..j}

\* Deduper g has recorded the id twice, with MaxSize others in between.
Evicted(g, id) ==
  \E i, j \in DOMAIN log[g] :
    /\ IdOf[log[g][i]] = id /\ IdOf[log[g][j]] = id
    /\ Cardinality(RecordedBetween(g, i, j) \ {id}) >= MaxSize

\* The two ways in which the deduper of a generation loses an id that is in use.
Forgotten(g, id) == Straddled(g, id) \/ Evicted(g, id)

\* A queue is given an event id a second time only if a handler of this very id
\* straddled a Start, or if MaxSize other ids were recorded between two records
\* of it; handlers of other ids may straddle, roll back and hang up as they like.
OncePerGeneration ==
  \A g \in Generations : \A p, q \in AcceptedBy(g) :
    IdOf[p] = IdOf[q] => p = q \/ Forgotten(g, IdOf[p])

Retired(g) == g < gen \/ (g = gen /\ ~started)

\* The workers of a Service that has been stopped end eventually, although the
\* signal of Stop does not reach them.
RetiredWorkersEnd == \A g \in Generations : Retired(g) ~> running[g] = {}

\* worker.go: "Stop gracefully stops all workers": when Pool.Stop returns, the
\* workers are stopped.
StopStopsWorkers == waitingFor > PoolSize => running[gen] = {}
=============================================================================
