------------------------------ MODULE Pipeline ------------------------------
(***************************************************************************)
(* From POST /events to the leaderboard.  Every POST is a handler goroutine*)
(* that consults the deduper, tries the bounded queue and rolls the deduper*)
(* back when the queue refuses (api/events.go, app/service.go).  Every     *)
(* worker is a pair of goroutines: the forwarder that queue.Dequeue starts,*)
(* which moves events from the queue's channel to the worker's own         *)
(* unbuffered channel, and the loop of worker.Run.  The process context    *)
(* may be cancelled (SIGTERM) and the queue closed (Service.Stop or        *)
(* Pool.Shutdown) at any moment, in either order, and single workers may be*)
(* shut down while the others go on.                                       *)
(*                                                                         *)
(* An event is named by the POST that carried it: two POSTs with the same  *)
(* event id may carry different talents and scores.                        *)
(***************************************************************************)
EXTENDS DedupeWindow, FiniteSets

CONSTANTS
  Posts,          \* the POST /events requests
  Careless,       \* those whose body may be one that does not decode or validate
  Impatient,      \* those whose client may hang up, cancelling r.Context()
  Ids, IdOf,      \* event ids, and the id each POST carries
  Talents, TalentOf,
  ScoreOf,        \* what the scorer returns for the POST's metric and skill
  Workers,
  Retiring,       \* those somebody may shut down by InMemoryWorker.Shutdown
  QueueCapacity,  \* s.queueSize: the queue's capacity and its buffer size
  NoPost, NoScore

ASSUME PipelineAssumption ==
  /\ Careless \subseteq Posts /\ Impatient \subseteq Posts /\ Retiring \subseteq Workers
  /\ IdOf \in [Posts -> Ids]
  /\ TalentOf \in [Posts -> Talents]
  /\ ScoreOf \in [Posts -> Int]
  /\ QueueCapacity \in Nat \ {0}
  /\ NoPost \notin Posts

VARIABLES
  pc,          \* where the handler of each POST is, or what it answered
  seen,        \* the deduper's window
  events,      \* the queue's channel
  closed,      \* the queue is closed
  forwarding,  \* workers whose forwarder goroutine is alive
  held,        \* the event each forwarder has taken and not yet handed over
  running,     \* workers whose loop is alive
  job,         \* the event each worker is processing
  signalled,   \* workers whose shutdown channel is closed
  best,        \* the store: the POST that holds each talent's best score
  applied,     \* history: events a worker has put to the store
  lost,        \* history: events dropped by a forwarder or by the scorer
  ctxDone      \* the context given to Service.Start is cancelled

handlers == <<pc, seen>>
queue    == <<events, closed>>
workers  == <<forwarding, held, running, job, signalled>>
board    == <<best, applied, lost>>
vars     == <<handlers, queue, workers, board, ctxDone>>

Answers == {"bad_request", "duplicate", "backpressure", "accepted"}

TypeOK ==
  /\ pc \in [Posts -> {"idle", "recorded", "rollback"} \cup Answers]
  /\ seen \in Windows(Ids)
  /\ events \in Seq(Posts) /\ Len(events) <= QueueCapacity
  /\ closed \in BOOLEAN /\ ctxDone \in BOOLEAN
  /\ forwarding \subseteq Workers /\ running \subseteq Workers /\ signalled \subseteq Workers
  /\ held \in [Workers -> Posts \cup {NoPost}]
  /\ job \in [Workers -> Posts \cup {NoPost}]
  /\ best \in [Talents -> Posts \cup {NoPost}]
  /\ applied \subseteq Posts /\ lost \subseteq Posts

Init ==
  /\ pc = [p \in Posts |-> "idle"]
  /\ seen = <<>> /\ events = <<>> /\ closed = FALSE
  /\ forwarding = Workers /\ held = [w \in Workers |-> NoPost]
  /\ running = Workers /\ job = [w \in Workers |-> NoPost] /\ signalled = {}
  /\ best = [t \in Talents |-> NoPost] /\ applied = {} /\ lost = {}
  /\ ctxDone = FALSE

-----------------------------------------------------------------------------
(* The handler of a POST *)

Goto(p, where) == pc' = [pc EXCEPT ![p] = where]

\* The body does not decode or does not validate: 400, nothing else happens.
BadRequest(p) ==
  /\ pc[p] = "idle" /\ p \in Careless
  /\ Goto(p, "bad_request")
  /\ UNCHANGED <<seen, queue, workers, board, ctxDone>>

\* SeenAndRecord finds the id: 200.
Duplicate(p) ==
  /\ pc[p] = "idle"
  /\ IdOf[p] \in Recorded(seen)
  /\ Goto(p, "duplicate")
  /\ UNCHANGED <<seen, queue, workers, board, ctxDone>>

\* Mutant of Record: the id is recorded without looking whether it is there.
RecordUnchecked(p) ==
  /\ pc[p] = "idle"
  /\ seen' = RecordNew(seen, IdOf[p])
  /\ Goto(p, "recorded")
  /\ UNCHANGED <<queue, workers, board, ctxDone>>

\* SeenAndRecord records the id, evicting the oldest one if it must.
Record(p) ==
  /\ pc[p] = "idle"
  /\ IdOf[p] \notin Recorded(seen)
  /\ seen' = RecordNew(seen, IdOf[p])
  /\ Goto(p, "recorded")
  /\ UNCHANGED <<queue, workers, board, ctxDone>>

HasRoom == ~closed /\ Len(events) < QueueCapacity

\* Mutant of Enqueue: a full queue drops the event and still answers 202.
EnqueueOrDrop(p) ==
  /\ pc[p] = "recorded"
  /\ events' = IF HasRoom THEN Append(events, p) ELSE events
  /\ Goto(p, "accepted")
  /\ UNCHANGED <<seen, closed, workers, board, ctxDone>>

\* The queue takes the event: 202.
Enqueue(p) ==
  /\ pc[p] = "recorded" /\ HasRoom
  /\ events' = Append(events, p)
  /\ Goto(p, "accepted")
  /\ UNCHANGED <<seen, closed, workers, board, ctxDone>>

\* The queue is closed or full, or the select sees that the client is gone.
EnqueueFails(p) ==
  /\ pc[p] = "recorded"
  /\ ~HasRoom \/ p \in Impatient
  /\ Goto(p, "rollback")
  /\ UNCHANGED <<seen, queue, workers, board, ctxDone>>

\* Unrecord the id, then 429.
Rollback(p) ==
  /\ pc[p] = "rollback"
  /\ seen' = Unrecord(seen, IdOf[p])
  /\ Goto(p, "backpressure")
  /\ UNCHANGED <<queue, workers, board, ctxDone>>

-----------------------------------------------------------------------------
(* The two goroutines of a worker *)

\* The forwarder's range loop receives from the queue's channel.
Forward(w) ==
  /\ w \in forwarding /\ held[w] = NoPost /\ events # <<>>
  /\ held' = [held EXCEPT ![w] = Head(events)]
  /\ events' = Tail(events)
  /\ UNCHANGED <<handlers, closed, forwarding, running, job, signalled, board, ctxDone>>

\* The forwarder gives up the event it holds: `case <-ctx.Done(): return`.
ForwarderQuits(w) ==
  /\ w \in forwarding /\ held[w] # NoPost /\ ctxDone
  /\ lost' = lost \cup {held[w]}
  /\ held' = [held EXCEPT ![w] = NoPost]
  /\ forwarding' = forwarding \ {w}
  /\ UNCHANGED <<handlers, queue, running, job, signalled, best, applied, ctxDone>>

\* Mutant of ForwarderEnds: it leaves a closed queue that still holds events.
ForwarderEndsOnClose(w) ==
  /\ w \in forwarding /\ held[w] = NoPost /\ closed
  /\ forwarding' = forwarding \ {w}
  /\ UNCHANGED <<handlers, queue, held, running, job, signalled, board, ctxDone>>

\* The range loop ends: the queue is closed and empty.
ForwarderEnds(w) ==
  /\ w \in forwarding /\ held[w] = NoPost /\ closed /\ events = <<>>
  /\ forwarding' = forwarding \ {w}
  /\ UNCHANGED <<handlers, queue, held, running, job, signalled, board, ctxDone>>

Selecting(w) == w \in running /\ job[w] = NoPost

\* The forwarder and the worker meet on the unbuffered channel.
Receive(w) ==
  /\ Selecting(w) /\ held[w] # NoPost
  /\ job' = [job EXCEPT ![w] = held[w]]
  /\ held' = [held EXCEPT ![w] = NoPost]
  /\ UNCHANGED <<handlers, queue, forwarding, running, signalled, board, ctxDone>>

\* Mutants of WorkerExits: the loop ends as soon as the queue is closed, or
\* only when the context is cancelled.
WorkerExitsOnClose(w) ==
  /\ Selecting(w)
  /\ ctxDone \/ w \in signalled \/ closed
  /\ running' = running \ {w}
  /\ UNCHANGED <<handlers, queue, forwarding, held, job, signalled, board, ctxDone>>

WorkerExitsOnCancel(w) ==
  /\ Selecting(w)
  /\ ctxDone \/ w \in signalled
  /\ running' = running \ {w}
  /\ UNCHANGED <<handlers, queue, forwarding, held, job, signalled, board, ctxDone>>

\* The worker's select sees the cancelled context, its own shutdown channel or
\* the closed channel of events.
WorkerExits(w) ==
  /\ Selecting(w)
  /\ ctxDone \/ w \in signalled \/ w \notin forwarding
  /\ running' = running \ {w}
  /\ UNCHANGED <<handlers, queue, forwarding, held, job, signalled, board, ctxDone>>

\* Mutant of Improves: the last score wins.
AlwaysImproves(p) == TRUE

\* UpdateBestWithMeta takes p when its talent has no score or a lower one.
Improves(p) ==
  \/ best[TalentOf[p]] = NoPost
  \/ ScoreOf[best[TalentOf[p]]] < ScoreOf[p]

\* processEvent: score the event and update the store.
Process(w) ==
  /\ job[w] # NoPost
  /\ best' = IF Improves(job[w]) THEN [best EXCEPT ![TalentOf[job[w]]] = job[w]] ELSE best
  /\ applied' = applied \cup {job[w]}
  /\ job' = [job EXCEPT ![w] = NoPost]
  /\ UNCHANGED <<handlers, queue, forwarding, held, running, signalled, lost, ctxDone>>

\* processEvent: Score returns ctx.Err() and the event is dropped.
ScoreFails(w) ==
  /\ job[w] # NoPost /\ ctxDone
  /\ lost' = lost \cup {job[w]}
  /\ job' = [job EXCEPT ![w] = NoPost]
  /\ UNCHANGED <<handlers, queue, forwarding, held, running, signalled, best, applied, ctxDone>>

-----------------------------------------------------------------------------
(* The process *)

\* SIGINT or SIGTERM cancels the context of Service.Start.
Cancel ==
  /\ ~ctxDone /\ ctxDone' = TRUE
  /\ UNCHANGED <<handlers, queue, workers, board>>

\* InMemoryWorker.Shutdown closes the worker's shutdown channel and waits for it.
\* Its forwarder hears nothing of it.
ShutdownWorker(w) ==
  /\ w \in Retiring \ signalled
  /\ signalled' = signalled \cup {w}
  /\ UNCHANGED <<handlers, queue, forwarding, held, running, job, board, ctxDone>>

\* Service.Stop and Pool.Shutdown close the queue.  Pool.Stop, which the former
\* calls first, closes a channel no worker listens to; so does Pool.Shutdown.
\* Both wait for the workers with a timeout: a delay.
CloseQueue ==
  /\ ~closed /\ closed' = TRUE
  /\ UNCHANGED <<handlers, events, workers, board, ctxDone>>

Handler(p) ==
  \/ BadRequest(p) \/ Duplicate(p) \/ Record(p)
  \/ Enqueue(p) \/ EnqueueFails(p) \/ Rollback(p)

Forwarder(w) == Forward(w) \/ ForwarderQuits(w) \/ ForwarderEnds(w)

Loop(w) == Receive(w) \/ WorkerExits(w) \/ Process(w) \/ ScoreFails(w)

Next ==
  \/ \E p \in Posts : Handler(p)
  \/ \E w \in Workers : Forwarder(w) \/ Loop(w) \/ ShutdownWorker(w)
  \/ Cancel \/ CloseQueue

Spec == Init /\ [][Next]_vars

\* Goroutines that can run do run; clients, signals, Stop and Shutdown owe
\* nothing.
Fairness ==
  /\ \A p \in Posts : WF_vars(pc[p] # "idle" /\ Handler(p))
  /\ \A w \in Workers : WF_vars(Forwarder(w)) /\ WF_vars(Loop(w))

FairSpec == Spec /\ Fairness

-----------------------------------------------------------------------------
(* Properties *)

Accepted == {p \in Posts : pc[p] = "accepted"}

\* The handlers that have recorded their id and not rolled it back.
Pending == {p \in Posts : pc[p] \in {"recorded", "rollback"}}

\* Nothing is ever evicted: the window has room for every event id there is.
IdsFit == IsFiniteSet(Ids) /\ Cardinality(Ids) <= MaxSize

\* At most one POST of each event id is past the deduper with its record in
\* force: the second one is answered `duplicate` or comes after a rollback.
\* Holds when IdsFit.
AtMostOnce ==
  \A p, q \in Accepted \cup Pending : IdOf[p] = IdOf[q] => p = q

\* While a POST is accepted or on its way its id is recorded: a rollback of
\* another POST never takes the record away.  Same proviso.
RecordInForce ==
  \A p \in Accepted \cup Pending : IdOf[p] \in Recorded(seen)

InQueue == {events[i] : i \in DOMAIN events}
InHand  == {held[w] : w \in Workers} \ {NoPost}
InWork  == {job[w] : w \in Workers} \ {NoPost}

\* An event that was answered 202 is in exactly one place: the queue, a
\* forwarder's hand, a worker, the store, or dropped.  The sum says that no
\* place holds it twice and no two places share it.
EventsConserved ==
  /\ Accepted = InQueue \cup InHand \cup InWork \cup applied \cup lost
  /\ Cardinality(Accepted) =
       Len(events) + Cardinality({w \in Workers : held[w] # NoPost})
         + Cardinality({w \in Workers : job[w] # NoPost})
         + Cardinality(applied) + Cardinality(lost)

\* The store holds, for every talent, a best-scoring event among those applied:
\* no interleaving of workers lets a lower score overwrite a higher one.
BoardIsBest ==
  \A t \in Talents :
    LET mine == {p \in applied : TalentOf[p] = t}
    IN  IF mine = {} THEN best[t] = NoPost
        ELSE best[t] \in mine /\ \A p \in mine : ScoreOf[p] <= ScoreOf[best[t]]

\* ARCHITECTURE.md's reading of `200 duplicate`: another POST of the event has
\* been accepted, or at least has recorded it and may still be.
DuplicateIsHandled ==
  ~ctxDone /\ ~closed =>
  \A p \in Posts : pc[p] = "duplicate" =>
    \E q \in Posts : IdOf[q] = IdOf[p] /\ pc[q] \in {"recorded", "accepted"}

\* The leaderboard's scores as its readers see them.
Top == [t \in Talents |-> IF best[t] = NoPost THEN NoScore ELSE ScoreOf[best[t]]]

Abstract == INSTANCE Intake WITH accepted <- Accepted, top <- Top

\* The pipeline does what Intake promises, as long as nothing is evicted.
IntakeSpec == Abstract!Spec

\* The forwarder of a worker that was shut down still takes an event, which it
\* can hand to nobody.
Stranded(p) == \E w \in signalled : held[w] = p

\* Pool.Shutdown drains the pool: once every worker has ended, and some of them
\* other than by Shutdown, no accepted event is left in the queue, in a hand or
\* half processed, save the one event that each Shutdown may strand.
DrainedAtExit ==
  running = {} /\ signalled # Workers /\ ~ctxDone =>
    \A p \in Accepted : p \in applied \/ Stranded(p)

\* Every event answered 202 reaches the store, unless the process is stopped
\* by its context or a Shutdown strands it; closing the queue, and shutting
\* down workers while another one goes on, loses nothing else.
AcceptedIsApplied ==
  \A p \in Posts : pc[p] = "accepted" ~> (p \in applied \/ ctxDone \/ Stranded(p))

\* Once the context is cancelled or the queue closed every worker's loop ends,
\* and so does that of a worker which is shut down.
WorkersStop ==
  \A w \in Workers : (ctxDone \/ closed \/ w \in signalled) ~> w \notin running
=============================================================================
