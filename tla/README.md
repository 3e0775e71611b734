# cuju in TLA+

A verification development kept beside cuju, a Go service that scores talent
events and keeps a leaderboard in memory. The modules are translated from the
Go source (`src/` below is the root of the repository); `PROJECT.json` maps
each definition to the lines it stands for. TLC checks small instances; TLAPS
proves the main results about the intake pipeline, the queue, the life cycle and the
process, the deduper, the scorer, the treap, the store as its readers see it and
the load tool for every value of the constants.

## The system

| Component | State | Operations | Talks to |
|---|---|---|---|
| HTTP API, `POST /events` (`api/events.go`) | none of its own; one goroutine per request | decode, validate, `SeenAndRecord`, `Enqueue`, `Unrecord` | Service |
| HTTP API, `GET /rank`, `GET /leaderboard` | none | `Rank`, `TopN` | Service |
| Service (`app/service.go`) | `started`, pointers to the components, a mutex | `Start`, `Stop`, forwarding of the calls above | everything |
| Deduper (`domain/dedupe`) | map id -> node, linked list, node pool, counter, a mutex | `SeenAndRecord`, `Unrecord`, `Size` | - |
| Event queue (`mq/queue`) | a channel, `closed`, an RWMutex; one forwarder goroutine per `Dequeue` | `Enqueue`, `Dequeue`, `Close`, `Len` | workers |
| Worker pool (`mq/worker`) | one goroutine per worker; `shutdown` and `done` channels of pool and workers | `Run`, `processEvent`, `Start`, `Stop`, `Shutdown` | queue, scorer, store |
| Scorer (`domain/scoring`) | weights, a random generator | `Score`, which waits and honours the context | - |
| TreapStore (`repository`) | treap and map under `mu`, rank snapshot under `snapshotMutex`; an updater goroutine | `UpdateBestWithMeta`, `Rank`, `TopN`, `Count` | - |
| Process (`cmd/main.go`) | the root context, the HTTP server | start, wait for a signal, shut the server down, stop the service | Service |
| Load generator (`testevents`, `cmd/test-events`) | events, counters, rankings; goroutines, channels, WaitGroups | generate, submit, wait, retrieve, verify | HTTP API |
| Config, logger, metrics, dashboard, swagger | - | pure I/O | - |

A POST is recorded by the deduper, enqueued, taken by a forwarder, handed to a
worker, scored and put to the store, while readers use the store. What is hard:

* the handler's three calls (record, enqueue, roll back) interleave with those
  of other handlers of the same event id, and the deduper evicts;
* the forwarder and the worker each hold an event when the context is cancelled
  or the queue closed, in either order;
* `Enqueue` checks the capacity and sends in two steps, against `Close`;
* `Stop` signals a channel on which no worker listens and relies on timeouts;
* the Service's fields are replaced by `Start`, one by one, under a mutex that
  handlers do not take;
* the signal that ends the process cancels the workers' context while the HTTP
  server still takes requests;
* the load tool's goroutines must all end although its context may be cancelled
  at any time and its requests may fail after the server has acted on them;
* the treap is changed by rotations whose order depends on wrapped priorities;
* `Rank` reads a record without the lock and a snapshot of another moment.

What makes each part correct:

* POST handler, deduper and queue together: at most one POST of an id is accepted
  while its record lasts (`AtMostOnce`), a rollback removes only its own record
  (`RecordInForce`), and nothing accepted gets lost or doubled on its way
  (`EventsConserved`, `AcceptedIsApplied`).
* Deduper: list, map and pool agree (`ListMatchesMap`, `PoolIsApart`) and the
  window is first in, first out (`FifoSpec`, `RemembersLastMaxSize`).
* Queue: calls are atomic (`AtomicSpec`), no send meets a closed channel
  (`NoSendOnClosed`), the capacity is exceeded by little (`OvershootBounded`),
  order is kept (`EachInOrder`) and `Close` drains (`CloseDrains`).
* Workers and store: the best score wins in whatever order events are applied
  (`BoardIsBest`), workers end (`WorkersStop`), and a pool that has ended has
  drained its queue (`DrainedAtExit`).
* Service: components survive restarts (`ClosedOnce`, `OpenWhileStarted`,
  `OncePerGeneration`, `RetiredWorkersEnd`).
* Process: `Stop` comes after the answers or the deadline (`StopAfterAnswers`),
  an id is accepted again in its life only after its eviction (`AcceptedOnce`), a
  signal ends it (`ExitsAfterSignal`).
* Treap: search tree, heap and sizes (`WellFormed`), the same content as the map
  (`TreeMatchesMap`), right lists and ranks (`TopNIsPrefix`, `RanksShareTies`,
  `FallbackRankDeficit`).
* Store: readers see what was true at a moment (`SnapshotWasTrue`,
  `RankIsFromTheBoards`, `TopNIsCoherent`), in the end what is true
  (`SnapshotCatchesUp`), and nothing of trees and locks (`BoardSpec`).
* Load tool: `EverySlotIsFilled`, `CountersAddUp`, `ReadAfterWait`,
  `WarningHasCause`, `RunReturns`, `NothingLeaks`.

## Modules

| Module | Models | Notes |
|---|---|---|
| `DedupeWindow` | the bounded deduper as a value (the sequence of ids, oldest first) | pure operators, used by `Pipeline`, `FifoDeduper` and `Lifecycle` |
| `Intake` | abstract: accepted once, applied at most once, best score on top | no handlers, queues, workers |
| `Pipeline` | POST handlers, deduper, queue, forwarders, worker loops, scorer, store (as best event per talent), cancellation and close | the core; implements `Intake` |
| `FifoDeduper` | abstract deduper with its answers and the age of each record | |
| `Deduper` | the linked list, map, pool and counter | implements `FifoDeduper` |
| `AtomicQueue` | abstract queue: each call takes effect at once | how `Pipeline` uses the queue |
| `EventQueue` | the RWMutex, the two checks, the send, `Close`, the forwarders | implements `AtomicQueue` |
| `Lifecycle` | `Start` and `Stop` of Service and pool, restarts, handlers reading the fields unlocked | generations of components, each with a window of `DedupeWindow` |
| `Process` | `main`: listen, signal, `Shutdown` with its deadline, deferred `Stop`, exit | EXTENDS `Lifecycle` |
| `Scoring` | weights, default weight, clamp | `MCPipeline` scores with it |
| `LoadGenerator` | `Run` of the load tool with its generators, feeders and workers | its server is what `Intake` promises, with other clients' talents on the board |
| `Board` | abstract store: scores that rise, a snapshot of ranks, readers that combine the two | no tree, no locks |
| `Treap` | fixed-point scores, priorities, insertion, deletion, collections, ranks, `UpdateBestWithMeta` | recursion over a node is a recursive function over its subtrees |
| `TreapStore` | concurrent updates, `Rank`, `TopN`, snapshot updater with both locks | EXTENDS `Treap`, implements `Board` |
| `MC*` | TLC instances of the module they are named after | |
| `*Proofs` | theorems and lemmas: `Pipeline`, `EventQueue`, `Lifecycle` (with `Process`), `Board`, `Treap` (with `TreapStore`), `LoadGenerator`, `DedupeWindow`, `Deduper`; those of `Scoring` are in `PipelineProofs` | |

Definitions introduced as "Mutant of ..." are variants with a plausible bug;
`PROJECT.json` says which property each of them breaks.

### How state and actions correspond to the code

`Pipeline`. A `Careless` client sends a body that may not decode or validate.
`pc[p]` is the position of the handler of POST `p` between its
calls, or its answer. An event is named by its POST, because two POSTs may carry
the same id with different contents. `seen` is the deduper; its mutex makes each
method one step. `events` is the channel; `Enqueue` is one step because
`EventQueue` implements `AtomicQueue`. `EnqueueFails` is enabled when the queue
is closed or full, and also when the client has hung up: Go's `select` chooses
among its ready cases. `forwarding`, `held` and `running`, `job` are the
forwarder goroutine and the worker loop. `Process` scores and updates in one
step, since the store's mutex makes the update atomic and scoring touches no
shared state; the store is reduced to the event that holds each talent's best
score. `Cancel` and `CloseQueue` may come in either order: `main` cancels first,
tests stop a service whose context is good. `CloseQueue` is what both
`Service.Stop` and `Pool.Shutdown` do to the pipeline: the channel they close
besides is one no worker listens to, and their waiting for the workers has a
timeout. `ShutdownWorker` closes the channel a worker does listen to
(`signalled`); only workers in `Retiring` are shut down, and only tests do it.
Nobody tells the worker's forwarder, which may take one more event, hold it and
find no taker: `Stranded`.

`Deduper`. Each method runs under the mutex and is one action; the helpers are
functions from lists to lists, one per Go method. `nodePool.Get` returns any
pooled node or a new one, because `sync.Pool` promises nothing else.

`EventQueue`. `lock` is `Close`'s progress: `waiting` is a pending write lock,
which keeps new readers out, as Go's RWMutex does. `Sending` are the calls that
hold the read lock after both checks.

`Lifecycle`. Every `Start` makes a new generation, in two steps, since a handler
can see the new deduper while the old queue still is in its field: `deduperGen`
is the generation of the deduper, `gen` that of queue and pool. The handlers'
calls use the one that is current at the moment of the call. `waitingFor` is
the position in `Pool.Stop`'s loop while `s.mu` is held. `recorded[g]` is the
bounded window of generation `g`'s deduper, which evicts as the code does;
`log[g]` is history: the POSTs it has recorded, in that order. As in `Pipeline`,
`Enqueue` may refuse a client that has hung up (`Impatient`) although there is
room. Receiving and processing an event is one step here; `Pipeline` has the
detail.

An id is not accepted once and for all, not even within a generation, and the
properties say when it may come back. A deduper loses an id that is in use in two
ways (`Forgotten`): it evicts it, after which it records it anew with `MaxSize`
other ids in between (`Evicted`), or a handler of this id records in the deduper of
one generation and, across a `Start`, enqueues or rolls back in another
(`Straddled`). `OncePerGeneration` allows a second acceptance in these two cases
only. It excuses nothing else: handlers of other ids straddle, roll back and are
evicted around it. In `Process` nobody straddles, and `AcceptedOnce` leaves
eviction as the only way.

`Process`. `main` is the position of the main goroutine. The signal cancels the
context the workers were started with, so it is `Cancel(1)` of `Lifecycle`.
`Busy` are the connections `http.Server.Shutdown` waits for; the deadline is
`ShutdownTimesOut`, enabled whenever somebody is busy. After `Exit` no goroutine
moves. `Connect` and `Busy` stand for net/http.

`Scoring`. Metrics and weights are integers; that a product of float64s may
round is not modelled. A weight that is not positive is ignored.

`LoadGenerator`. Events are named by their number, since each has a talent and
an id of its own. `next[k]`, `feed[g]` and `worker[g][w]` are the loop positions
of generators, feeders and workers. The two groups, `submit` and `rank`, have
the same feeder and worker code in the source and share their actions here. A
request may fail before or after the server has acted on it. The tool never
retries, so there is no action for it. The server's board holds more than this
run's talents: those of earlier runs and of other clients are `Rivals`. The tool
meets them at one moment, when it asks for the leaderboard, so they may be there
by then in any number with any score (`RivalBoards`), and nothing else is said of
their clients. A rival that leads is therefore a cause of a warning, although this
run has gone well: on a server that is not the run's alone, a warning says no more
than `WarningHasCause` does.

`Treap`. An `int64` is an integer from `-HalfRange` to `HalfRange - 1`, with
`ScoreScale` units per score point, so saturation and wrap-around are reached
with small numbers. A node is a record that contains its children, `Nil` is the
empty tree. What the code does by recursion over a node is a recursive function
over `Subtrees` of that node; `deleteNode` recurses into nodes it has just
rotated down, which `Sinking` adds. The float64
results of `toFloat` are not modelled: the scorer's range is 0 to 100, and in
that range the division and the multiplication by 10^12 give the fixed-point
number back.

`TreapStore`. A critical section is one action unless someone without the lock
sees its middle: an improvement is three actions because `Rank` reads the
record's fields after unlocking, `TopN` is two because it takes the second lock
inside the first. `skill` and `rawMetric` are written and read together with
`eventID` and stand with it. `boards` and `stored` are history. `BadRequest` is
the 400 of both GET handlers, which ask the store nothing; 404 is the state
`not_found`. The refinement mapping to `Board` takes `byID` for the board, the
entries collected by the updater for `copy`, and what a call has read so far for
the state of a reader; an improvement is `Raise` when the score is written, its
other two steps stutter. The rank computed by traversal is `Estimate`, which
promises only what the code's faulty traversal keeps: never below the talent's
place.

## Runs

| Run | Question | Bounds |
|---|---|---|
| `pipeline` | are ids accepted once, events conserved, best scores kept; does the pipeline implement `Intake`; is every accepted event applied, does every worker stop, is the pool drained by then | 4 POSTs, 2 ids with 2 POSTs each, one of them perhaps malformed, 2 talents, 2 workers, one of which may be shut down, 1 queue slot, window of 2 |
| `pipeline_duplicate` | violated: a duplicate is of an event that is handled | no client hangs up or errs |
| `deduper` | do list, map and pool agree, is the list the FIFO window | 4 ids, window of 3, so that there is a middle node, 4 nodes |
| `queue` | do the steps under the read lock amount to one; does `Close` drain | 4 calls, 3 at once, 2 consumers, capacity 1, buffer 2 |
| `lifecycle` | may a Service be stopped and started again | 2 generations, 1 worker, 3 POSTs of 2 ids, two of them impatient, 1 slot, window of 1 |
| `pool_stop` | violated: `Pool.Stop` stops the workers | the same with 2 workers |
| `process` | does the shutdown wait for requests, does the process end, is an id accepted again only after its eviction | 1 generation, 2 workers, 4 POSTs of 2 ids, two of them impatient, 1 slot, window of 1 |
| `treap` | is the tree a treap that matches the map, is what is read from it right | 4 talents, 8-bit scores, 9 inputs that saturate on both sides |
| `treap_fallback` | violated: `calculateRank` is the place on the board | the same |
| `store` | do readers get what was on a board there has been; does the snapshot catch up; does the store implement `Board` | 3 updates of 2 talents, a tie and then an overtaking, one `Rank`, one `TopN` of 2 |
| `store_rank_torn` | violated: score and event of an answer to `Rank` belong together | 2 updates, one `Rank` |
| `load` | is every event generated once, do the counters add up, has a warning a cause, does `Run` return and nobody stay behind | 4 events, 3 workers, channel multiplier 1, `TopN` 2, one known id, two events that share the best score, one rival who is absent, worse, as good or better |

Why the bounds are enough: two POSTs per id are what a duplicate needs and a
second id is what fills the queue's only slot; two workers compete for the
queue and for a talent, and one can be shut down while the other goes on. A window of three has a head, a middle and a tail. In
`queue` three calls pass the check for one place, one more than the buffer
holds, so every case of the select occurs. In `lifecycle` two generations are
what a handler needs to straddle a restart, and the first of them to be retired;
a window of one makes the second id evict the first, so that both ways of losing
an id occur. In `process` three POSTs of one id and one of another let an evicted
handler's rollback take away the record of a later POST.
In `treap` the ids 1 and 2 have the same hash, like the strings "Aa" and "BB",
so equal priorities occur too. The store needs a first score, an improvement
and a tie. In `load` four events do not divide by three workers, so the last
generator has more than its share, and each job channel, of three slots, fills.

Deadlock is not checked where the system may stop: all requests answered, the
context cancelled or the queue closed, all updates done.

Fairness is weak fairness of goroutines that can run: handlers that have begun,
forwarders, worker loops, a pending `Close`, a `Stop` under way and its timers,
the ticker of the snapshot updater. Clients, signals and callers of `Start` and
`Stop` owe nothing. In `process` only `main` and its timers are fair: the process
ends whatever handlers and workers do. In `load` the tool's goroutines run and
the client's timeout ends every request; nobody need cancel, and the server need
not ever apply an event. A `select` with several ready cases is one fair action whose choice is
free: nothing is assumed of Go's random choice.

### What the violations show

* `pipeline_duplicate`: a second POST of an id is answered `200 duplicate` while
  the first one may still be refused and rolled back; a client that believes
  "already processed" never retries and the event is lost.
* `pool_stop`: `Pool.Stop` closes the pool's `shutdown` channel, the workers
  listen to their own; Stop returns by timeouts with the workers running. That
  they end later is due to `Service.Stop` closing the queue (`RetiredWorkersEnd`).
* `treap_fallback`: `countHigherRanked` returns at the target's node without its
  left subtree. `FallbackRankDeficit`, which holds, says by how much.
* `store_rank_torn`: `Rank` uses a record after unlocking while a writer changes
  it in place.

Also seen and not given runs: `options.go` and the readme call the eviction
LIFO, it is FIFO (`FifoSpec`); DATA_STRUCTURES.md says that higher scores are
higher in the treap, the wrapped priority does not grow with the score; `Rank`
combines the snapshot's rank with the live score, and `TopN` may label a fresh
list with ranks of the last snapshot; worker.go says of `Shutdown` that the
worker "will process any remaining events before stopping", its loop returns at
the signal and an event may stay behind in its forwarder (`Stranded`); the readme of the load tool promises automatic retries, there are
none; when `ListenAndServe` fails, `main` goes on waiting for a signal.

## Theorems

`PipelineProofs`, from `PipelineAssumption` and `MaxSizeAssumption`:

* `TypeCorrect`: `Spec => []TypeOK`, the capacity of the queue and the shape of
  the window included.
* `Deduplication` and `RecordsStayInForce`: when every id fits into the window
  (`IdsFit`), `AtMostOnce` and `RecordInForce`. The two are inductive only
  together: a rollback of `p` is harmless because nobody else with the same id
  is past the deduper, and nobody else is because the record is in force.
  Without `IdsFit` both are false, since eviction forgets ids in use.
* `ExactlyOnePlace`, by the inductive invariant `FlowInv`, which says for every
  accepted event that it is in one place only and which workers may hold one;
  `Conservation` turns it into the sum `EventsConserved` for finitely many
  POSTs and workers.
* `PoolDrains`: `DrainedAtExit`. `DrainInv` adds to `FlowInv` what the ends of
  the goroutines say: a forwarder that has ended without a cancelled context
  leaves a closed, empty queue and holds nothing; a worker that has ended
  without a cancelled context or a shutdown has no forwarder any more.
* `BestScoreWins`: `BoardIsBest` for any number of workers.
* `PipelineImplementsIntake`: with `IdsFit`, the initial states map to initial
  states and every step to a step of `Intake` or a stutter; `Enqueue` is
  `Accept`, `Process` is `Apply`, and the invariants above give the guards.
* From `ScoringAssumption`: `ScoreInRange` and `ScoreMonotone`, which rest on the
  weights being positive for every configuration (`WeightPositive`).

`EventQueueProofs`, from `EventQueueAssumption`, for any set of calls and of
consumers: `SendsBeforeClose` and `OvershootIsBounded`, by the invariant
`QueueInv`. The overshoot is a bound on the channel's length plus the calls that
have passed the check and not sent, so the invariant has to know that these are
finitely many and at most `Parallel`; that there are none once the queue is
closed makes `Close` safe. `QueueImplementsAtomicQueue` is the refinement: the
answer of a call and the send are one step of `AtomicQueue`, the rest stutters,
and `NoSendOnClosed` gives the guard of `Accept`. `ConsumersReceiveInOrder` is
`EachInOrder`, by `OrderInv`: what a consumer has received is in order and
precedes what its forwarder holds, the channel holds what was sent last, and no
two consumers share an event.

`LifecycleProofs`, from `LifecycleAssumption`, for any number of generations,
POSTs and workers: `ChannelsClosedOnce` and `StartedIsOpen`, by `LifeInv`, which
says that a `Stop` under way finds the Service started and works on the current
generation. `AcceptedOncePerGeneration` is `OncePerGeneration`, with no proviso on
the ids, the restarts or the size of the deduper, by `OnceInv`: a POST past a deduper
has its record in that deduper's log, and unless the id is `Forgotten` there, it is
still in the window or `MaxSize` other ids have been recorded after it
(`StillKnown`), and no other POST of the id is past the same deduper (`UniqueInv`).
That an id leaves the window only behind so many others needs `OrderInv`: what
follows an id in the window follows it in the log. Hence recording an id that is
already in use makes it `Evicted` (`OnceRecord`), and a rollback that takes away the
record of another POST is that of an evicted or of a straddling one
(`OnceRollback`). For the process, `ProcessIsALifecycle` maps every step of `Process`
to one of `Lifecycle` or a stutter, which hands it the invariants above;
`ProcessAcceptsOnce` (`AcceptedOnce`) and `StopsAfterAnswers` follow with `ProcessInv`,
which ties the position of `main` to the state of the Service and of the server.
`ProcessAcceptsOnceIfIdsFit` is the case in which the deduper is as large as the set
of ids: each is accepted once.

`BoardProofs`, from `BoardConstants` (talents and scores are integers, finitely
many talents, `Limit` positive), for any number of readers: `ScoresOnlyRise`
(`RiseInv`), `SnapshotsAreTrue` (`SnapshotInv`: what the updater has copied is
one of the boards), `RankAnswersFromTheBoards` (`RankInv`: what each reader has
read so far fits boards up to now, and goes on fitting as boards are added) and
`ListsAreFromTheBoards` (`ListInv`; the lemma `TopRanks` says that ranks within
the first talents of a board are their ranks on the whole board, which is why
the fallback of `TopN` is sound).

`LoadGeneratorProofs`, from `LoadAssumption` and `RivalsAssumption`, for any number of
events and workers: `WaitsBeforeReading` (`WaitInv`: a worker is alive only in the
phase of its group) and `WarningsHaveCauses`, for any rivals, whose `WarningInv`
needs it: the rankings do not change any more once the leaderboard, which is led by
somebody at least as good as all of them (`Leads`), is fetched and compared.
`SlotsAreFilled` is `EverySlotIsFilled`: by `Shares` the goroutines' parts of
`events` are disjoint, by `FillInv` each index is among the results that wait or
in its slot at most once, and only when its goroutine is past it, so that
`NumEvents` results fill `NumEvents` slots. `CountersAgree` is `CountersAddUp`:
`PlaceInv` says that an event still to be submitted is at one place (not fed, in
the channel, at a worker) and not on the server, and that a worker that ends
leaves nothing behind; `CountInv` adds what is counted to what is still to do.

`DedupeWindowProofs` has the lemmas about windows: what recording, evicting and
forgetting do to one and to its order (`Before`), and how long it remembers (`Remembers`: an id's distance
from the end of the window is at most its age).

`DeduperProofs`, from `DeduperAssumption`, for any window size, ids and finite set
of more than `MaxSize` nodes: `ListsMatchMaps` (`ListMatchesMap`),
`PoolStaysApart` (`PoolIsApart`), `DeduperImplementsFifo` (`FifoSpec`) and, with
`FifoRemembers`, which says it of the FIFO window, `DeduperRemembers`
(`RemembersLastMaxSize`). The inductive
invariant `ListInv` says that there is a sequence of nodes which head, next and
tail spell out (`Chain`) and with which map, ids, counter and pool agree
(`Sound`). Each helper is then a lemma about sequences: `HeadRemoved`,
`TailRemoved` and `MiddleRemoved` drop one element, `NodeAdded` appends one. What
the walk from the head meets, a recursive function, follows from the chain by
a least counterexample (`HopsFollowTheChain`).

`TreapProofs`, from `TreapAssumption` and `FloatsAssumption`, for any set of
talents with any hashes, any inputs and any width of the integers:

* `InsertKeepsTreap` and `DeleteKeepsTreap`: on a treap (search order by `less`,
  heap order by priority, sizes that count) insertion adds one key and deletion
  removes one, and the result is a treap. Both go by counting up to the size of
  the tree (`CountingUp`, `TreeInduction`). A recursive function of the model
  exists because its step looks only at smaller nodes: `InsertRecursion`,
  `DeleteRecursion` and the like prove that for each. A node that deletion has
  rotated down is no treap before it is removed: `Sunk` says what is left.
* `TreapIsWellFormed` (`WellFormed`) and `TreeHoldsTheMap` (`TreeMatchesMap`),
  by `RootInv`: the tree is a treap whose keys are the pairs of the map.
* `TopNIsTheBoardsPrefix` (`TopNIsPrefix`): `CollectionIsInOrder` makes the
  collection the list of all keys in order, `TopNCutsTheCollection` makes what
  `collectTopN` returns its first elements, and by `Places` the i-th element of
  a list in order has i - 1 talents before it.
* `SnapshotRanksShareTies` (`RanksShareTies`), by `RanksCountTheBetter`: going up
  from group to group counts the entries with a higher score.
* `FallbackRankIsShort` (`FallbackRankDeficit`), by `CountLeavesOutTheLeft`: the
  traversal for a talent counts all keys before it except those in the left
  subtree of its own node. That is the exact amount by which the finding of the
  run `treap_fallback` is off.

The second half of `TreapProofs` is about the concurrent store, from
`StoreAssumption` as well, for any writers, readers, updates and limit:

* `StoreImplementsBoard` (`BoardSpec`). The invariant is `StoreInv`: the tree is a
  treap at every step, and its keys are the board, except while a writer is
  halfway through an improvement, when the talent it works on is missing from
  the tree (`TreeInv`); `mu` is held by the writer that is halfway and by no other
  (`WriterInv`); what updater and readers have collected names every talent once
  (`CollectedInv`, `CallInv`), so that a list can be read as a board (`AsBoard`)
  without losing an entry. Hence whoever gets a read lock sees a whole tree
  (`WholeTree`), and the lemmas about the collections and the two rank
  computations make each action a step of `Board` or a stutter: `Collect` copies
  the board (`CollectedBoard`), `Publish` ranks the copy (`ListRanks`), `CollectTop`
  lists the top (`CollectedTop`), `calculateRank` is an estimate of the kind
  `Board` allows (`EstimatedRank`), an improvement raises a score in its first
  step and stutters in the two others.
* `StoreSnapshotsAreTrue` (`SnapshotWasTrue`) and `StoreAnswersFromTheBoards`
  (`RankIsFromTheBoards`) are then the theorems of `BoardProofs`. The second is
  for finitely many talents, as there: a place is a count.
* `StoreListsAreCoherent` (`TopNIsCoherent`), by `ListInv`: the last board of the
  history is the map; every record is whole, that is, its score and event were
  written together, except while its improvement is halfway (`RecordsKept`); and
  a list that waits for its ranks is of the last board, since its read lock keeps
  the writers out (`ListsKept`). When one of its talents is missing from the
  snapshot, the ranks within the list are the board's own (`TopFits`).

Every invariant and action property of the passing runs is thus the subject of a
theorem. Only model-checked: liveness (`AcceptedIsApplied`, `CloseDrains` and the
like), which TLAPS does not do.

## Not modelled

* The unbounded mode of the deduper (`maxSize <= 0`): `app.WithDedupeSize`
  ignores such a size, so the service never runs it. `Size` only reads.
* `Pool.Shutdown` after `Pool.Stop`, or either of them twice, which closes
  `p.shutdown` twice: only tests call `Pool.Shutdown`, and never so. That
  `Service.Stop` does not is `ClosedOnce`.
* The scorer's latency, which is time that passes; `SetSkillWeight`, which only
  tests call.
* The bytes of URLs and bodies: a request that does not parse is an input of its
  own. `GetStats`, `Count` and the metrics updaters, which only read.
* A load tool configured with no events or no workers, which divides by zero in
  `generateEvents`: `LoadAssumption` leaves it out. Saving and displaying of the
  tool's results.
* Metrics, logging, configuration, health, stats, dashboard: no state the rest
  of the system depends on.
* `http/swagger/static/redoc.standalone.js`, the repository's only JavaScript
  source: a minified third-party bundle (Redoc) that is served as a static file.
  The program itself is the Go code, of whose lines, tests left out, the map
  covers 36 %.

## Plan

Done, in this order, because the first is what the service is for and the others
are what it rests on or what drives it: the pipeline, the deduper, the store;
the queue and the life cycle; the process, the scorer and the load tool; the
abstract store; the shutdown of workers and pool; the proofs of pipeline,
windows, linked list, scorer, queue, life cycle, process, abstract store, load
tool, treap and concurrent store. No safety property of a run is left unproved.
