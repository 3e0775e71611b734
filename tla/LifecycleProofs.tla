--------------------------- MODULE LifecycleProofs ---------------------------
(***************************************************************************)
(* What restarts leave intact, for any number of generations, POSTs and    *)
(* workers; and what the server process makes of it, which starts its      *)
(* Service once and stops it after its HTTP server.                        *)
(***************************************************************************)
EXTENDS Process, DedupeWindowProofs, TLAPS

USE LifecycleAssumption DEF Generations, Workers

-----------------------------------------------------------------------------
(* Channels and generations *)

\* ClosedOnce and OpenWhileStarted hold because s.mu orders Start and Stop: a
\* Stop under way finds the Service started, and what it has signalled or
\* closed belongs to the current generation.
LifeInv ==
  /\ TypeOK
  /\ gen <= deduperGen
  /\ deduperGen > gen => ~started /\ waitingFor = 0
  /\ waitingFor # 0 => started
  /\ started => gen > 0
  /\ stopChs <= 1
  /\ \A g \in Generations : signals[g] <= 1 /\ (g > gen => signals[g] = 0)
  /\ started /\ waitingFor = 0 => signals[gen] = 0
  /\ closed \subseteq 1..gen /\ ctxDone \subseteq 1..gen
  /\ OpenWhileStarted

\* The values waitingFor is set to.
LEMMA Waiting == 0 \in 0..MaxStarts /\ 0 \in 0..(PoolSize + 1) /\ 1 \in 0..(PoolSize + 1)
  OBVIOUS

LEMMA LifeInit == Init => LifeInv
<1> SUFFICES ASSUME Init PROVE LifeInv
  OBVIOUS
<1>1. 0 \in 0..MaxStarts /\ 0 \in 0..(PoolSize + 1)
  BY Waiting
<1>2. signals \in [Generations -> Nat] /\ \A g \in Generations : signals[g] = 0
  BY DEF Init
<1>3. <<>> \in Windows(Ids) /\ <<>> \in Seq(Posts)
  BY EmptySeq, MaxSizeAssumption DEF Windows
<1>4. TypeOK
  BY <1>1, <1>2, <1>3 DEF Init, TypeOK, Where
<1> QED  BY <1>1, <1>2, <1>4 DEF Init, LifeInv, OpenWhileStarted

\* Start and Stop.
LEMMA LifeService ==
  ASSUME LifeInv, Start \/ Stop
  PROVE  LifeInv'
<1> USE DEF LifeInv, TypeOK, OpenWhileStarted, components, Where
<1>1. CASE StartDeduper
  BY <1>1 DEF StartDeduper
<1>2. CASE StartPool
  <2>1. TypeOK'
    BY <1>2 DEF StartPool
  <2>2. OpenWhileStarted'
    BY <1>2 DEF StartPool
  <2>3. /\ gen' = deduperGen' /\ gen \in Nat /\ gen' \in Generations /\ gen < gen'
        /\ started' /\ waitingFor' = 0
        /\ UNCHANGED <<signals, stopChs, closed, ctxDone>>
    BY <1>2 DEF StartPool
  <2>4. \A g \in Generations : signals'[g] <= 1 /\ (g > gen' => signals'[g] = 0)
    BY <2>3
  <2>5. signals'[gen'] = 0 /\ stopChs' <= 1
    BY <2>3
  <2>6. closed' \subseteq 1..gen' /\ ctxDone' \subseteq 1..gen'
    BY <2>3
  <2> HIDE DEF TypeOK, OpenWhileStarted
  <2> QED  BY <2>1, <2>2, <2>3, <2>4, <2>5, <2>6
<1>3. CASE StopCalled
  <2>1. gen \in Generations /\ signals[gen] = 0
    BY <1>3 DEF StopCalled
  <2>2. /\ signals' \in [Generations -> Nat]
        /\ \A g \in Generations : signals'[g] = IF g = gen THEN 1 ELSE signals[g]
    BY <1>3, <2>1 DEF StopCalled
  <2>3. 1 \in 0..(PoolSize + 1)
    BY Waiting
  <2>4. TypeOK'
    BY <1>3, <2>2, <2>3 DEF StopCalled
  <2>5. /\ waitingFor' = 1 /\ started /\ ~(deduperGen > gen)
        /\ UNCHANGED <<started, deduperGen, gen, stopChs, ctxDone, closed, running>>
    BY <1>3 DEF StopCalled
  <2>6. OpenWhileStarted'
    BY <2>5
  <2> HIDE DEF TypeOK, OpenWhileStarted
  <2> QED  BY <2>1, <2>2, <2>4, <2>5, <2>6
<1>4. CASE WaitOver \/ WaitTimesOut
  <2>1. waitingFor \in 1..PoolSize /\ waitingFor' = waitingFor + 1
    BY <1>4 DEF WaitOver, WaitTimesOut
  <2>2. waitingFor' \in 0..(PoolSize + 1) /\ waitingFor' # 0 /\ waitingFor # 0
    BY <2>1
  <2>3. UNCHANGED <<started, deduperGen, gen, signals, stopChs, components, post>>
    BY <1>4 DEF WaitOver, WaitTimesOut
  <2>4. TypeOK'
    BY <2>2, <2>3
  <2> QED  BY <2>2, <2>3, <2>4
<1>5. CASE StopCloses
  <2>1. waitingFor # 0 /\ started /\ ~(deduperGen > gen) /\ gen \in Generations
    BY <1>5 DEF StopCloses
  <2>2. stopChs' \in Nat /\ stopChs' <= 1
    BY <1>5 DEF StopCloses
  <2>3. closed' \subseteq 1..gen /\ closed' \subseteq Generations
    BY <1>5, <2>1 DEF StopCloses
  <2>4. /\ started' = FALSE /\ waitingFor' = 0
        /\ UNCHANGED <<deduperGen, gen, signals, ctxDone, queued, recorded, log, running, post>>
    BY <1>5 DEF StopCloses
  <2>5. waitingFor' \in 0..(PoolSize + 1) /\ started' \in BOOLEAN
    BY <2>4, Waiting
  <2>6. TypeOK'
    BY <2>2, <2>3, <2>4, <2>5
  <2> QED  BY <2>1, <2>2, <2>3, <2>4, <2>6
<1> QED  BY <1>1, <1>2, <1>3, <1>4, <1>5 DEF Start, Stop

\* What is left to show where Service and queues are not touched.
LEMMA LifeRests ==
  ASSUME LifeInv, UNCHANGED <<lifecycle, closed>>, TypeOK',
         ctxDone \subseteq ctxDone', ctxDone' \subseteq 1..gen,
         gen \in ctxDone' \/ running'[gen] = running[gen]
  PROVE  LifeInv'
<1>1. OpenWhileStarted'
  BY DEF LifeInv, OpenWhileStarted, lifecycle
<1> QED  BY <1>1 DEF LifeInv, lifecycle

\* What handlers do to windows and logs.
LEMMA HandlerTypes ==
  ASSUME LifeInv, NEW p \in Posts, Handler(p)
  PROVE  recorded' \in [Generations -> Windows(Ids)] /\ log' \in [Generations -> Seq(Posts)]
<1>1. /\ recorded \in [Generations -> Windows(Ids)] /\ log \in [Generations -> Seq(Posts)]
      /\ IdOf[p] \in Ids
  BY DEF LifeInv, TypeOK
<1>2. CASE Record(p)
  <2>1. /\ recorded' = [recorded EXCEPT ![deduperGen] = RecordNew(@, IdOf[p])]
        /\ log' = [log EXCEPT ![deduperGen] = Append(@, p)]
        /\ IdOf[p] \notin Recorded(recorded[deduperGen])
    BY <1>2 DEF Record, RecordIn
  <2>2. ASSUME deduperGen \in Generations
        PROVE  /\ RecordNew(recorded[deduperGen], IdOf[p]) \in Windows(Ids)
               /\ Append(log[deduperGen], p) \in Seq(Posts)
    <3>1. recorded[deduperGen] \in Windows(Ids) /\ log[deduperGen] \in Seq(Posts)
      BY <1>1, <2>2
    <3> QED  BY <1>1, <2>1, <3>1, RecordNewRecords, AppendProperties
  <2> QED  BY <1>1, <2>1, <2>2
<1>3. CASE Rollback(p)
  <2>1. recorded' = [recorded EXCEPT ![deduperGen] = Unrecord(@, IdOf[p])] /\ log' = log
    BY <1>3 DEF Rollback
  <2>2. deduperGen \in Generations => Unrecord(recorded[deduperGen], IdOf[p]) \in Windows(Ids)
    BY <1>1, UnrecordForgets
  <2> QED  BY <1>1, <2>1, <2>2
<1>4. CASE Duplicate(p) \/ Enqueue(p) \/ EnqueueFails(p)
  BY <1>1, <1>4 DEF Duplicate, Enqueue, EnqueueFails, components
<1> QED  BY <1>2, <1>3, <1>4 DEF Handler

\* Handlers leave everything but ids, queues and themselves alone.
LEMMA LifeHandler ==
  ASSUME LifeInv, NEW p \in Posts, Handler(p)
  PROVE  LifeInv'
<1>1. UNCHANGED <<lifecycle, ctxDone, closed, running>>
  BY DEF Handler, Duplicate, Record, Enqueue, EnqueueFails, Rollback, components
<1>2. TypeOK
  BY DEF LifeInv
<1>3. queued' \in [Generations -> SUBSET Posts]
  <2>1. queued' = queued \/ queued' = [queued EXCEPT ![gen] = @ \cup {p}]
    BY DEF Handler, Duplicate, Record, Enqueue, EnqueueFails, Rollback, components
  <2>2. queued \in [Generations -> SUBSET Posts]
    BY <1>2 DEF TypeOK
  <2> QED  BY <2>1, <2>2
<1>4. recorded' \in [Generations -> Windows(Ids)] /\ log' \in [Generations -> Seq(Posts)]
  BY HandlerTypes
<1>5. post' \in [Posts -> [pc : Where, deduper : 0..MaxStarts, queue : 0..MaxStarts]]
  <2>1. \E pc \in Where, d \in 0..MaxStarts, q \in 0..MaxStarts : At(p, pc, d, q)
    BY <1>2 DEF TypeOK, Handler, Duplicate, Record, Enqueue, EnqueueFails, Rollback, Where
  <2>2. PICK pc \in Where, d \in 0..MaxStarts, q \in 0..MaxStarts : At(p, pc, d, q)
    BY <2>1
  <2>3. post \in [Posts -> [pc : Where, deduper : 0..MaxStarts, queue : 0..MaxStarts]]
    BY <1>2 DEF TypeOK
  <2> QED  BY <2>2, <2>3 DEF At
<1>6. TypeOK'
  BY <1>1, <1>2, <1>3, <1>4, <1>5 DEF TypeOK, lifecycle
<1> QED  BY <1>1, <1>6, LifeRests DEF LifeInv

\* A worker of an open queue ends only when its context is cancelled.
LEMMA LifeWorker ==
  ASSUME LifeInv, NEW g \in Generations, NEW w \in Workers, Work(g, w) \/ WorkerEnds(g, w)
  PROVE  LifeInv'
<1>1. UNCHANGED <<lifecycle, ctxDone, closed, recorded, log, post>>
  BY DEF Work, WorkerEnds
<1>2. TypeOK /\ OpenWhileStarted /\ ctxDone \subseteq 1..gen
  BY DEF LifeInv
<1>3. queued' \in [Generations -> SUBSET Posts] /\ running' \in [Generations -> SUBSET Workers]
  <2>1. CASE Work(g, w)
    BY <1>2, <2>1 DEF TypeOK, Work
  <2>2. CASE WorkerEnds(g, w)
    BY <1>2, <2>2 DEF TypeOK, WorkerEnds
  <2> QED  BY <2>1, <2>2
<1>4. TypeOK'
  BY <1>1, <1>2, <1>3 DEF TypeOK, lifecycle
<1>5. OpenWhileStarted'
  <2>1. CASE Work(g, w)
    BY <1>2, <2>1 DEF Work, OpenWhileStarted, lifecycle
  <2>2. CASE WorkerEnds(g, w)
    <3>1. ASSUME started, gen \notin ctxDone PROVE g # gen
      BY <1>2, <2>2, <3>1 DEF WorkerEnds, OpenWhileStarted
    <3>2. running'[gen] = running[gen] \/ g = gen
      BY <1>2, <2>2 DEF WorkerEnds, TypeOK
    <3> QED  BY <1>1, <1>2, <3>1, <3>2 DEF OpenWhileStarted, lifecycle
  <2> QED  BY <2>1, <2>2
<1> QED  BY <1>1, <1>4, <1>5 DEF LifeInv, lifecycle

LEMMA LifeStep == LifeInv /\ [Next]_vars => LifeInv'
<1> SUFFICES ASSUME LifeInv, [Next]_vars PROVE LifeInv'
  OBVIOUS
<1>1. CASE \E g \in Generations : Cancel(g)
  <2>1. PICK g \in Generations : Cancel(g)
    BY <1>1
  <2>2. TypeOK'
    BY <2>1 DEF Cancel, LifeInv, TypeOK, lifecycle
  <2>3. /\ UNCHANGED <<lifecycle, closed>> /\ running' = running
        /\ ctxDone' = ctxDone \cup {g} /\ g \in 1..gen
    BY <2>1 DEF Cancel
  <2> QED  BY <2>2, <2>3, LifeRests DEF LifeInv
<1>2. CASE UNCHANGED vars
  BY <1>2 DEF vars, lifecycle, components, LifeInv, TypeOK, OpenWhileStarted, Where
<1> QED  BY <1>1, <1>2, LifeService, LifeHandler, LifeWorker DEF Next

\* The inductive invariant behind the next two: s.mu orders Start and Stop.
THEOREM LifeInvariant == Spec => []LifeInv
<1> QED  BY LifeInit, LifeStep, PTL DEF Spec

\* However often the Service is started and stopped, neither a pool's shutdown
\* channel nor stopCh is closed a second time.
THEOREM ChannelsClosedOnce == Spec => []ClosedOnce
<1>1. LifeInv => ClosedOnce
  BY DEF LifeInv, ClosedOnce
<1> QED  BY <1>1, LifeInvariant, PTL

\* A started Service that nobody is stopping has an open queue and, unless its
\* context is cancelled, all its workers.
THEOREM StartedIsOpen == Spec => []OpenWhileStarted
<1>1. LifeInv => OpenWhileStarted
  BY DEF LifeInv
<1> QED  BY <1>1, LifeInvariant, PTL

-----------------------------------------------------------------------------
(* Event ids *)

Engaged(p) == post[p].pc \in {"recorded", "rollback", "accepted"}

\* The deduper of generation g remembers the i-th id it has recorded, or has
\* recorded MaxSize others since.
StillKnown(g, i) ==
  \/ IdOf[log[g][i]] \in Recorded(recorded[g])
  \/ Cardinality(RecordedBetween(g, i, Len(log[g])) \ {IdOf[log[g][i]]}) >= MaxSize

\* Windows and logs agree on what came after what.
OrderInv ==
  \A g \in Generations : \A i \in DOMAIN log[g] : \A y :
    Before(recorded[g], IdOf[log[g][i]], y) => y \in RecordedBetween(g, i, Len(log[g]))

\* The record of p in the log of its deduper, and what has become of it.
InLog(p) ==
  \E i \in DOMAIN log[post[p].deduper] :
    /\ log[post[p].deduper][i] = p
    /\ Forgotten(post[p].deduper, IdOf[p]) \/ StillKnown(post[p].deduper, i)

\* The POSTs past one deduper have different ids, or it has lost the one they share.
UniqueInv ==
  \A g \in Generations :
    \A p, q \in {r \in Posts : Engaged(r) /\ post[r].deduper = g} :
      IdOf[p] = IdOf[q] => p = q \/ Forgotten(g, IdOf[p])

\* The record of a POST that is past a deduper is still known there, and it is
\* the only such POST of its id, unless the deduper has lost the id in one of
\* the two ways of Forgotten.  So a rollback takes away a record of its own.
OnceInv ==
  /\ \A p \in Posts : Engaged(p) => post[p].deduper \in 1..deduperGen
  /\ \A p \in Posts : post[p].pc \in {"idle", "recorded", "rollback"} => post[p].queue = 0
  /\ OrderInv
  /\ \A p \in Posts : Engaged(p) => InLog(p)
  /\ UniqueInv

LEMMA OnceInit == Init => OnceInv
<1> SUFFICES ASSUME Init PROVE OnceInv
  OBVIOUS
<1>1. \A g \in Generations : DOMAIN log[g] = {}
  BY DEF Init
<1> QED  BY <1>1 DEF Init, OnceInv, OrderInv, UniqueInv, Engaged

\* A step that extends no log and moves no POST that has used a queue.
LEMMA ForgottenStays ==
  ASSUME log' = log, \A p \in Posts : post[p].queue # 0 => post'[p] = post[p],
         NEW g \in Generations, NEW id, Forgotten(g, id)
  PROVE  Forgotten(g, id)'
<1>1. CASE Evicted(g, id)
  <2>1. \A i, j : RecordedBetween(g, i, j)' = RecordedBetween(g, i, j)
    BY DEF RecordedBetween
  <2> QED  BY <1>1, <2>1 DEF Evicted, Forgotten
<1>2. CASE Straddled(g, id)
  BY <1>2 DEF Straddled, Forgotten
<1> QED  BY <1>1, <1>2 DEF Forgotten

\* One more record.
LEMMA LogGrows ==
  ASSUME LifeInv, NEW p \in Posts, deduperGen \in Generations, RecordIn(deduperGen, p),
         NEW g \in Generations
  PROVE  /\ DOMAIN log[g] = 1..Len(log[g]) /\ Len(log[g]) \in Nat
         /\ DOMAIN log'[g] = 1..Len(log'[g])
         /\ Len(log'[g]) = IF g = deduperGen THEN Len(log[g]) + 1 ELSE Len(log[g])
         /\ \A i \in DOMAIN log[g] : log'[g][i] = log[g][i]
         /\ log'[deduperGen][Len(log[deduperGen]) + 1] = p
<1>1. log \in [Generations -> Seq(Posts)]
  BY DEF LifeInv, TypeOK
<1>2. log[g] \in Seq(Posts) /\ log[deduperGen] \in Seq(Posts)
  BY <1>1
<1>3. log'[deduperGen] = Append(log[deduperGen], p) /\ (g # deduperGen => log'[g] = log[g])
  BY <1>1 DEF RecordIn
<1>4. /\ log'[deduperGen] \in Seq(Posts)
      /\ Len(log'[deduperGen]) = Len(log[deduperGen]) + 1
      /\ \A i \in 1..Len(log[deduperGen]) : log'[deduperGen][i] = log[deduperGen][i]
      /\ log'[deduperGen][Len(log[deduperGen]) + 1] = p
  BY <1>2, <1>3, AppendProperties
<1>5. log'[g] \in Seq(Posts)
  BY <1>2, <1>3, <1>4
<1> QED  BY <1>2, <1>3, <1>4, <1>5, LenProperties

\* What has been recorded between two records stays so, and is finite.
LEMMA BetweenGrows ==
  ASSUME LifeInv, NEW p \in Posts, deduperGen \in Generations, RecordIn(deduperGen, p),
         NEW g \in Generations, NEW i \in DOMAIN log[g]
  PROVE  /\ \A j \in DOMAIN log[g] : RecordedBetween(g, i, j)' = RecordedBetween(g, i, j)
         /\ RecordedBetween(g, i, Len(log[g])) \subseteq RecordedBetween(g, i, Len(log[g]))'
         /\ g = deduperGen => IdOf[p] \in RecordedBetween(g, i, Len(log[g]))'
         /\ IsFiniteSet(RecordedBetween(g, i, Len(log[g]))')
<1>1. /\ DOMAIN log[g] = 1..Len(log[g]) /\ Len(log[g]) \in Nat
      /\ DOMAIN log'[g] = 1..Len(log'[g])
      /\ Len(log'[g]) = IF g = deduperGen THEN Len(log[g]) + 1 ELSE Len(log[g])
      /\ \A k \in DOMAIN log[g] : log'[g][k] = log[g][k]
      /\ log'[deduperGen][Len(log[deduperGen]) + 1] = p
  BY LogGrows
<1>2. ASSUME NEW j \in DOMAIN log[g]
      PROVE  RecordedBetween(g, i, j)' = RecordedBetween(g, i, j)
  <2>1. \A k \in i..j : log'[g][k] = log[g][k]
    BY <1>1
  <2> QED  BY <2>1 DEF RecordedBetween
<1>3. RecordedBetween(g, i, Len(log[g])) \subseteq RecordedBetween(g, i, Len(log[g]))'
  <2>1. \A k \in i..Len(log[g]) : k \in DOMAIN log[g] /\ k \in i..Len(log'[g])
    BY <1>1
  <2>2. \A k \in i..Len(log[g]) : log'[g][k] = log[g][k]
    BY <1>1, <2>1
  <2> QED  BY <2>1, <2>2 DEF RecordedBetween
<1>4. g = deduperGen => IdOf[p] \in RecordedBetween(g, i, Len(log[g]))'
  <2> SUFFICES ASSUME g = deduperGen PROVE IdOf[p] \in RecordedBetween(g, i, Len(log[g]))'
    OBVIOUS
  <2>1. Len(log'[g]) \in i..Len(log'[g]) /\ log'[g][Len(log'[g])] = p
    BY <1>1
  <2> QED  BY <2>1 DEF RecordedBetween
<1>5. IsFiniteSet(RecordedBetween(g, i, Len(log[g]))')
  <2>1. \A l \in DOMAIN log[g] : log[g][l] \in Posts
    BY DEF LifeInv, TypeOK
  <2>2. ASSUME NEW l \in i..Len(log'[g])
        PROVE  log'[g][l] \in Posts
    <3>1. l \in DOMAIN log[g] \/ (g = deduperGen /\ l = Len(log[g]) + 1)
      BY <1>1
    <3> QED  BY <1>1, <2>1, <3>1
  <2>3. RecordedBetween(g, i, Len(log[g]))' \subseteq Ids
    BY <2>2 DEF RecordedBetween
  <2> QED  BY <2>3, FS_Subset
<1> QED  BY <1>2, <1>3, <1>4, <1>5

\* What a step leaves to show that touches neither windows nor logs.
LEMMA OnceKept ==
  ASSUME LifeInv, OnceInv, UNCHANGED <<recorded, log>>,
         deduperGen' \in Nat, deduperGen <= deduperGen',
         \A p \in Posts : post[p].queue # 0 => post'[p] = post[p],
         \A p \in Posts : Engaged(p)' => Engaged(p) /\ post'[p].deduper = post[p].deduper,
         \A p \in Posts : post'[p].pc \in {"idle", "recorded", "rollback"} => post'[p].queue = 0
  PROVE  OnceInv'
<1>1. deduperGen \in Nat /\ \A p \in Posts : Engaged(p) => post[p].deduper \in Generations
  BY DEF LifeInv, TypeOK, OnceInv
<1>2. \A g \in Generations : \A id : Forgotten(g, id) => Forgotten(g, id)'
  BY ForgottenStays
<1>3. OrderInv'
  <2>1. \A g, i, j : RecordedBetween(g, i, j)' = RecordedBetween(g, i, j)
    BY DEF RecordedBetween
  <2> QED  BY <2>1 DEF OnceInv, OrderInv
<1>4. \A g, i : StillKnown(g, i)' <=> StillKnown(g, i)
  BY DEF StillKnown, RecordedBetween
<1>5. ASSUME NEW p \in Posts, Engaged(p)'
      PROVE  InLog(p)'
  <2>1. Engaged(p) /\ post'[p].deduper = post[p].deduper /\ post[p].deduper \in Generations
    BY <1>1, <1>5
  <2>2. PICK i \in DOMAIN log[post[p].deduper] :
          /\ log[post[p].deduper][i] = p
          /\ Forgotten(post[p].deduper, IdOf[p]) \/ StillKnown(post[p].deduper, i)
    BY <2>1 DEF OnceInv, InLog
  <2> DEFINE d == post[p].deduper
  <2>3. Forgotten(d, IdOf[p])' \/ StillKnown(d, i)'
    <3>1. d' = d
      BY <2>1
    <3> QED  BY <1>2, <1>4, <2>1, <2>2, <3>1
  <2> QED  BY <2>1, <2>2, <2>3 DEF InLog
<1>6. ASSUME NEW g \in Generations, NEW p \in Posts, NEW q \in Posts,
             Engaged(p)', Engaged(q)', IdOf[p] = IdOf[q],
             post'[p].deduper = g, post'[q].deduper = g
      PROVE  p = q \/ Forgotten(g, IdOf[p])'
  <2>1. Engaged(p) /\ Engaged(q) /\ post[p].deduper = g /\ post[q].deduper = g
    BY <1>6
  <2>2. p = q \/ Forgotten(g, IdOf[p])
    BY <1>6, <2>1 DEF OnceInv, UniqueInv
  <2> QED  BY <1>2, <2>2
<1>7. UniqueInv'
  BY <1>6 DEF UniqueInv
<1> QED  BY <1>1, <1>3, <1>5, <1>7 DEF OnceInv

LEMMA OnceRecord ==
  ASSUME LifeInv, OnceInv, NEW p \in Posts, Record(p)
  PROVE  OnceInv'
<1> PICK d : d = deduperGen
  OBVIOUS
<1> DEFINE w == recorded[d]
           v == RecordNew(w, IdOf[p])
           end == Len(log[d]) + 1
<1>1. /\ d \in Generations /\ deduperGen' = d /\ IdOf[p] \in Ids
      /\ recorded \in [Generations -> Windows(Ids)] /\ w \in Windows(Ids)
      /\ post \in [Posts -> [pc : Where, deduper : 0..MaxStarts, queue : 0..MaxStarts]]
  BY DEF Record, LifeInv, TypeOK, lifecycle
<1>2. /\ post[p].pc = "idle" /\ IdOf[p] \notin Recorded(w) /\ RecordIn(d, p)
      /\ At(p, "recorded", d, 0)
  BY DEF Record
<1>3. /\ post'[p] = [pc |-> "recorded", deduper |-> d, queue |-> 0]
      /\ \A r \in Posts : r # p => post'[r] = post[r]
  BY <1>1, <1>2 DEF At
<1>4. recorded'[d] = v /\ \A g \in Generations : g # d => recorded'[g] = recorded[g]
  BY <1>1, <1>2 DEF RecordIn
<1>5. /\ \A g \in Generations :
           /\ DOMAIN log[g] = 1..Len(log[g]) /\ Len(log[g]) \in Nat
           /\ DOMAIN log'[g] = 1..Len(log'[g])
           /\ Len(log'[g]) = IF g = d THEN Len(log[g]) + 1 ELSE Len(log[g])
           /\ \A i \in DOMAIN log[g] : log'[g][i] = log[g][i]
      /\ log'[d][end] = p
  BY <1>1, <1>2, LogGrows
<1>6. \A g \in Generations : \A i \in DOMAIN log[g] :
        /\ \A j \in DOMAIN log[g] : RecordedBetween(g, i, j)' = RecordedBetween(g, i, j)
        /\ RecordedBetween(g, i, Len(log[g])) \subseteq RecordedBetween(g, i, Len(log[g]))'
        /\ g = d => IdOf[p] \in RecordedBetween(g, i, Len(log[g]))'
        /\ IsFiniteSet(RecordedBetween(g, i, Len(log[g]))')
  BY <1>1, <1>2, BetweenGrows
<1>7. \A g \in Generations : \A i \in DOMAIN log[g] : i \in DOMAIN log'[g]
  BY <1>5
<1> HIDE DEF w, v, end
<1>8. ASSUME NEW g \in Generations, NEW id, Forgotten(g, id)
      PROVE  Forgotten(g, id)'
  <2>1. CASE Straddled(g, id)
    <3>1. \A r \in Posts : post[r].queue = g => r # p
      BY <1>2 DEF OnceInv
    <3> QED  BY <1>3, <2>1, <3>1 DEF Straddled, Forgotten
  <2>2. CASE Evicted(g, id)
    <3>1. PICK i \in DOMAIN log[g], j \in DOMAIN log[g] :
            /\ IdOf[log[g][i]] = id /\ IdOf[log[g][j]] = id
            /\ Cardinality(RecordedBetween(g, i, j) \ {id}) >= MaxSize
      BY <2>2 DEF Evicted
    <3>2. RecordedBetween(g, i, j)' = RecordedBetween(g, i, j)
      BY <1>6
    <3>3. log'[g][i] = log[g][i] /\ log'[g][j] = log[g][j]
      BY <1>5
    <3> QED  BY <1>7, <3>1, <3>2, <3>3 DEF Evicted, Forgotten
  <2> QED  BY <1>8, <2>1, <2>2 DEF Forgotten
<1>9. ASSUME NEW g \in Generations, NEW i \in DOMAIN log'[g], NEW y,
             Before(recorded'[g], IdOf[log'[g][i]], y)
      PROVE  y \in RecordedBetween(g, i, Len(log[g]))'
  <2>1. CASE i \in DOMAIN log[g]
    <3>1. log'[g][i] = log[g][i]
      BY <1>5, <2>1
    <3>2. Before(recorded[g], IdOf[log[g][i]], y) => y \in RecordedBetween(g, i, Len(log[g]))
      BY <2>1 DEF OnceInv, OrderInv
    <3>3. Before(recorded[g], IdOf[log[g][i]], y) \/ (g = d /\ y = IdOf[p])
      <4>1. CASE g = d
        <5>1. Before(v, IdOf[log[g][i]], y)
          BY <1>4, <1>9, <3>1, <4>1
        <5> QED  BY <1>1, <1>2, <4>1, <5>1, RecordNewOrder DEF v, w
      <4>2. CASE g # d
        BY <1>4, <1>9, <3>1, <4>2
      <4> QED  BY <4>1, <4>2
    <3> QED  BY <1>6, <2>1, <3>2, <3>3
  <2>2. CASE i \notin DOMAIN log[g]
    <3>1. g = d /\ i = end /\ Len(log'[g]) = end /\ log'[g][i] = p
      BY <1>5, <2>2 DEF end
    <3>2. Before(v, IdOf[p], y)
      BY <1>4, <1>9, <3>1
    <3>3. Before(w, IdOf[p], y) => IdOf[p] \in Recorded(w)
      BY DEF Before, Recorded
    <3>4. y = IdOf[p]
      BY <1>1, <1>2, <3>2, <3>3, RecordNewOrder DEF v
    <3>5. end \in end..end
      BY <1>1, <1>5 DEF end
    <3>6. RecordedBetween(g, i, Len(log[g]))' = {IdOf[log'[g][k]] : k \in end..end}
      BY <3>1 DEF RecordedBetween
    <3> QED  BY <3>1, <3>4, <3>5, <3>6
  <2> QED  BY <2>1, <2>2
<1>10. ASSUME NEW g \in Generations, NEW i \in DOMAIN log[g], NEW x,
              Cardinality(RecordedBetween(g, i, Len(log[g])) \ {x}) >= MaxSize
       PROVE  Cardinality(RecordedBetween(g, i, Len(log[g]))' \ {x}) >= MaxSize
  <2> DEFINE S == RecordedBetween(g, i, Len(log[g])) \ {x}
             T == RecordedBetween(g, i, Len(log[g]))' \ {x}
  <2>1. IsFiniteSet(RecordedBetween(g, i, Len(log[g]))') /\ S \subseteq T
    BY <1>6
  <2>2. IsFiniteSet(T)
    BY <2>1, FS_Subset
  <2> HIDE DEF S, T
  <2>3. /\ Cardinality(S) \in Nat /\ Cardinality(T) \in Nat /\ Cardinality(S) <= Cardinality(T)
    BY <2>1, <2>2, FS_Subset, FS_CardinalityType
  <2>4. Cardinality(S) >= MaxSize
    BY <1>10 DEF S
  <2>5. Cardinality(T) >= MaxSize
    BY <2>3, <2>4, MaxSizeAssumption
  <2> QED  BY <2>5 DEF T
<1>11. ASSUME NEW i \in DOMAIN log[d], StillKnown(d, i)
       PROVE  StillKnown(d, i)'
  <2> DEFINE x == IdOf[log[d][i]]
             T == RecordedBetween(d, i, Len(log[d]))'
  <2>1. IdOf[log'[d][i]] = x
    BY <1>1, <1>5
  <2>2. CASE Cardinality(RecordedBetween(d, i, Len(log[d])) \ {x}) >= MaxSize
    BY <1>1, <1>10, <2>1, <2>2 DEF StillKnown
  <2>3. CASE x \in Recorded(w) /\ x \in Recorded(v)
    BY <1>4, <1>1, <2>1, <2>3 DEF StillKnown
  <2>4. CASE x \in Recorded(w) /\ x \notin Recorded(v)
    <3>1. /\ IsFiniteSet(Recorded(v)) /\ Cardinality(Recorded(v)) = MaxSize
          /\ \A y \in Recorded(v) : y = IdOf[p] \/ Before(w, x, y)
      BY <1>1, <1>2, <2>4, EvictionLeavesFull DEF v
    <3>2. \A y \in Recorded(v) : y \in T
      <4>1. \A y : Before(w, x, y) => y \in RecordedBetween(d, i, Len(log[d]))
        BY <1>1 DEF OnceInv, OrderInv, w
      <4> QED  BY <1>1, <1>6, <3>1, <4>1
    <3>3. Recorded(v) \subseteq T \ {x} /\ IsFiniteSet(T)
      BY <1>1, <1>6, <2>4, <3>2
    <3> HIDE DEF T
    <3>4. IsFiniteSet(T \ {x})
      BY <3>3, FS_Subset
    <3>5. Cardinality(T \ {x}) >= MaxSize
      <4>1. Cardinality(Recorded(v)) <= Cardinality(T \ {x}) /\ Cardinality(T \ {x}) \in Nat
        BY <3>3, <3>4, FS_Subset, FS_CardinalityType
      <4> QED  BY <3>1, <4>1, MaxSizeAssumption
    <3> QED  BY <2>1, <3>5 DEF StillKnown, T
  <2> QED  BY <1>11, <2>2, <2>3, <2>4 DEF StillKnown, w
<1>12. InLog(p)'
  <2> PICK n : n = end
    OBVIOUS
  <2>1. n \in DOMAIN log'[d] /\ log'[d][n] = p /\ post'[p].deduper = d
    BY <1>1, <1>3, <1>5 DEF end
  <2>2. IdOf[p] \in Recorded(v)
    BY <1>1, <1>2, RecordNewRecords DEF v
  <2>3. StillKnown(d, n)'
    BY <1>4, <1>1, <2>1, <2>2 DEF StillKnown
  <2>4. /\ n \in DOMAIN log'[post'[p].deduper]
        /\ log'[post'[p].deduper][n] = p
        /\ StillKnown(post[p].deduper, n)'
    <3>1. StillKnown(post[p].deduper, n)'
      <4>1. IdOf[log'[d][n]] \in Recorded(recorded'[d])
        BY <1>4, <2>1, <2>2
      <4> QED  BY <2>1, <4>1 DEF StillKnown
    <3> QED  BY <2>1, <3>1
  <2> QED  BY <2>4 DEF InLog
<1>13. ASSUME NEW r \in Posts, r # p, Engaged(r)
       PROVE  InLog(r)'
  <2> DEFINE g == post[r].deduper
  <2>1. g \in Generations /\ g' = g
    BY <1>1, <1>3, <1>13 DEF OnceInv, Engaged
  <2>2. PICK i \in DOMAIN log[g] :
          log[g][i] = r /\ (Forgotten(g, IdOf[r]) \/ StillKnown(g, i))
    BY <1>13 DEF OnceInv, InLog
  <2>3. Forgotten(g, IdOf[r]) => Forgotten(g, IdOf[r])'
    BY <1>8, <2>1
  <2> HIDE DEF g
  <2>4. StillKnown(g, i) => StillKnown(g, i)'
    <3>1. CASE g = d
      BY <1>1, <1>11, <2>1, <3>1
    <3>2. CASE g # d
      <4>1. recorded'[g] = recorded[g] /\ log'[g] = log[g]
        BY <1>1, <1>2, <1>4, <2>1, <3>2 DEF RecordIn, LifeInv, TypeOK
      <4> QED  BY <2>1, <4>1 DEF StillKnown, RecordedBetween
    <3> QED  BY <3>1, <3>2
  <2>5. i \in DOMAIN log'[g] /\ log'[g][i] = r
    BY <1>5, <1>7, <2>1, <2>2
  <2> QED  BY <2>1, <2>2, <2>3, <2>4, <2>5 DEF InLog, g
<1>14. ASSUME NEW r \in Posts, r # p, Engaged(r), post[r].deduper = d, IdOf[r] = IdOf[p]
       PROVE  Forgotten(d, IdOf[p])'
  <2>1. PICK i \in DOMAIN log[d] : log[d][i] = r /\ (Forgotten(d, IdOf[p]) \/ StillKnown(d, i))
    BY <1>14 DEF OnceInv, InLog
  <2>2. CASE Forgotten(d, IdOf[p])
    BY <1>1, <1>8, <2>2
  <2>3. CASE StillKnown(d, i)
    <3>1. Cardinality(RecordedBetween(d, i, Len(log[d])) \ {IdOf[p]}) >= MaxSize
      BY <1>2, <1>14, <2>1, <2>3 DEF StillKnown, w
    <3>2. Cardinality(RecordedBetween(d, i, Len(log[d]))' \ {IdOf[p]}) >= MaxSize
      BY <1>1, <1>10, <3>1
    <3> PICK n : n = end
      OBVIOUS
    <3>3. Len(log'[d]) = n /\ n \in DOMAIN log'[d] /\ i \in DOMAIN log'[d]
      <4>1. /\ DOMAIN log[d] = 1..Len(log[d]) /\ Len(log[d]) \in Nat
            /\ DOMAIN log'[d] = 1..Len(log'[d]) /\ Len(log'[d]) = Len(log[d]) + 1
        BY <1>1, <1>5
      <4>2. n = Len(log[d]) + 1
        BY DEF end
      <4> QED  BY <4>1, <4>2
    <3>4. log'[d][i] = r /\ log'[d][n] = p
      BY <1>1, <1>5, <2>1
    <3>5. Cardinality({IdOf[log'[d][k]] : k \in i..n} \ {IdOf[p]}) >= MaxSize
      BY <3>2, <3>3 DEF RecordedBetween
    <3>6. Evicted(d, IdOf[p])'
      BY <1>14, <3>3, <3>4, <3>5 DEF Evicted, RecordedBetween
    <3> QED  BY <3>6 DEF Forgotten
  <2> QED  BY <2>1, <2>2, <2>3
<1>15. \A r \in Posts : Engaged(r)' => r = p \/ (Engaged(r) /\ post'[r] = post[r])
  BY <1>3 DEF Engaged
<1>16. ASSUME NEW g \in Generations, NEW q \in Posts, NEW r \in Posts, q # r,
              Engaged(q)', Engaged(r)', IdOf[q] = IdOf[r],
              post'[q].deduper = g, post'[r].deduper = g
       PROVE  Forgotten(g, IdOf[q])'
  <2>1. CASE q = p
    <3>1. Engaged(r) /\ post[r].deduper = d /\ g = d
      BY <1>3, <1>15, <1>16, <2>1
    <3> QED  BY <1>14, <1>16, <2>1, <3>1
  <2>2. CASE r = p
    <3>1. Engaged(q) /\ post[q].deduper = d /\ g = d
      BY <1>3, <1>15, <1>16, <2>2
    <3> QED  BY <1>14, <1>16, <2>2, <3>1
  <2>3. CASE q # p /\ r # p
    <3>1. Engaged(q) /\ Engaged(r) /\ post[q].deduper = g /\ post[r].deduper = g
      BY <1>15, <1>16, <2>3
    <3>2. Forgotten(g, IdOf[q])
      BY <1>16, <3>1 DEF OnceInv, UniqueInv
    <3> QED  BY <1>8, <3>2
  <2> QED  BY <2>1, <2>2, <2>3
<1>17. \A r \in Posts : Engaged(r)' => InLog(r)'
  BY <1>12, <1>13, <1>15
<1>18. OrderInv'
  BY <1>9 DEF OrderInv
<1>19. \A r \in Posts : Engaged(r)' => post'[r].deduper \in 1..d
  BY <1>1, <1>3, <1>15 DEF OnceInv
<1>20. \A r \in Posts : post'[r].pc \in {"idle", "recorded", "rollback"} => post'[r].queue = 0
  BY <1>3 DEF OnceInv
<1>21. UniqueInv'
  BY <1>16 DEF UniqueInv
<1> QED  BY <1>1, <1>17, <1>18, <1>19, <1>20, <1>21 DEF OnceInv

\* A rollback takes the record of its own POST away, or that of another one: then
\* the id is forgotten for this generation already, or the POST has straddled.
LEMMA OnceRollback ==
  ASSUME LifeInv, OnceInv, NEW p \in Posts, Rollback(p)
  PROVE  OnceInv'
<1> PICK d : d = deduperGen
  OBVIOUS
<1>1. /\ post[p].pc = "rollback" /\ post[p].queue = 0 /\ Engaged(p)
      /\ d \in Generations /\ deduperGen' = d /\ log' = log
      /\ recorded \in [Generations -> Windows(Ids)]
  BY DEF Rollback, LifeInv, TypeOK, OnceInv, Engaged, lifecycle
<1>2. /\ post'[p] = [pc |-> "backpressure", deduper |-> post[p].deduper, queue |-> d]
      /\ \A r \in Posts : r # p => post'[r] = post[r]
  BY DEF Rollback, At, LifeInv, TypeOK
<1>3. /\ recorded'[d] = Unrecord(recorded[d], IdOf[p])
      /\ \A g \in Generations : g # d => recorded'[g] = recorded[g]
  BY <1>1 DEF Rollback
<1>4. \A r \in Posts : Engaged(r)' => r # p /\ Engaged(r) /\ post'[r] = post[r]
  BY <1>2 DEF Engaged
<1>5. ASSUME NEW g \in Generations, NEW id, Forgotten(g, id)
      PROVE  Forgotten(g, id)'
  <2>1. \A r \in Posts : post[r].queue # 0 => post'[r] = post[r]
    BY <1>1, <1>2
  <2> QED  BY <1>1, <1>5, <2>1, ForgottenStays
<1>6. \A g, i, j : RecordedBetween(g, i, j)' = RecordedBetween(g, i, j)
  BY <1>1 DEF RecordedBetween
<1>7. OrderInv'
  <2>1. ASSUME NEW g \in Generations, NEW x, NEW y, Before(recorded'[g], x, y)
        PROVE  Before(recorded[g], x, y)
    <3>1. CASE g = d
      BY <1>1, <1>3, <2>1, <3>1, UnrecordOrder
    <3>2. CASE g # d
      BY <1>3, <2>1, <3>2
    <3> QED  BY <3>1, <3>2
  <2> QED  BY <1>1, <1>6, <2>1 DEF OnceInv, OrderInv
<1>8. ASSUME NEW r \in Posts, Engaged(r)'
      PROVE  InLog(r)'
  <2> PICK g : g = post[r].deduper
    OBVIOUS
  <2>1. r # p /\ Engaged(r) /\ post'[r].deduper = g /\ g \in Generations
    <3>1. r # p /\ Engaged(r) /\ post'[r].deduper = g
      BY <1>4, <1>8
    <3>2. g \in 1..deduperGen /\ deduperGen \in 0..MaxStarts
      BY <3>1 DEF OnceInv, LifeInv, TypeOK
    <3> QED  BY <3>1, <3>2
  <2>2. PICK i \in DOMAIN log[g] :
          log[g][i] = r /\ (Forgotten(g, IdOf[r]) \/ StillKnown(g, i))
    BY <2>1 DEF OnceInv, InLog
  <2>3. CASE Forgotten(g, IdOf[r])
    BY <1>1, <1>5, <2>1, <2>2, <2>3 DEF InLog
  <2>4. CASE StillKnown(g, i) /\ (g # d \/ IdOf[r] # IdOf[p])
    <3>1. IdOf[r] \in Recorded(recorded[g]) => IdOf[r] \in Recorded(recorded'[g])
      <4>1. CASE g # d
        BY <1>3, <2>1, <4>1
      <4>2. CASE g = d /\ IdOf[r] # IdOf[p]
        BY <1>1, <1>3, <4>2, UnrecordForgets
      <4> QED  BY <2>4, <4>1, <4>2
    <3>2. StillKnown(g, i)'
      BY <1>1, <1>6, <2>2, <2>4, <3>1 DEF StillKnown
    <3>3. /\ i \in DOMAIN log'[post'[r].deduper] /\ log'[post'[r].deduper][i] = r
          /\ StillKnown(post[r].deduper, i)'
      BY <1>1, <2>1, <2>2, <3>2 DEF StillKnown, RecordedBetween
    <3> QED  BY <3>3 DEF InLog
  <2>5. CASE g = d /\ IdOf[r] = IdOf[p]
    <3>1. CASE post[p].deduper = d
      <4>1. Forgotten(g, IdOf[r])
        BY <1>1, <2>1, <2>5, <3>1 DEF OnceInv, UniqueInv
      <4> QED  BY <2>3, <4>1
    <3>2. CASE post[p].deduper # d
      <4>1. Straddled(g, IdOf[r])'
        BY <1>2, <2>5, <3>2 DEF Straddled
      <4> QED  BY <1>1, <2>1, <2>2, <4>1 DEF InLog, Forgotten, Straddled
    <3> QED  BY <3>1, <3>2
  <2> QED  BY <2>2, <2>3, <2>4, <2>5
<1>9. UniqueInv'
  BY <1>4, <1>5 DEF OnceInv, UniqueInv
<1>10. \A r \in Posts : Engaged(r)' => post'[r].deduper \in 1..d
  BY <1>1, <1>4 DEF OnceInv
<1>11. \A r \in Posts : post'[r].pc \in {"idle", "recorded", "rollback"} => post'[r].queue = 0
  BY <1>2 DEF OnceInv
<1> QED  BY <1>1, <1>7, <1>8, <1>9, <1>10, <1>11 DEF OnceInv

LEMMA OnceHandler ==
  ASSUME LifeInv, OnceInv, NEW p \in Posts, Handler(p)
  PROVE  OnceInv'
<1>1. /\ deduperGen \in Nat
      /\ post \in [Posts -> [pc : Where, deduper : 0..MaxStarts, queue : 0..MaxStarts]]
  BY DEF LifeInv, TypeOK
<1>2. CASE Record(p)
  BY <1>2, OnceRecord
<1>3. CASE Rollback(p)
  BY <1>3, OnceRollback
<1>4. CASE Duplicate(p) \/ Enqueue(p) \/ EnqueueFails(p)
  <2>1. PICK pc, d, q :
          /\ pc \in {"duplicate", "accepted", "rollback"}
          /\ post[p].pc = "idle" => pc = "duplicate"
          /\ pc # "duplicate" => d = post[p].deduper
          /\ pc = "rollback" => q = 0
          /\ At(p, pc, d, q)
    BY <1>4 DEF Duplicate, Enqueue, EnqueueFails
  <2>2. /\ post'[p] = [pc |-> pc, deduper |-> d, queue |-> q]
        /\ \A r \in Posts : r # p => post'[r] = post[r]
    BY <1>1, <2>1 DEF At
  <2>3. /\ post[p].pc \in {"idle", "recorded"} /\ post[p].queue = 0
        /\ UNCHANGED <<recorded, log, deduperGen>>
    BY <1>4 DEF Duplicate, Enqueue, EnqueueFails, OnceInv, lifecycle, components
  <2>4. \A r \in Posts : Engaged(r)' => Engaged(r) /\ post'[r].deduper = post[r].deduper
    BY <2>1, <2>2, <2>3 DEF Engaged
  <2>5. \A r \in Posts : post'[r].pc \in {"idle", "recorded", "rollback"} => post'[r].queue = 0
    BY <2>1, <2>2 DEF OnceInv
  <2>6. \A r \in Posts : post[r].queue # 0 => post'[r] = post[r]
    BY <2>2, <2>3
  <2> QED  BY <1>1, <2>3, <2>4, <2>5, <2>6, OnceKept
<1> QED  BY <1>2, <1>3, <1>4 DEF Handler

\* Nobody but the handlers touches ids, and deduperGen only grows.
LEMMA OnceStep == LifeInv /\ OnceInv /\ [Next]_vars => OnceInv'
<1> SUFFICES ASSUME LifeInv, OnceInv, [Next]_vars PROVE OnceInv'
  OBVIOUS
<1>1. CASE UNCHANGED <<post, recorded, log>> /\ deduperGen' \in Nat /\ deduperGen <= deduperGen'
  BY <1>1, OnceKept DEF OnceInv, Engaged
<1>2. CASE Start
  BY <1>1, <1>2 DEF Start, StartDeduper, StartPool, components, LifeInv, TypeOK
<1>3. CASE Stop
  BY <1>1, <1>3 DEF Stop, StopCalled, WaitOver, WaitTimesOut, StopCloses, components, LifeInv, TypeOK
<1>4. CASE \E g \in Generations : Cancel(g)
  BY <1>1, <1>4 DEF Cancel, lifecycle, LifeInv, TypeOK
<1>5. CASE \E g \in Generations, w \in Workers : Work(g, w) \/ WorkerEnds(g, w)
  <2>1. UNCHANGED <<lifecycle, recorded, log, post>>
    BY <1>5 DEF Work, WorkerEnds
  <2> QED  BY <1>1, <2>1 DEF lifecycle, LifeInv, TypeOK
<1>6. CASE UNCHANGED vars
  BY <1>1, <1>6 DEF vars, lifecycle, components, LifeInv, TypeOK
<1> QED  BY <1>2, <1>3, <1>4, <1>5, <1>6, OnceHandler DEF Next

\* A queue is given an event id a second time only if a handler of this very id
\* straddled a Start, or if MaxSize other ids were recorded between two records
\* of it.  All handlers may straddle, roll back and hang up.
THEOREM AcceptedOncePerGeneration == Spec => []OncePerGeneration
<1>1. LifeInv /\ OnceInv => OncePerGeneration
  <2> SUFFICES ASSUME OnceInv, NEW g \in Generations,
                      NEW p \in AcceptedBy(g), NEW q \in AcceptedBy(g), IdOf[p] = IdOf[q]
               PROVE  p = q \/ Forgotten(g, IdOf[p])
    BY DEF OncePerGeneration
  <2>1. p \in Posts /\ q \in Posts /\ Engaged(p) /\ Engaged(q)
    BY DEF AcceptedBy, Engaged
  <2>2. CASE post[p].deduper = g /\ post[q].deduper = g
    BY <2>1, <2>2 DEF OnceInv, UniqueInv
  <2>3. CASE post[p].deduper # g \/ post[q].deduper # g
    BY <2>1, <2>3 DEF AcceptedBy, Forgotten, Straddled
  <2> QED  BY <2>2, <2>3
<1> QED  BY <1>1, OnceInit, OnceStep, LifeInvariant, PTL DEF Spec

-----------------------------------------------------------------------------
(* The process *)

\* Every step of the process is one of the life cycle or leaves it alone.
LEMMA ProcessStep == [ProcessNext]_allVars => [Next]_vars
<1> SUFFICES ASSUME [ProcessNext]_allVars PROVE [Next]_vars
  OBVIOUS
<1>1. CASE StartService \/ StopService
  BY <1>1 DEF StartService, StopService, Next, Start
<1>2. CASE Signal
  BY <1>2 DEF Signal, Next
<1>3. CASE \E p \in Posts : Serve(p)
  BY <1>3 DEF Serve, Next
<1>4. CASE \E w \in Workers : WorkerSteps(w)
  BY <1>4 DEF WorkerSteps, Next
<1>5. CASE UNCHANGED vars
  BY <1>5
<1>6. \/ StartService \/ StopService \/ Signal
      \/ \E p \in Posts : Serve(p)
      \/ \E w \in Workers : WorkerSteps(w)
      \/ UNCHANGED vars
  BY DEF ProcessNext, Main, ShutdownCalled, ShutdownOver, ShutdownTimesOut, Exit, Listen,
         ListenFails, Connect, allVars
<1> QED  BY <1>1, <1>2, <1>3, <1>4, <1>5, <1>6

\* The process is one way to use the Service: what holds of every life cycle
\* holds of it.
THEOREM ProcessIsALifecycle == ProcessSpec => Spec
<1>1. ProcessInit => Init
  BY DEF ProcessInit
<1> QED  BY <1>1, ProcessStep, PTL DEF ProcessSpec, Spec

\* What a handler enqueues or rolls back, it has recorded in the same generation.
NobodyStraddles == \A p \in Posts : post[p].queue \in {0, post[p].deduper}

\* main starts the Service once, before anybody is connected, so that every
\* handler meets generation 1 only; it stops it when the HTTP server, which
\* connects nobody any more, has nobody left or is late.
ProcessInv ==
  /\ main \in {"init", "serving", "shutdown", "stop", "exited"}
  /\ main = "init" => gen = 0 /\ deduperGen <= 1 /\ connected = {} /\ server = "down"
  /\ main # "init" => gen = 1 /\ deduperGen = 1
  /\ main \in {"shutdown", "stop", "exited"} => server = "closed"
  /\ main \in {"stop", "exited"} => late \/ Busy = {}
  /\ waitingFor # 0 \/ closed # {} => main \in {"stop", "exited"}
  /\ NobodyStraddles

LEMMA ProcessInvInit == ProcessInit => ProcessInv
  BY DEF ProcessInit, Init, ProcessInv, NobodyStraddles

\* A handler's step: nobody straddles, and the answered stay answered.
LEMMA ServeStep ==
  ASSUME LifeInv, OnceInv, ProcessInv, NEW p \in Posts, Serve(p)
  PROVE  ProcessInv'
<1>1. /\ p \in connected /\ main # "init" /\ gen = 1 /\ deduperGen = 1
      /\ UNCHANGED <<main, server, connected, late>>
  BY DEF Serve, process, ProcessInv
<1>2. /\ post \in [Posts -> [pc : Where, deduper : 0..MaxStarts, queue : 0..MaxStarts]]
      /\ Engaged(p) => post[p].deduper = 1
  BY <1>1 DEF LifeInv, TypeOK, OnceInv
<1>3. /\ UNCHANGED <<gen, deduperGen, waitingFor, closed>>
      /\ post[p].pc \in {"idle", "recorded", "rollback"}
      /\ \E pc \in Where, d \in {0, 1}, q \in {0, 1} : q \in {0, d} /\ At(p, pc, d, q)
  <2>1. CASE Duplicate(p) \/ Record(p)
    BY <1>1, <2>1 DEF Duplicate, Record, lifecycle, components, Where
  <2>2. CASE Enqueue(p) \/ EnqueueFails(p) \/ Rollback(p)
    BY <1>1, <1>2, <2>2 DEF Enqueue, EnqueueFails, Rollback, lifecycle, components, Where, Engaged
  <2> QED  BY <2>1, <2>2 DEF Serve, Handler
<1>4. PICK pc \in Where, d \in {0, 1}, q \in {0, 1} :
        q \in {0, d} /\ post' = [post EXCEPT ![p] = [pc |-> pc, deduper |-> d, queue |-> q]]
  BY <1>3 DEF At
<1>5. NobodyStraddles'
  BY <1>2, <1>4 DEF ProcessInv, NobodyStraddles
<1>6. Answered \subseteq Answered'
  BY <1>2, <1>3, <1>4 DEF Answered
<1>7. Busy = {} => Busy' = {}
  BY <1>1, <1>6 DEF Busy
<1> QED  BY <1>1, <1>3, <1>5, <1>7 DEF ProcessInv

LEMMA ProcessInvStep ==
  ASSUME LifeInv, OnceInv, ProcessInv, [ProcessNext]_allVars
  PROVE  ProcessInv'
<1> USE DEF ProcessInv, NobodyStraddles, Busy, Answered
<1>1. CASE StartService
  <2>1. CASE StartDeduper /\ UNCHANGED main
    BY <1>1, <2>1 DEF StartService, StartDeduper, components
  <2>2. CASE StartPool /\ main' = "serving"
    BY <1>1, <2>2 DEF StartService, StartPool, LifeInv, TypeOK
  <2> QED  BY <1>1, <2>1, <2>2 DEF StartService
<1>2. CASE StopService
  <2>1. main = "stop" /\ UNCHANGED <<main, server, connected, late>>
    BY <1>2 DEF StopService, process
  <2>2. UNCHANGED <<gen, deduperGen, post>>
    BY <1>2 DEF StopService, Stop, StopCalled, WaitOver, WaitTimesOut, StopCloses, components
  <2> QED  BY <2>1, <2>2
<1>3. CASE Signal
  BY <1>3 DEF Signal, Cancel, process, lifecycle
<1>4. CASE ShutdownCalled \/ ShutdownOver \/ ShutdownTimesOut \/ Exit
  BY <1>4 DEF ShutdownCalled, ShutdownOver, ShutdownTimesOut, Exit, vars, lifecycle, components
<1>5. CASE Listen \/ ListenFails
  BY <1>5 DEF Listen, ListenFails, vars, lifecycle, components
<1>6. CASE \E p \in Posts : Connect(p)
  BY <1>6 DEF Connect, vars, lifecycle, components
<1>7. CASE \E w \in Workers : WorkerSteps(w)
  BY <1>7 DEF WorkerSteps, Work, WorkerEnds, process, lifecycle
<1>8. CASE UNCHANGED allVars
  BY <1>8 DEF allVars, vars, process, lifecycle, components
<1> QED  BY <1>1, <1>2, <1>3, <1>4, <1>5, <1>6, <1>7, <1>8, ServeStep DEF ProcessNext, Main

LEMMA ProcessInvariant == ProcessSpec => [](LifeInv /\ OnceInv /\ ProcessInv)
<1>1. ProcessInit => LifeInv /\ OnceInv /\ ProcessInv
  BY LifeInit, OnceInit, ProcessInvInit DEF ProcessInit
<1>2. LifeInv /\ OnceInv /\ ProcessInv /\ [ProcessNext]_allVars
        => (LifeInv /\ OnceInv /\ ProcessInv)'
  BY LifeStep, OnceStep, ProcessStep, ProcessInvStep
<1> QED  BY <1>1, <1>2, PTL DEF ProcessSpec

\* An event id is accepted a second time in the life of a process only if MaxSize
\* other ids were recorded between two records of it: the process has one
\* generation of components, and no handler can straddle two.
THEOREM ProcessAcceptsOnce == ProcessSpec => []AcceptedOnce
<1>1. OnceInv /\ ProcessInv => AcceptedOnce
  <2> SUFFICES ASSUME OnceInv, ProcessInv,
                      NEW p \in AcceptedBy(1), NEW q \in AcceptedBy(1), IdOf[p] = IdOf[q]
               PROVE  p = q \/ Evicted(1, IdOf[p])
    BY DEF AcceptedOnce
  <2>1. /\ p \in Posts /\ q \in Posts /\ Engaged(p) /\ Engaged(q) /\ 1 \in Generations
        /\ post[p].deduper = 1 /\ post[q].deduper = 1
    BY DEF AcceptedBy, Engaged, ProcessInv, NobodyStraddles
  <2>2. p = q \/ Forgotten(1, IdOf[p])
    BY <2>1 DEF OnceInv, UniqueInv
  <2>3. ~Straddled(1, IdOf[p])
    BY DEF Straddled, ProcessInv, NobodyStraddles
  <2> QED  BY <2>2, <2>3 DEF Forgotten
<1> QED  BY <1>1, ProcessInvariant, PTL

\* A deduper as large as the set of ids evicts none.
LEMMA FittingIdsStay ==
  ASSUME LifeInv, Cardinality(Ids) <= MaxSize, NEW g \in Generations, NEW id \in Ids
  PROVE  ~Evicted(g, id)
<1> SUFFICES ASSUME NEW i \in DOMAIN log[g], NEW j \in DOMAIN log[g]
             PROVE  ~(Cardinality(RecordedBetween(g, i, j) \ {id}) >= MaxSize)
  BY DEF Evicted
<1>1. DOMAIN log[g] = 1..Len(log[g]) /\ Len(log[g]) \in Nat
      /\ \A k \in DOMAIN log[g] : IdOf[log[g][k]] \in Ids
  BY LenProperties, ElementOfSeq DEF LifeInv, TypeOK
<1>2. RecordedBetween(g, i, j) \ {id} \subseteq Ids \ {id}
  BY <1>1 DEF RecordedBetween
<1>3. /\ IsFiniteSet(Ids \ {id}) /\ Cardinality(Ids) \in Nat
      /\ Cardinality(Ids \ {id}) = Cardinality(Ids) - 1
  BY FS_RemoveElement, FS_CardinalityType
<1>4. /\ Cardinality(RecordedBetween(g, i, j) \ {id}) \in Nat
      /\ Cardinality(RecordedBetween(g, i, j) \ {id}) <= Cardinality(Ids \ {id})
  BY <1>2, <1>3, FS_Subset, FS_CardinalityType
<1> QED  BY <1>3, <1>4, MaxSizeAssumption

\* A process whose deduper holds every id it is sent accepts each of them once.
THEOREM ProcessAcceptsOnceIfIdsFit ==
  ASSUME Cardinality(Ids) <= MaxSize
  PROVE  ProcessSpec =>
           [](\A p, q \in AcceptedBy(1) : IdOf[p] = IdOf[q] => p = q)
<1>1. LifeInv /\ AcceptedOnce => \A p, q \in AcceptedBy(1) : IdOf[p] = IdOf[q] => p = q
  BY FittingIdsStay DEF AcceptedOnce, AcceptedBy
<1>2. ProcessSpec => []LifeInv
  BY ProcessInvariant, PTL
<1> QED  BY <1>1, <1>2, ProcessAcceptsOnce, PTL


\* The queue is closed only after the answers, or after the deadline.
THEOREM StopsAfterAnswers == ProcessSpec => []StopAfterAnswers
<1>1. ProcessInv => StopAfterAnswers
  BY DEF ProcessInv, StopAfterAnswers
<1> QED  BY <1>1, ProcessInvariant, PTL
=============================================================================
