--------------------------- MODULE PipelineProofs ---------------------------
(***************************************************************************)
(* What the pipeline guarantees for any number of POSTs, workers, talents, *)
(* queue slots and, where IdsFit is not assumed, any deduper window.       *)
(***************************************************************************)
EXTENDS Pipeline, Scoring, DedupeWindowProofs

USE DEF Answers

-----------------------------------------------------------------------------
(* Types *)

\* In every reachable state the deduper's window holds no id twice and no more
\* than MaxSize ids, and the queue's channel no more than QueueCapacity events.
LEMMA TypeInit == Init => TypeOK
<1> SUFFICES ASSUME Init PROVE TypeOK
  OBVIOUS
<1>1. seen \in Windows(Ids)
  BY EmptySeq, MaxSizeAssumption DEF Init, Windows
<1>2. events \in Seq(Posts) /\ Len(events) <= QueueCapacity
  BY EmptySeq, PipelineAssumption DEF Init
<1> QED  BY <1>1, <1>2 DEF Init, TypeOK

LEMMA TypeHandler ==
  ASSUME TypeOK, NEW p \in Posts, Handler(p)
  PROVE  TypeOK'
<1>1. IdOf[p] \in Ids
  BY PipelineAssumption
<1>2. CASE BadRequest(p) \/ Duplicate(p) \/ EnqueueFails(p)
  BY <1>2 DEF TypeOK, BadRequest, Duplicate, EnqueueFails, Goto, queue, workers, board
<1>3. CASE Record(p)
  <2>1. seen' \in Windows(Ids)
    BY <1>1, <1>3, RecordNewRecords DEF TypeOK, Record
  <2> QED  BY <1>3, <2>1 DEF TypeOK, Record, Goto, queue, workers, board
<1>4. CASE Enqueue(p)
  <2>1. events' \in Seq(Posts) /\ Len(events') = Len(events) + 1
    BY <1>4, AppendProperties DEF TypeOK, Enqueue
  <2>2. Len(events') <= QueueCapacity
    BY <1>4, <2>1, LenProperties, PipelineAssumption DEF TypeOK, Enqueue, HasRoom
  <2> QED  BY <1>4, <2>1, <2>2 DEF TypeOK, Enqueue, Goto, workers, board
<1>5. CASE Rollback(p)
  <2>1. seen' \in Windows(Ids)
    BY <1>5, UnrecordForgets DEF TypeOK, Rollback
  <2> QED  BY <1>5, <2>1 DEF TypeOK, Rollback, Goto, queue, workers, board
<1> QED  BY <1>2, <1>3, <1>4, <1>5 DEF Handler

LEMMA TypeWorker ==
  ASSUME TypeOK, NEW w \in Workers, Forwarder(w) \/ Loop(w)
  PROVE  TypeOK'
<1>1. CASE Forward(w)
  <2>1. /\ Head(events) \in Posts /\ events' \in Seq(Posts)
        /\ Len(events') = Len(events) - 1
    BY <1>1, HeadTailProperties DEF TypeOK, Forward
  <2>2. Len(events') <= QueueCapacity
    BY <2>1, LenProperties, PipelineAssumption DEF TypeOK
  <2> QED  BY <1>1, <2>1, <2>2 DEF TypeOK, Forward, handlers, board
<1>2. CASE ForwarderQuits(w)
  BY <1>2 DEF TypeOK, ForwarderQuits, handlers, queue
<1>3. CASE ForwarderEnds(w)
  BY <1>3 DEF TypeOK, ForwarderEnds, handlers, queue, board
<1>4. CASE Receive(w)
  BY <1>4 DEF TypeOK, Receive, handlers, queue, board
<1>5. CASE WorkerExits(w)
  BY <1>5 DEF TypeOK, WorkerExits, handlers, queue, board
<1>6. CASE Process(w)
  <2>1. job[w] \in Posts
    BY <1>6 DEF TypeOK, Process
  <2>2. best' \in [Talents -> Posts \cup {NoPost}]
    BY <1>6, <2>1 DEF TypeOK, Process
  <2> QED  BY <1>6, <2>1, <2>2 DEF TypeOK, Process, handlers, queue
<1>7. CASE ScoreFails(w)
  BY <1>7 DEF TypeOK, ScoreFails, handlers, queue
<1> QED  BY <1>1, <1>2, <1>3, <1>4, <1>5, <1>6, <1>7 DEF Forwarder, Loop

LEMMA TypeStep == TypeOK /\ [Next]_vars => TypeOK'
<1> SUFFICES ASSUME TypeOK, [Next]_vars PROVE TypeOK'
  OBVIOUS
<1>1. CASE Cancel
  BY <1>1 DEF TypeOK, Cancel, handlers, queue, workers, board
<1>2. CASE CloseQueue
  BY <1>2 DEF TypeOK, CloseQueue, handlers, workers, board
<1>4. ASSUME NEW w \in Workers, ShutdownWorker(w) PROVE TypeOK'
  BY <1>4, PipelineAssumption DEF TypeOK, ShutdownWorker, handlers, queue, board
<1>3. CASE UNCHANGED vars
  BY <1>3 DEF TypeOK, vars, handlers, queue, workers, board
<1> QED  BY <1>1, <1>2, <1>3, <1>4, TypeHandler, TypeWorker DEF Next

\* Type correctness.
THEOREM TypeCorrect == Spec => []TypeOK
<1> QED  BY TypeInit, TypeStep, PTL DEF Spec

-----------------------------------------------------------------------------
(* Deduplication *)

\* The handlers whose record is in force.
Engaged == Accepted \cup Pending

\* AtMostOnce is not inductive alone: Record(p) must know that a POST already
\* engaged for p's id would have been found, which is RecordInForce, and
\* Rollback(p) preserves RecordInForce only because no other engaged POST has
\* p's id, which is AtMostOnce.
DedupeInv == TypeOK /\ AtMostOnce /\ RecordInForce

\* Engaged only grows by Record and only shrinks by Rollback.
LEMMA OthersKeepEngaged ==
  ASSUME TypeOK, [Next]_vars
  PROVE  \/ Engaged' = Engaged /\ seen' = seen
         \/ \E p \in Posts : Record(p) /\ Engaged' = Engaged \cup {p}
         \/ \E p \in Posts : Rollback(p) /\ p \in Engaged /\ Engaged' = Engaged \ {p}
<1> USE DEF TypeOK, Engaged, Accepted, Pending, Goto
<1>1. CASE \E p \in Posts : BadRequest(p) \/ Duplicate(p) \/ Enqueue(p) \/ EnqueueFails(p)
  BY <1>1 DEF BadRequest, Duplicate, Enqueue, EnqueueFails
<1>2. ASSUME NEW p \in Posts, Record(p)
      PROVE  Engaged' = Engaged \cup {p}
  BY <1>2 DEF Record
<1>3. ASSUME NEW p \in Posts, Rollback(p)
      PROVE  p \in Engaged /\ Engaged' = Engaged \ {p}
  BY <1>3 DEF Rollback
<1>4. CASE pc' = pc /\ seen' = seen
  BY <1>4
<1>5. ASSUME NEW w \in Workers, Forwarder(w) \/ Loop(w) \/ ShutdownWorker(w)
      PROVE  pc' = pc /\ seen' = seen
  BY <1>5 DEF Forwarder, Loop, Forward, ForwarderQuits, ForwarderEnds, Receive,
              WorkerExits, Process, ScoreFails, ShutdownWorker, handlers
<1>6. Cancel \/ CloseQueue \/ UNCHANGED vars => pc' = pc /\ seen' = seen
  BY DEF Cancel, CloseQueue, vars, handlers
<1> QED  BY <1>1, <1>2, <1>3, <1>4, <1>5, <1>6 DEF Next, Handler

LEMMA DedupeStep ==
  ASSUME IdsFit, DedupeInv, [Next]_vars
  PROVE  DedupeInv'
<1>1. TypeOK'
  BY TypeStep DEF DedupeInv
<1>2. CASE Engaged' = Engaged /\ seen' = seen
  BY <1>1, <1>2 DEF DedupeInv, AtMostOnce, RecordInForce, Engaged
<1>3. ASSUME NEW p \in Posts, Record(p), Engaged' = Engaged \cup {p}
      PROVE  AtMostOnce' /\ RecordInForce'
  <2>1. IdOf[p] \in Ids /\ seen \in Windows(Ids) /\ IdOf[p] \notin Recorded(seen)
    BY <1>3, PipelineAssumption DEF DedupeInv, TypeOK, Record
  <2>2. Len(seen) < MaxSize
    BY <2>1, NoEvictionWhenIdsFit DEF IdsFit
  <2>3. Recorded(seen') = Recorded(seen) \cup {IdOf[p]}
    BY <1>3, <2>1, <2>2, RecordNewRecords DEF Record
  <2>4. RecordInForce'
    BY <1>3, <2>3 DEF DedupeInv, RecordInForce, Engaged
  <2>5. \A q \in Engaged : IdOf[q] # IdOf[p]
    BY <2>1 DEF DedupeInv, RecordInForce, Engaged
  <2>6. AtMostOnce'
    BY <1>3, <2>5 DEF DedupeInv, AtMostOnce, Engaged
  <2> QED  BY <2>4, <2>6
<1>4. ASSUME NEW p \in Posts, Rollback(p), p \in Engaged, Engaged' = Engaged \ {p}
      PROVE  AtMostOnce' /\ RecordInForce'
  <2>1. Recorded(seen') = Recorded(seen) \ {IdOf[p]}
    BY <1>4, UnrecordForgets DEF DedupeInv, TypeOK, Rollback
  <2>2. RecordInForce'
    BY <1>4, <2>1 DEF DedupeInv, RecordInForce, AtMostOnce, Engaged
  <2>3. AtMostOnce'
    BY <1>4 DEF DedupeInv, AtMostOnce, Engaged
  <2> QED  BY <2>2, <2>3
<1> QED  BY <1>1, <1>2, <1>3, <1>4, OthersKeepEngaged DEF DedupeInv

LEMMA DedupeInvariant ==
  ASSUME IdsFit
  PROVE  Spec => []DedupeInv
<1>1. Init => DedupeInv
  BY TypeInit DEF Init, DedupeInv, AtMostOnce, RecordInForce, Accepted, Pending
<1>2. DedupeInv /\ [Next]_vars => DedupeInv'
  BY DedupeStep
<1> QED  BY <1>1, <1>2, PTL DEF Spec

\* When the window has room for every id, the deduper and the handlers' record,
\* enqueue, roll-back protocol let an event id through at most once at a time.
THEOREM Deduplication ==
  ASSUME IdsFit
  PROVE  Spec => []AtMostOnce
<1>1. DedupeInv => AtMostOnce
  BY DEF DedupeInv
<1> QED  BY <1>1, DedupeInvariant, PTL

\* Under the same proviso no rollback removes the record of another POST.
THEOREM RecordsStayInForce ==
  ASSUME IdsFit
  PROVE  Spec => []RecordInForce
<1>1. DedupeInv => RecordInForce
  BY DEF DedupeInv
<1> QED  BY <1>1, DedupeInvariant, PTL

-----------------------------------------------------------------------------
(* Conservation of accepted events *)

Gone == applied \cup lost

\* An accepted event is in one place only ...
QueueApart ==
  /\ \A i, j \in DOMAIN events : events[i] = events[j] => i = j
  /\ \A i \in DOMAIN events :
       /\ events[i] \in Accepted \ Gone
       /\ \A w \in Workers : held[w] # events[i] /\ job[w] # events[i]

HandApart ==
  \A w \in Workers : held[w] # NoPost =>
    /\ held[w] \in Accepted \ Gone
    /\ \A v \in Workers : job[v] # held[w] /\ (held[v] = held[w] => v = w)

WorkApart ==
  \A w \in Workers : job[w] # NoPost =>
    /\ job[w] \in Accepted \ Gone
    /\ \A v \in Workers : job[v] = job[w] => v = w

GoneApart == applied \cap lost = {} /\ Gone \subseteq Accepted

\* ... and in at least one.
Somewhere ==
  \A p \in Accepted :
    \/ \E i \in DOMAIN events : events[i] = p
    \/ \E w \in Workers : held[w] = p \/ job[w] = p
    \/ p \in Gone

FlowInv == TypeOK /\ QueueApart /\ HandApart /\ WorkApart /\ GoneApart /\ Somewhere

LEMMA FlowInit == Init => FlowInv
<1> SUFFICES ASSUME Init PROVE FlowInv
  OBVIOUS
<1>1. TypeOK
  BY TypeInit
<1>2. DOMAIN events = {}
  BY EmptySeq DEF Init
<1> QED  BY <1>1, <1>2 DEF Init, FlowInv, QueueApart, HandApart, WorkApart, GoneApart,
                           Somewhere, Gone, Accepted

\* A handler that does not enqueue moves no event.
LEMMA FlowQuiet ==
  ASSUME FlowInv, TypeOK', Accepted' = Accepted,
         UNCHANGED <<events, held, job, applied, lost>>
  PROVE  FlowInv'
<1> QED  BY DEF FlowInv, QueueApart, HandApart, WorkApart, GoneApart, Somewhere, Gone

\* An enqueued event appears in the queue and nowhere else.
LEMMA FlowEnqueue ==
  ASSUME FlowInv, TypeOK', NEW p \in Posts, Enqueue(p)
  PROVE  FlowInv'
<1>1. /\ p \notin Accepted /\ Accepted' = Accepted \cup {p}
      /\ UNCHANGED <<held, job, applied, lost, Gone>>
  BY DEF FlowInv, TypeOK, Enqueue, Goto, Accepted, workers, board, Gone
<1>2. /\ Len(events) \in Nat /\ DOMAIN events = 1..Len(events)
      /\ DOMAIN events' = 1..(Len(events) + 1)
      /\ \A i \in 1..Len(events) : events'[i] = events[i]
      /\ events'[Len(events) + 1] = p
  BY AppendProperties, LenProperties DEF FlowInv, TypeOK, Enqueue
<1>3. /\ \A i \in DOMAIN events : events[i] # p
      /\ \A w \in Workers : held[w] # p /\ job[w] # p
      /\ p \notin Gone
  BY <1>1, PipelineAssumption DEF FlowInv, QueueApart, HandApart, WorkApart, GoneApart
<1>4. QueueApart'
  <2>1. \A i, j \in DOMAIN events' : events'[i] = events'[j] => i = j
    BY <1>2, <1>3 DEF FlowInv, QueueApart
  <2>2. ASSUME NEW i \in DOMAIN events'
        PROVE  /\ events'[i] \in Accepted' \ Gone'
               /\ \A w \in Workers : held'[w] # events'[i] /\ job'[w] # events'[i]
    <3>1. CASE i \in DOMAIN events
      BY <3>1, <1>1, <1>2 DEF FlowInv, QueueApart
    <3>2. CASE i = Len(events) + 1
      BY <3>2, <1>1, <1>2, <1>3
    <3> QED  BY <3>1, <3>2, <1>2
  <2> QED  BY <2>1, <2>2 DEF QueueApart
<1>5. HandApart' /\ WorkApart' /\ GoneApart'
  BY <1>1 DEF FlowInv, HandApart, WorkApart, GoneApart
<1>6. Somewhere'
  <2>1. Len(events) + 1 \in DOMAIN events' /\ DOMAIN events \subseteq DOMAIN events'
    BY <1>2
  <2> QED  BY <1>1, <1>2, <2>1 DEF FlowInv, Somewhere
<1> QED  BY <1>4, <1>5, <1>6 DEF FlowInv

\* The forwarder moves the head of the queue to its hand.
LEMMA FlowForward ==
  ASSUME FlowInv, TypeOK', NEW w \in Workers, Forward(w)
  PROVE  FlowInv'
<1>1. /\ Len(events) \in Nat \ {0} /\ DOMAIN events = 1..Len(events)
      /\ DOMAIN events' = 1..(Len(events) - 1)
      /\ \A i \in 1..(Len(events) - 1) : events'[i] = events[i + 1]
  <2>1. events \in Seq(Posts) /\ events # <<>> /\ events' = Tail(events)
    BY DEF FlowInv, TypeOK, Forward
  <2> QED  BY <2>1, HeadTailProperties, LenProperties, EmptySeq
<1>2. /\ held[w] = NoPost /\ held' = [held EXCEPT ![w] = events[1]]
      /\ held \in [Workers -> Posts \cup {NoPost}]
      /\ UNCHANGED <<job, applied, lost, Accepted, Gone>>
  BY DEF FlowInv, TypeOK, Forward, handlers, board, Accepted, Gone
<1>3. 1 \in DOMAIN events /\ \A i \in DOMAIN events' : i + 1 \in DOMAIN events
  BY <1>1
<1>4. /\ \A v \in Workers : held'[v] = IF v = w THEN events[1] ELSE held[v]
      /\ events[1] \in Accepted \ Gone /\ events[1] \in Posts
      /\ \A v \in Workers : held[v] # events[1] /\ job[v] # events[1]
  BY <1>2, <1>3 DEF FlowInv, QueueApart, Accepted
<1>5. QueueApart'
  <2>1. \A i, j \in DOMAIN events' : events'[i] = events'[j] => i = j
    <3>1. \A i, j \in DOMAIN events' : events'[i] = events'[j] => i + 1 = j + 1
      BY <1>1, <1>3 DEF FlowInv, QueueApart
    <3> QED  BY <1>1, <3>1
  <2>2. ASSUME NEW i \in DOMAIN events'
        PROVE  /\ events'[i] \in Accepted' \ Gone'
               /\ \A v \in Workers : held'[v] # events'[i] /\ job'[v] # events'[i]
    <3>1. events'[i] = events[i + 1] /\ i + 1 \in DOMAIN events /\ i + 1 # 1
      BY <1>1, <1>3
    <3>2. events[1] # events[i + 1]
      BY <3>1, <1>3 DEF FlowInv, QueueApart
    <3> QED  BY <3>1, <3>2, <1>2, <1>4 DEF FlowInv, QueueApart
  <2> QED  BY <2>1, <2>2 DEF QueueApart
<1>6. HandApart' /\ WorkApart' /\ GoneApart'
  BY <1>2, <1>4 DEF FlowInv, HandApart, WorkApart, GoneApart
<1>7. Somewhere'
  <2> SUFFICES ASSUME NEW p \in Accepted
               PROVE  \/ \E i \in DOMAIN events' : events'[i] = p
                      \/ \E v \in Workers : held'[v] = p \/ job'[v] = p
                      \/ p \in Gone'
    BY <1>2 DEF Somewhere
  <2>1. CASE \E i \in DOMAIN events : events[i] = p
    <3>1. PICK i \in DOMAIN events : events[i] = p
      BY <2>1
    <3>2. CASE i = 1
      BY <3>1, <3>2, <1>4
    <3>3. CASE i # 1
      <4>1. i - 1 \in DOMAIN events' /\ events'[i - 1] = p
        BY <3>1, <3>3, <1>1
      <4> QED  BY <4>1
    <3> QED  BY <3>2, <3>3
  <2>2. CASE ~\E i \in DOMAIN events : events[i] = p
    BY <2>2, <1>2, <1>4, PipelineAssumption DEF FlowInv, Somewhere, Accepted
  <2> QED  BY <2>1, <2>2
<1> QED  BY <1>5, <1>6, <1>7 DEF FlowInv

\* The other steps of a worker's goroutines hand an event on.
LEMMA FlowWorker ==
  ASSUME FlowInv, TypeOK', NEW w \in Workers,
         \/ ForwarderQuits(w) \/ Receive(w) \/ Process(w) \/ ScoreFails(w)
  PROVE  FlowInv'
<1>1. Accepted' = Accepted /\ events' = events
  BY DEF ForwarderQuits, Receive, Process, ScoreFails, handlers, queue, Accepted
<1>2. /\ held \in [Workers -> Posts \cup {NoPost}]
      /\ job \in [Workers -> Posts \cup {NoPost}]
      /\ events \in Seq(Posts) /\ NoPost \notin Posts
  BY PipelineAssumption DEF FlowInv, TypeOK
<1>3. \A i \in DOMAIN events : events[i] # NoPost
  BY <1>2, ElementOfSeq, LenProperties
<1>4. \A p \in Accepted : p # NoPost
  BY <1>2 DEF Accepted
<1>5. CASE ForwarderQuits(w)
  <2>1. /\ held[w] # NoPost /\ held' = [held EXCEPT ![w] = NoPost]
        /\ lost' = lost \cup {held[w]} /\ UNCHANGED <<job, applied>>
    BY <1>5 DEF ForwarderQuits
  <2>2. QueueApart' /\ HandApart' /\ WorkApart' /\ GoneApart'
    BY <1>1, <1>2, <1>3, <2>1
       DEF FlowInv, QueueApart, HandApart, WorkApart, GoneApart, Gone
  <2>3. Somewhere'
    BY <1>1, <1>2, <1>4, <2>1 DEF FlowInv, Somewhere, Gone
  <2> QED  BY <2>2, <2>3 DEF FlowInv
<1>6. CASE Receive(w)
  <2>1. /\ held[w] # NoPost /\ job[w] = NoPost
        /\ held' = [held EXCEPT ![w] = NoPost] /\ job' = [job EXCEPT ![w] = held[w]]
        /\ UNCHANGED <<applied, lost>>
    BY <1>6 DEF Receive, Selecting, board
  <2>2. QueueApart' /\ HandApart' /\ WorkApart' /\ GoneApart'
    BY <1>1, <1>2, <1>3, <2>1
       DEF FlowInv, QueueApart, HandApart, WorkApart, GoneApart, Gone
  <2>3. Somewhere'
    BY <1>1, <1>2, <1>4, <2>1 DEF FlowInv, Somewhere, Gone
  <2> QED  BY <2>2, <2>3 DEF FlowInv
<1>7. CASE Process(w) \/ ScoreFails(w)
  <2>1. /\ job[w] # NoPost /\ job' = [job EXCEPT ![w] = NoPost] /\ UNCHANGED held
        /\ \/ applied' = applied \cup {job[w]} /\ lost' = lost
           \/ lost' = lost \cup {job[w]} /\ applied' = applied
    BY <1>7 DEF Process, ScoreFails
  <2>2. QueueApart' /\ HandApart' /\ WorkApart' /\ GoneApart'
    BY <1>1, <1>2, <1>3, <2>1
       DEF FlowInv, QueueApart, HandApart, WorkApart, GoneApart, Gone
  <2>3. Somewhere'
    BY <1>1, <1>2, <1>4, <2>1 DEF FlowInv, Somewhere, Gone
  <2> QED  BY <2>2, <2>3 DEF FlowInv
<1> QED  BY <1>5, <1>6, <1>7

LEMMA FlowStep ==
  ASSUME FlowInv, [Next]_vars
  PROVE  FlowInv'
<1>1. TypeOK'
  BY TypeStep DEF FlowInv
<1>2. ASSUME NEW p \in Posts,
             BadRequest(p) \/ Duplicate(p) \/ Record(p) \/ EnqueueFails(p) \/ Rollback(p)
      PROVE  /\ Accepted' = Accepted
             /\ UNCHANGED <<events, held, job, applied, lost>>
  BY <1>2 DEF BadRequest, Duplicate, Record, EnqueueFails, Rollback, Goto, Accepted,
              queue, workers, board, FlowInv, TypeOK
<1>3. ASSUME NEW w \in Workers, ForwarderEnds(w) \/ WorkerExits(w) \/ ShutdownWorker(w)
      PROVE  /\ Accepted' = Accepted
             /\ UNCHANGED <<events, held, job, applied, lost>>
  BY <1>3 DEF ForwarderEnds, WorkerExits, ShutdownWorker, Accepted, handlers, queue, board
<1>4. ASSUME Cancel \/ CloseQueue \/ UNCHANGED vars
      PROVE  /\ Accepted' = Accepted
             /\ UNCHANGED <<events, held, job, applied, lost>>
  BY <1>4 DEF Cancel, CloseQueue, vars, Accepted, handlers, queue, workers, board
<1> QED  BY <1>1, <1>2, <1>3, <1>4, FlowQuiet, FlowEnqueue, FlowForward, FlowWorker
         DEF Next, Handler, Forwarder, Loop

\* In every reachable state the event of each 202 is in exactly one place, so
\* no event is applied twice or both applied and dropped.
THEOREM ExactlyOnePlace == Spec => []FlowInv
<1> QED  BY FlowInit, FlowStep, PTL DEF Spec

-----------------------------------------------------------------------------
(* The same, counted: EventsConserved *)

\* As many events in a hand as hands that hold one: f is held or job.
LEMMA CountHeld ==
  ASSUME NEW f \in [Workers -> Posts \cup {NoPost}], IsFiniteSet(Workers),
         \A v, w \in Workers : f[w] # NoPost /\ f[v] = f[w] => v = w
  PROVE  LET busy == {w \in Workers : f[w] # NoPost}
             evs  == {f[w] : w \in Workers} \ {NoPost}
         IN  IsFiniteSet(evs) /\ Cardinality(evs) = Cardinality(busy)
<1> DEFINE busy == {w \in Workers : f[w] # NoPost}
           evs  == {f[w] : w \in Workers} \ {NoPost}
           g    == [w \in busy |-> f[w]]
<1>1. IsFiniteSet(busy)
  BY FS_Subset
<1>2. g \in Bijection(busy, evs)
  BY DEF Bijection, Injection, Surjection, IsInjective
<1>3. ExistsBijection(busy, evs)
  BY <1>2 DEF ExistsBijection
<1> HIDE DEF busy, evs, g
<1>4. IsFiniteSet(evs) /\ Cardinality(evs) = Cardinality(busy)
  BY <1>1, <1>3, FS_Bijection
<1> QED  BY <1>4 DEF busy, evs

LEMMA CountQueue ==
  ASSUME TypeOK, QueueApart
  PROVE  IsFiniteSet(InQueue) /\ Cardinality(InQueue) = Len(events)
<1>1. Len(events) \in Nat /\ DOMAIN events = 1..Len(events)
  BY LenProperties DEF TypeOK
<1>2. events \in Bijection(1..Len(events), InQueue)
  BY <1>1, LenProperties DEF TypeOK, QueueApart, InQueue, Bijection, Injection,
                             Surjection, IsInjective
<1>3. IsFiniteSet(1..Len(events)) /\ Cardinality(1..Len(events)) = Len(events)
  <2>1. Cardinality(1..Len(events)) = IF 1 > Len(events) THEN 0 ELSE Len(events) - 1 + 1
    BY <1>1, FS_Interval
  <2>2. IsFiniteSet(1..Len(events))
    BY <1>1, FS_Interval
  <2> QED  BY <2>1, <2>2, <1>1
<1>4. ExistsBijection(1..Len(events), InQueue)
  BY <1>2 DEF ExistsBijection
<1> QED  BY <1>3, <1>4, FS_Bijection

LEMMA CountUnion ==
  ASSUME NEW S, NEW T, IsFiniteSet(S), IsFiniteSet(T), S \cap T = {}
  PROVE  /\ IsFiniteSet(S \cup T) /\ Cardinality(S \cup T) \in Nat
         /\ Cardinality(S \cup T) = Cardinality(S) + Cardinality(T)
         /\ Cardinality(S) \in Nat /\ Cardinality(T) \in Nat
<1>1. IsFiniteSet(S \cup T)
  BY FS_Union
<1>2. /\ Cardinality(S \cup T) = Cardinality(S) + Cardinality(T) - Cardinality(S \cap T)
      /\ Cardinality(S \cap T) = 0
  BY FS_Union, FS_EmptySet
<1>3. /\ Cardinality(S) \in Nat /\ Cardinality(T) \in Nat
      /\ Cardinality(S \cup T) \in Nat
  BY <1>1, FS_CardinalityType
<1> QED  BY <1>1, <1>2, <1>3

LEMMA FlowCounts ==
  ASSUME IsFiniteSet(Posts), IsFiniteSet(Workers), FlowInv
  PROVE  EventsConserved
<1> DEFINE hands == {w \in Workers : held[w] # NoPost}
           busy  == {w \in Workers : job[w] # NoPost}
<1>0. /\ held \in [Workers -> Posts \cup {NoPost}] /\ job \in [Workers -> Posts \cup {NoPost}]
      /\ applied \subseteq Posts /\ lost \subseteq Posts
      /\ NoPost \notin Posts /\ NoPost \notin Accepted
  BY PipelineAssumption DEF FlowInv, TypeOK, Accepted
<1>1. Accepted = InQueue \cup InHand \cup InWork \cup applied \cup lost
  <2>1. Accepted \subseteq InQueue \cup InHand \cup InWork \cup applied \cup lost
    BY <1>0 DEF FlowInv, Somewhere, InQueue, InHand, InWork, Gone
  <2>2. InQueue \cup InHand \cup InWork \cup applied \cup lost \subseteq Accepted
    BY DEF FlowInv, QueueApart, HandApart, WorkApart, GoneApart, InQueue, InHand,
           InWork, Gone
  <2> QED  BY <2>1, <2>2
<1>2. IsFiniteSet(InQueue) /\ Cardinality(InQueue) = Len(events)
  BY CountQueue DEF FlowInv
<1>3. IsFiniteSet(InHand) /\ Cardinality(InHand) = Cardinality(hands)
  <2>1. \A v, w \in Workers : held[w] # NoPost /\ held[v] = held[w] => v = w
    BY DEF FlowInv, HandApart
  <2> QED  BY <1>0, <2>1, CountHeld DEF InHand
<1>4. IsFiniteSet(InWork) /\ Cardinality(InWork) = Cardinality(busy)
  <2>1. \A v, w \in Workers : job[w] # NoPost /\ job[v] = job[w] => v = w
    BY DEF FlowInv, WorkApart
  <2> QED  BY <1>0, <2>1, CountHeld DEF InWork
<1>5. IsFiniteSet(applied) /\ IsFiniteSet(lost)
  BY <1>0, FS_Subset
<1> HIDE DEF hands, busy
<1>6. /\ InQueue \cap InHand = {}
      /\ (InQueue \cup InHand) \cap InWork = {}
      /\ (InQueue \cup InHand \cup InWork) \cap applied = {}
      /\ (InQueue \cup InHand \cup InWork \cup applied) \cap lost = {}
  BY DEF FlowInv, QueueApart, HandApart, WorkApart, GoneApart, InQueue, InHand, InWork, Gone
<1>7. /\ IsFiniteSet(InQueue \cup InHand)
      /\ Cardinality(InQueue \cup InHand) = Cardinality(InQueue) + Cardinality(InHand)
  BY <1>2, <1>3, <1>6, CountUnion
<1>8. /\ IsFiniteSet(InQueue \cup InHand \cup InWork)
      /\ Cardinality(InQueue \cup InHand \cup InWork) =
           Cardinality(InQueue \cup InHand) + Cardinality(InWork)
  BY <1>4, <1>6, <1>7, CountUnion
<1>9. /\ IsFiniteSet(InQueue \cup InHand \cup InWork \cup applied)
      /\ Cardinality(InQueue \cup InHand \cup InWork \cup applied) =
           Cardinality(InQueue \cup InHand \cup InWork) + Cardinality(applied)
  BY <1>5, <1>6, <1>8, CountUnion
<1>10. Cardinality(InQueue \cup InHand \cup InWork \cup applied \cup lost) =
         Cardinality(InQueue \cup InHand \cup InWork \cup applied) + Cardinality(lost)
  BY <1>5, <1>6, <1>9, CountUnion
<1>11. Cardinality(Accepted) = Len(events) + Cardinality(hands) + Cardinality(busy)
                                + Cardinality(applied) + Cardinality(lost)
  BY <1>1, <1>2, <1>3, <1>4, <1>7, <1>8, <1>9, <1>10
<1> QED  BY <1>1, <1>11 DEF EventsConserved, hands, busy

\* No event that was answered 202 is duplicated or forgotten by the queue, the
\* forwarders or the workers.
THEOREM Conservation ==
  ASSUME IsFiniteSet(Posts), IsFiniteSet(Workers)
  PROVE  Spec => []EventsConserved
<1>1. FlowInv => EventsConserved
  BY FlowCounts
<1> QED  BY <1>1, ExactlyOnePlace, PTL

-----------------------------------------------------------------------------
(* Draining: what is left behind when the workers have ended *)

\* As long as the context is not cancelled nothing is dropped, and a goroutine
\* ends for one reason only: the forwarder because the queue is closed and
\* empty, which it then stays, and the worker because of its forwarder's end
\* or its own Shutdown.  Neither ends with an event in its hands.
DrainInv ==
  /\ FlowInv
  /\ \A w \in Workers \ running : job[w] = NoPost
  /\ \A w \in Workers \ forwarding : held[w] = NoPost
  /\ ~ctxDone =>
       /\ lost = {}
       /\ \A w \in Workers \ running : w \in signalled \/ w \notin forwarding
       /\ Workers \ forwarding # {} => closed /\ events = <<>>

LEMMA DrainInit == Init => DrainInv
<1> QED  BY FlowInit DEF Init, DrainInv

LEMMA DrainStep ==
  ASSUME DrainInv, [Next]_vars
  PROVE  DrainInv'
<1> USE DEF DrainInv
<1>1. FlowInv'
  BY FlowStep
<1>2. /\ held \in [Workers -> Posts \cup {NoPost}]
      /\ job \in [Workers -> Posts \cup {NoPost}]
      /\ running \subseteq Workers /\ forwarding \subseteq Workers
  BY DEF FlowInv, TypeOK
<1>3. CASE UNCHANGED <<closed, events, workers, lost, ctxDone>>
  BY <1>1, <1>3 DEF workers
<1>4. ASSUME NEW p \in Posts, Handler(p) PROVE DrainInv'
  <2>1. CASE Enqueue(p)
    BY <1>1, <2>1 DEF Enqueue, HasRoom, workers, board
  <2>2. CASE ~Enqueue(p)
    BY <1>3, <1>4, <2>2 DEF Handler, BadRequest, Duplicate, Record, EnqueueFails,
                            Rollback, queue, workers, board
  <2> QED  BY <2>1, <2>2
<1>5. ASSUME NEW w \in Workers, Forwarder(w) PROVE DrainInv'
  <2>1. CASE Forward(w)
    BY <1>1, <1>2, <2>1 DEF Forward, board
  <2>2. CASE ForwarderQuits(w)
    BY <1>1, <1>2, <2>2 DEF ForwarderQuits, queue
  <2>3. CASE ForwarderEnds(w)
    BY <1>1, <1>2, <2>3 DEF ForwarderEnds, queue, board
  <2> QED  BY <1>5, <2>1, <2>2, <2>3 DEF Forwarder
<1>6. ASSUME NEW w \in Workers, Loop(w) PROVE DrainInv'
  <2>1. CASE Receive(w)
    BY <1>1, <1>2, <2>1 DEF Receive, Selecting, queue, board
  <2>2. CASE WorkerExits(w)
    BY <1>1, <1>2, <2>2 DEF WorkerExits, Selecting, queue, board
  <2>3. CASE Process(w) \/ ScoreFails(w)
    BY <1>1, <1>2, <2>3 DEF Process, ScoreFails, queue
  <2> QED  BY <1>6, <2>1, <2>2, <2>3 DEF Loop
<1>7. ASSUME NEW w \in Workers, ShutdownWorker(w) PROVE DrainInv'
  BY <1>1, <1>7 DEF ShutdownWorker, queue, board
<1>8. CASE Cancel
  BY <1>1, <1>8 DEF Cancel, workers, queue, board
<1>9. CASE CloseQueue
  BY <1>1, <1>9 DEF CloseQueue, workers, board
<1>10. CASE UNCHANGED vars
  BY <1>3, <1>10 DEF vars, queue, board
<1> QED  BY <1>4, <1>5, <1>6, <1>7, <1>8, <1>9, <1>10 DEF Next

\* When the pool has drained after its queue was closed, every event answered
\* 202 is in the store, but for one per worker that was shut down by itself.
THEOREM PoolDrains == Spec => []DrainedAtExit
<1>1. ASSUME DrainInv, running = {}, signalled # Workers, ~ctxDone, NEW p \in Accepted
      PROVE  p \in applied \/ Stranded(p)
  <2>1. PICK v \in Workers : v \notin signalled
    BY <1>1 DEF DrainInv, FlowInv, TypeOK
  <2>2. events = <<>> /\ lost = {} /\ \A w \in Workers : job[w] = NoPost
    BY <1>1, <2>1 DEF DrainInv
  <2>3. DOMAIN events = {}
    BY <2>2, EmptySeq
  <2>4. p # NoPost
    BY PipelineAssumption DEF Accepted
  <2>5. p \in applied \/ \E w \in Workers : held[w] = p
    BY <1>1, <2>2, <2>3, <2>4 DEF DrainInv, FlowInv, Somewhere, Gone
  <2>6. ASSUME NEW w \in Workers, held[w] = p
        PROVE  w \in signalled
    BY <1>1, <2>4, <2>6 DEF DrainInv
  <2> QED  BY <2>5, <2>6 DEF Stranded
<1>2. DrainInv => DrainedAtExit
  BY <1>1 DEF DrainedAtExit
<1> QED  BY <1>2, DrainInit, DrainStep, PTL DEF Spec

-----------------------------------------------------------------------------
(* The board, and Intake *)

BoardInv == FlowInv /\ BoardIsBest

\* The entry of one talent after one more of its events is applied.
LEMMA ProcessKeepsBest ==
  ASSUME BoardInv, NEW w \in Workers, Process(w)
  PROVE  BoardIsBest'
<1> DEFINE p == job[w]
           t == TalentOf[p]
<1>1. /\ p \in Posts /\ t \in Talents /\ ScoreOf \in [Posts -> Int]
      /\ applied \subseteq Posts /\ applied' = applied \cup {p}
      /\ best \in [Talents -> Posts \cup {NoPost}] /\ NoPost \notin Posts
  BY PipelineAssumption DEF BoardInv, FlowInv, TypeOK, Process
<1>2. best' = IF Improves(p) THEN [best EXCEPT ![t] = p] ELSE best
  BY DEF Process
<1> HIDE DEF p, t
<1> SUFFICES ASSUME NEW u \in Talents
             PROVE  LET mine == {q \in applied' : TalentOf[q] = u}
                    IN  IF mine = {} THEN best'[u] = NoPost
                        ELSE /\ best'[u] \in mine
                             /\ \A q \in mine : ScoreOf[q] <= ScoreOf[best'[u]]
  BY DEF BoardIsBest
<1> DEFINE old == {q \in applied : TalentOf[q] = u}
<1>3. IF old = {} THEN best[u] = NoPost
      ELSE best[u] \in old /\ \A q \in old : ScoreOf[q] <= ScoreOf[best[u]]
  BY DEF BoardInv, BoardIsBest
<1>4. CASE u # t
  <2>1. best'[u] = best[u]
    BY <1>1, <1>2, <1>4
  <2>2. {q \in applied' : TalentOf[q] = u} = old
    BY <1>1, <1>4 DEF t
  <2> QED  BY <1>3, <2>1, <2>2
<1>5. CASE u = t
  <2>1. {q \in applied' : TalentOf[q] = u} = old \cup {p}
    BY <1>1, <1>5 DEF t
  <2>2. Improves(p) <=> best[u] = NoPost \/ ScoreOf[best[u]] < ScoreOf[p]
    BY <1>5 DEF Improves, t
  <2>3. CASE Improves(p)
    <3>1. best'[u] = p
      BY <1>1, <1>2, <1>5, <2>3
    <3>2. \A q \in old : ScoreOf[q] <= ScoreOf[p]
      BY <1>1, <1>3, <2>2, <2>3
    <3> QED  BY <1>1, <2>1, <3>1, <3>2
  <2>4. CASE ~Improves(p)
    <3>1. best'[u] = best[u] /\ best[u] # NoPost /\ ~(ScoreOf[best[u]] < ScoreOf[p])
      BY <1>2, <2>2, <2>4
    <3>2. best[u] \in old
      BY <1>3, <3>1
    <3> QED  BY <1>1, <1>3, <2>1, <3>1, <3>2
  <2> QED  BY <2>3, <2>4
<1> QED  BY <1>4, <1>5

\* A step is a Process or leaves the store and the set of applied events alone.
LEMMA OnlyProcessApplies ==
  ASSUME [Next]_vars
  PROVE  \/ UNCHANGED <<best, applied>>
         \/ \E w \in Workers : Process(w)
<1>1. ASSUME NEW p \in Posts, Handler(p)
      PROVE  UNCHANGED <<best, applied>>
  BY <1>1 DEF Handler, BadRequest, Duplicate, Record, Enqueue, EnqueueFails, Rollback, board
<1>2. ASSUME NEW w \in Workers, Forwarder(w) \/ Loop(w) \/ ShutdownWorker(w), ~Process(w)
      PROVE  UNCHANGED <<best, applied>>
  BY <1>2 DEF Forwarder, Loop, Forward, ForwarderQuits, ForwarderEnds, Receive,
              WorkerExits, ScoreFails, ShutdownWorker, board
<1>3. Cancel \/ CloseQueue \/ UNCHANGED vars => UNCHANGED <<best, applied>>
  BY DEF Cancel, CloseQueue, vars, board
<1> QED  BY <1>1, <1>2, <1>3 DEF Next

LEMMA BoardInit == Init => BoardInv
<1>1. Init => BoardIsBest
  BY DEF Init, BoardIsBest
<1> QED  BY <1>1, FlowInit DEF BoardInv

LEMMA BoardStep ==
  ASSUME BoardInv, [Next]_vars
  PROVE  BoardInv'
<1>1. FlowInv'
  BY FlowStep DEF BoardInv
<1>2. UNCHANGED <<best, applied>> => BoardIsBest'
  BY DEF BoardInv, BoardIsBest
<1> QED  BY <1>1, <1>2, OnlyProcessApplies, ProcessKeepsBest DEF BoardInv

\* Whatever the workers' interleaving, a talent's entry is a best one among
\* the events applied for it.
THEOREM BestScoreWins == Spec => []BoardIsBest
<1>1. BoardInv => BoardIsBest
  BY DEF BoardInv
<1> QED  BY <1>1, BoardInit, BoardStep, PTL DEF Spec

\* Every step of the pipeline is a step of Intake or leaves it as it is.
LEMMA IntakeStep ==
  ASSUME IdsFit, BoardInv, BoardInv', DedupeInv, DedupeInv', [Next]_vars
  PROVE  [Abstract!Next]_Abstract!intake
<1>1. CASE \E p \in Posts : Enqueue(p)
  <2>1. PICK p \in Posts : Enqueue(p)
    BY <1>1
  <2>2. /\ Accepted' = Accepted \cup {p} /\ p \notin Accepted
        /\ UNCHANGED <<applied, best>>
    BY <2>1 DEF Enqueue, Goto, Accepted, board, DedupeInv, TypeOK
  <2>3. \A q \in Accepted : IdOf[q] # IdOf[p]
    <3>1. p \in Accepted \cup Pending
      BY <2>1 DEF Enqueue, Pending
    <3> QED  BY <2>2, <3>1 DEF DedupeInv, AtMostOnce
  <2>4. Top' = Top
    BY <2>2 DEF Top
  <2> QED  BY <2>2, <2>3, <2>4 DEF Abstract!Next, Abstract!Accept
<1>2. CASE \E w \in Workers : Process(w)
  <2>1. PICK w \in Workers : Process(w)
    BY <1>2
  <2>2. /\ applied' = applied \cup {job[w]} /\ Accepted' = Accepted
        /\ job[w] \in Posts /\ job[w] # NoPost
    BY <2>1 DEF Process, handlers, Accepted, BoardInv, FlowInv, TypeOK
  <2>3. job[w] \in Accepted \ applied
    BY <2>2 DEF BoardInv, FlowInv, WorkApart, Gone
  <2>4. /\ best' \in [Talents -> Posts \cup {NoPost}] /\ applied' \subseteq Posts
        /\ ScoreOf \in [Posts -> Int] /\ NoPost \notin Posts
    BY PipelineAssumption DEF BoardInv, FlowInv, TypeOK
  <2>5. Top' \in [Talents -> Int \cup {NoScore}]
    BY <2>4 DEF Top
  <2>6. ASSUME NEW t \in Talents
        PROVE  Abstract!IsTop(Top'[t], applied', t)
    <3> DEFINE mine == {q \in applied' : TalentOf[q] = t}
    <3>1. IF mine = {} THEN best'[t] = NoPost
          ELSE best'[t] \in mine /\ \A q \in mine : ScoreOf[q] <= ScoreOf[best'[t]]
      BY DEF BoardInv, BoardIsBest
    <3>2. Top'[t] = IF best'[t] = NoPost THEN NoScore ELSE ScoreOf[best'[t]]
      BY DEF Top
    <3>3. CASE mine = {}
      BY <3>1, <3>2, <3>3 DEF Abstract!IsTop
    <3>4. CASE mine # {}
      BY <2>4, <3>1, <3>2, <3>4 DEF Abstract!IsTop
    <3> QED  BY <3>3, <3>4
  <2> QED  BY <2>2, <2>3, <2>5, <2>6 DEF Abstract!Next, Abstract!Apply
<1>3. CASE ~(\E p \in Posts : Enqueue(p)) /\ ~(\E w \in Workers : Process(w))
  <2>1. UNCHANGED <<best, applied>>
    BY <1>3, OnlyProcessApplies
  <2>2. ASSUME NEW p \in Posts, Handler(p) PROVE Accepted' = Accepted
    BY <1>3, <2>2 DEF Handler, BadRequest, Duplicate, Record, EnqueueFails, Rollback,
                      Goto, Accepted, DedupeInv, TypeOK
  <2>3. ASSUME NEW w \in Workers, Forwarder(w) \/ Loop(w) \/ ShutdownWorker(w)
        PROVE  Accepted' = Accepted
    BY <2>3 DEF Forwarder, Loop, Forward, ForwarderQuits, ForwarderEnds, Receive,
                WorkerExits, Process, ScoreFails, ShutdownWorker, handlers, Accepted
  <2>4. Cancel \/ CloseQueue \/ UNCHANGED vars => Accepted' = Accepted
    BY DEF Cancel, CloseQueue, vars, handlers, Accepted
  <2>5. Accepted' = Accepted
    BY <2>2, <2>3, <2>4 DEF Next
  <2> QED  BY <2>1, <2>5 DEF Abstract!intake, Top
<1> QED  BY <1>1, <1>2, <1>3

\* The pipeline implements Intake: accepted once, applied at most once, the
\* highest applied score on top; for every instance in which the ids fit.
THEOREM PipelineImplementsIntake ==
  ASSUME IdsFit
  PROVE  Spec => IntakeSpec
<1>1. Init => Abstract!Init
  BY DEF Init, Abstract!Init, Accepted, Top
<1>2. Init => DedupeInv
  BY TypeInit DEF Init, DedupeInv, AtMostOnce, RecordInForce, Accepted, Pending
<1>3. DedupeInv /\ [Next]_vars => DedupeInv'
  BY DedupeStep
<1>4. BoardInv /\ [Next]_vars => BoardInv'
  BY BoardStep
<1>5. DedupeInv /\ DedupeInv' /\ BoardInv /\ BoardInv' /\ [Next]_vars
        => [Abstract!Next]_Abstract!intake
  BY IntakeStep
<1> QED  BY <1>1, <1>2, <1>3, <1>4, <1>5, BoardInit, PTL
         DEF Spec, IntakeSpec, Abstract!Spec

-----------------------------------------------------------------------------
(* Scores *)

\* Every skill has a positive weight, whatever the configuration says.
LEMMA WeightPositive ==
  ASSUME NEW skill
  PROVE  Weight(skill) \in Int /\ Weight(skill) > 0
<1>1. defaultWeight \in Int /\ defaultWeight > 0
  BY ScoringAssumption DEF defaultWeight, defaultSkillWeight
<1>2. ASSUME skill \in DOMAIN skillWeights
      PROVE  skillWeights[skill] \in Int /\ skillWeights[skill] > 0
  BY <1>2, ScoringAssumption DEF skillWeights
<1> QED  BY <1>1, <1>2 DEF Weight

\* A score lies between 0 and 100, the range the fixed-point conversion of the
\* store represents without saturating.
THEOREM ScoreInRange ==
  ASSUME NEW raw \in Int, NEW skill
  PROVE  Score(raw, skill) \in 0..maxScoreValue
<1>1. raw * Weight(skill) \in Int
  BY WeightPositive
<1> QED  BY <1>1 DEF Score, Clamp, maxScoreValue

\* Within a skill a higher metric never scores lower: the order in which the
\* store ranks events of one skill is that of their metrics.
THEOREM ScoreMonotone ==
  ASSUME NEW a \in Int, NEW b \in Int, NEW skill, a <= b
  PROVE  Score(a, skill) <= Score(b, skill)
<1>1. PICK n \in Int : n > 0 /\ n = Weight(skill)
  BY WeightPositive
<1>2. a * n <= b * n
  BY <1>1
<1>3. a * n \in Int /\ b * n \in Int
  BY <1>1
<1>4. Clamp(a * n) <= Clamp(b * n)
  <2> DEFINE x == a * n
             y == b * n
  <2>1. x \in Int /\ y \in Int /\ x <= y
    BY <1>2, <1>3
  <2> HIDE DEF x, y
  <2>2. Clamp(x) <= Clamp(y)
    BY <2>1 DEF Clamp, maxScoreValue
  <2> QED  BY <2>2 DEF x, y
<1> QED  BY <1>1, <1>4 DEF Score
=============================================================================
