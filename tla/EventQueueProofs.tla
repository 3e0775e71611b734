-------------------------- MODULE EventQueueProofs --------------------------
(***************************************************************************)
(* The read lock of Enqueue keeps sends away from Close and the queue near *)
(* its capacity, and its steps amount to one; for every capacity and       *)
(* buffer, any calls and any consumers.                                    *)
(***************************************************************************)
EXTENDS EventQueue, FiniteSetTheorems, SequenceTheorems, TLAPS

USE EventQueueAssumption

\* OvershootBounded counts the calls that have passed the check and not sent
\* yet, so it must know that they are finitely many, and at most Parallel; that
\* none of them exists once the queue is closed makes Close safe.
QueueInv ==
  /\ TypeOK
  /\ IsFiniteSet(Sending) /\ Cardinality(Sending) <= Parallel
  /\ OvershootBounded
  /\ NoSendOnClosed

LEMMA QueueInit == Init => QueueInv
<1> SUFFICES ASSUME Init PROVE QueueInv
  OBVIOUS
<1>1. Sending = {}
  BY DEF Init, Sending
<1>2. IsFiniteSet(Sending) /\ Cardinality(Sending) = 0
  BY <1>1, FS_EmptySet
<1>3. <<>> \in Seq(Calls) /\ Len(<<>>) = 0
  BY EmptySeq
<1>4. TypeOK
  <2>1. order \in Seq(Calls) /\ events \in Seq(Calls) /\ Len(events) <= BufferSize
    BY <1>3 DEF Init
  <2>2. got \in [Consumers -> Seq(Calls)]
    BY <1>3 DEF Init
  <2>3. held \in [Consumers -> Calls \cup {NoEvent}]
    BY DEF Init
  <2> QED  BY <2>1, <2>2, <2>3 DEF Init, TypeOK
<1>5. OvershootBounded
  <2>1. Len(events) + Cardinality(Sending) = 0
    BY <1>2, <1>3 DEF Init
  <2> QED  BY <2>1 DEF OvershootBounded
<1> QED  BY <1>1, <1>2, <1>4, <1>5 DEF QueueInv, NoSendOnClosed

\* A call that goes from one place to another changes Sending by itself at most.
LEMMA GotoSending ==
  ASSUME TypeOK, NEW c \in Calls, NEW where, Goto(c, where)
  PROVE  /\ call'[c] = where /\ \A d \in Calls : d # c => call'[d] = call[d]
         /\ Sending' = IF where = "sending" THEN Sending \cup {c} ELSE Sending \ {c}
<1>1. call'[c] = where /\ \A d \in Calls : d # c => call'[d] = call[d]
  BY DEF Goto, TypeOK
<1> QED  BY <1>1 DEF Sending

LEMMA QueueEnqueue ==
  ASSUME QueueInv, NEW c \in Calls, Enqueue(c)
  PROVE  QueueInv'
<1> USE DEF QueueInv, TypeOK, consuming
<1>1. /\ Len(events) \in Nat /\ Cardinality(Sending) \in Nat
      /\ Capacity \in Nat /\ Parallel \in Nat /\ BufferSize \in Nat
  BY FS_CardinalityType, LenProperties
<1>2. CASE CheckFails(c)
  <2>1. Sending' = Sending
    BY <1>2, GotoSending DEF CheckFails, Sending
  <2>2. TypeOK'
    BY <1>2 DEF CheckFails, Goto
  <2> QED  BY <1>2, <2>1, <2>2 DEF CheckFails, OvershootBounded, NoSendOnClosed
<1>3. CASE CheckPasses(c)
  <2>1. Sending' = Sending \cup {c} /\ c \notin Sending
    BY <1>3, GotoSending DEF CheckPasses, Sending
  <2>2. IsFiniteSet(Sending') /\ Cardinality(Sending') = Cardinality(Sending) + 1
    BY <2>1, FS_AddElement
  <2>3. Len(events) < Capacity /\ Cardinality(Sending) < Parallel /\ events' = events
    BY <1>1, <1>3 DEF CheckPasses, AtCapacity
  <2>4. TypeOK'
    BY <1>3 DEF CheckPasses, Goto
  <2>5. OvershootBounded' /\ Cardinality(Sending') <= Parallel
    BY <1>1, <2>2, <2>3 DEF OvershootBounded
  <2>6. NoSendOnClosed'
    BY <1>3 DEF CheckPasses, NoSendOnClosed
  <2> QED  BY <2>2, <2>4, <2>5, <2>6
<1>4. CASE Send(c)
  <2>1. Sending' = Sending \ {c} /\ c \in Sending
    BY <1>4, GotoSending DEF Send, Sending
  <2>2. IsFiniteSet(Sending') /\ Cardinality(Sending') = Cardinality(Sending) - 1
    BY <2>1, FS_RemoveElement
  <2>3. events' \in Seq(Calls) /\ Len(events') = Len(events) + 1 /\ order' \in Seq(Calls)
    BY <1>4, AppendProperties DEF Send
  <2>4. TypeOK'
    BY <1>1, <1>4, <2>3 DEF Send, Goto
  <2>5. OvershootBounded' /\ Cardinality(Sending') <= Parallel
    BY <1>1, <2>2, <2>3 DEF OvershootBounded
  <2>6. NoSendOnClosed'
    BY <1>4, <2>1 DEF Send, NoSendOnClosed
  <2> QED  BY <2>2, <2>4, <2>5, <2>6
<1>5. CASE SendFails(c)
  <2>1. Sending' = Sending \ {c} /\ c \in Sending
    BY <1>5, GotoSending DEF SendFails, Sending
  <2>2. IsFiniteSet(Sending') /\ Cardinality(Sending') = Cardinality(Sending) - 1
    BY <2>1, FS_RemoveElement
  <2>3. TypeOK'
    BY <1>5 DEF SendFails, Goto
  <2>4. OvershootBounded' /\ Cardinality(Sending') <= Parallel
    BY <1>1, <1>5, <2>2 DEF SendFails, OvershootBounded
  <2>5. NoSendOnClosed'
    BY <1>5, <2>1 DEF SendFails, NoSendOnClosed
  <2> QED  BY <2>2, <2>3, <2>4, <2>5
<1> QED  BY <1>2, <1>3, <1>4, <1>5 DEF Enqueue

\* Consumers only take events away.
LEMMA QueueDequeue ==
  ASSUME QueueInv, NEW w \in Consumers, Dequeue(w)
  PROVE  QueueInv'
<1> USE DEF QueueInv, TypeOK, producing
<1>1. /\ Len(events) \in Nat /\ Cardinality(Sending) \in Nat
      /\ Capacity \in Nat /\ Parallel \in Nat /\ BufferSize \in Nat
  BY FS_CardinalityType, LenProperties
<1>2. Sending' = Sending /\ lock' = lock
  BY DEF Dequeue, Forward, HandOver, GiveUp, EndOfQueue, Sending
<1>3. NoSendOnClosed'
  BY <1>2 DEF NoSendOnClosed
<1>4. CASE Forward(w)
  <2>1. /\ Head(events) \in Calls /\ events' \in Seq(Calls) /\ Len(events') = Len(events) - 1
    BY <1>4, HeadTailProperties DEF Forward
  <2>2. TypeOK'
    BY <1>1, <1>4, <2>1 DEF Forward
  <2>3. OvershootBounded'
    BY <1>1, <1>2, <2>1 DEF OvershootBounded
  <2> QED  BY <1>2, <1>3, <2>2, <2>3
<1>5. CASE HandOver(w)
  <2>1. held[w] \in Calls
    BY <1>5 DEF HandOver
  <2>2. Append(got[w], held[w]) \in Seq(Calls)
    BY <2>1, AppendProperties
  <2>3. got' \in [Consumers -> Seq(Calls)]
    BY <1>5, <2>2 DEF HandOver
  <2>4. TypeOK'
    BY <1>5, <2>3 DEF HandOver
  <2> QED  BY <1>2, <1>3, <1>5, <2>4 DEF HandOver, OvershootBounded
<1>6. CASE GiveUp(w) \/ EndOfQueue(w)
  BY <1>2, <1>3, <1>6 DEF GiveUp, EndOfQueue, OvershootBounded
<1> QED  BY <1>4, <1>5, <1>6 DEF Dequeue

LEMMA QueueStep == QueueInv /\ [Next]_vars => QueueInv'
<1> SUFFICES ASSUME QueueInv, [Next]_vars PROVE QueueInv'
  OBVIOUS
<1> USE DEF QueueInv, TypeOK, OvershootBounded, NoSendOnClosed, Sending
<1>1. CASE CloseCalled
  BY <1>1 DEF CloseCalled, producing, consuming
<1>2. CASE CloseGranted
  BY <1>2 DEF CloseGranted, producing, consuming
<1>3. CASE Cancel
  BY <1>3 DEF Cancel, producing, consuming
<1>4. CASE UNCHANGED vars
  BY <1>4 DEF vars, producing, consuming
<1> QED  BY <1>1, <1>2, <1>3, <1>4, QueueEnqueue, QueueDequeue DEF Next

\* The inductive invariant behind the next two: Enqueue holds the read lock from
\* its checks to its send.
THEOREM QueueInvariant == Spec => []QueueInv
<1> QED  BY QueueInit, QueueStep, PTL DEF Spec

\* Enqueue never sends on a closed channel.
THEOREM SendsBeforeClose == Spec => []NoSendOnClosed
<1>1. QueueInv => NoSendOnClosed
  BY DEF QueueInv
<1> QED  BY <1>1, QueueInvariant, PTL

\* The queue exceeds its capacity by less than the number of its producers.
THEOREM OvershootIsBounded == Spec => []OvershootBounded
<1>1. QueueInv => OvershootBounded
  BY DEF QueueInv
<1> QED  BY <1>1, QueueInvariant, PTL

-----------------------------------------------------------------------------
(* Refinement *)

LEMMA AtomicEnqueue ==
  ASSUME QueueInv, NEW c \in Calls, Enqueue(c)
  PROVE  [Atomic!Next]_Atomic!slots
<1> USE DEF QueueInv
<1>1. /\ Answer \in [Calls -> {"none", "accepted", "refused"}]
      /\ call[c] \in {"idle", "sending"} => Answer[c] = "none"
  BY DEF Answer, TypeOK
<1>2. ASSUME NEW where \in {"accepted", "refused"}, Goto(c, where)
      PROVE  Answer' = [Answer EXCEPT ![c] = where]
  <2>1. call'[c] = where /\ \A d \in Calls : d # c => call'[d] = call[d]
    BY <1>2, GotoSending
  <2>2. Answer'[c] = where /\ \A d \in Calls : d # c => Answer'[d] = Answer[d]
    BY <2>1 DEF Answer
  <2>3. Answer' = [d \in Calls |-> Answer'[d]] /\ DOMAIN Answer = Calls
    BY DEF Answer
  <2> QED  BY <2>2, <2>3
<1>3. CASE CheckFails(c)
  <2>1. Answer[c] = "none" /\ Answer' = [Answer EXCEPT ![c] = "refused"]
    BY <1>1, <1>2, <1>3 DEF CheckFails
  <2>2. lock = "closed" \/ Len(events) >= Capacity
    BY <1>3 DEF CheckFails, AtCapacity
  <2>3. UNCHANGED <<events, lock>>
    BY <1>3 DEF CheckFails
  <2> QED  BY <2>1, <2>2, <2>3 DEF Atomic!Next, Atomic!Refuse
<1>4. CASE CheckPasses(c)
  <2>1. Answer' = Answer
    BY <1>4, GotoSending DEF CheckPasses, Answer
  <2> QED  BY <1>4, <2>1 DEF CheckPasses, Atomic!slots
<1>5. CASE Send(c)
  <2>1. Answer[c] = "none" /\ Answer' = [Answer EXCEPT ![c] = "accepted"]
    BY <1>1, <1>2, <1>5 DEF Send
  <2>2. lock # "closed"
    BY <1>5 DEF Send, NoSendOnClosed, Sending
  <2>3. Len(events) < BufferSize /\ events' = Append(events, c) /\ lock' = lock
    BY <1>5 DEF Send
  <2> QED  BY <2>1, <2>2, <2>3 DEF Atomic!Next, Atomic!Accept
<1>6. CASE SendFails(c)
  <2>1. Answer[c] = "none" /\ Answer' = [Answer EXCEPT ![c] = "refused"]
    BY <1>1, <1>2, <1>6 DEF SendFails
  <2>2. c \in Impatient \/ Len(events) >= BufferSize
    BY <1>6 DEF SendFails
  <2>3. UNCHANGED <<events, lock>>
    BY <1>6 DEF SendFails
  <2> QED  BY <2>1, <2>2, <2>3 DEF Atomic!Next, Atomic!Refuse
<1> QED  BY <1>3, <1>4, <1>5, <1>6 DEF Enqueue

LEMMA AtomicStep ==
  ASSUME QueueInv, [Next]_vars
  PROVE  [Atomic!Next]_Atomic!slots
<1>1. CASE \E w \in Consumers : Forward(w)
  <2>1. events # <<>> /\ events' = Tail(events) /\ UNCHANGED <<call, lock>>
    BY <1>1 DEF Forward, producing
  <2>2. Answer' = Answer
    BY <2>1 DEF Answer
  <2> QED  BY <2>1, <2>2 DEF Atomic!Next, Atomic!Receive
<1>2. CASE CloseGranted
  <2>1. lock' = "closed" /\ UNCHANGED <<call, events>>
    BY <1>2 DEF CloseGranted, producing
  <2>2. Answer' = Answer
    BY <2>1 DEF Answer
  <2> QED  BY <2>1, <2>2 DEF Atomic!Next, Atomic!Shut
<1>3. CASE CloseCalled
  <2>1. lock # "closed" /\ lock' # "closed" /\ UNCHANGED <<call, events>>
    BY <1>3 DEF CloseCalled, producing
  <2> QED  BY <2>1 DEF Answer, Atomic!slots
<1>4. CASE Cancel \/ UNCHANGED vars
  <2>1. UNCHANGED <<call, events, lock>>
    BY <1>4 DEF Cancel, vars, producing
  <2> QED  BY <2>1 DEF Answer, Atomic!slots
<1>5. CASE \E w \in Consumers : HandOver(w) \/ GiveUp(w) \/ EndOfQueue(w)
  <2>1. UNCHANGED <<call, events, lock>>
    BY <1>5 DEF HandOver, GiveUp, EndOfQueue, producing
  <2> QED  BY <2>1 DEF Answer, Atomic!slots
<1> QED  BY <1>1, <1>2, <1>3, <1>4, <1>5, AtomicEnqueue DEF Next, Dequeue

\* The checks, the send and Close under their lock amount to the atomic queue
\* that Pipeline uses.
THEOREM QueueImplementsAtomicQueue == Spec => AtomicSpec
<1>1. Init => Atomic!Init
  BY DEF Init, Atomic!Init, Answer
<1>2. QueueInv /\ [Next]_vars => [Atomic!Next]_Atomic!slots
  BY AtomicStep
<1> QED  BY <1>1, <1>2, QueueInit, QueueStep, PTL DEF Spec, AtomicSpec, Atomic!Spec

-----------------------------------------------------------------------------
(* The order of events *)

\* The number of events the forwarders have taken from the channel.
Taken == Len(order) - Len(events)

\* e is one of the first n of the sequence o.
Among(o, n, e) == \E k \in 1..n : o[k] = e

\* e comes before f in the sequence o.
Earlier(o, e, f) == \E j, k \in DOMAIN o : j < k /\ o[j] = e /\ o[k] = f

\* Nothing is accepted twice, and the channel holds the end of the order.
ChannelInv ==
  /\ \A i, j \in DOMAIN order : order[i] = order[j] => i = j
  /\ \A i \in DOMAIN order : call[order[i]] = "accepted"
  /\ Len(events) <= Len(order)
  /\ \A i \in DOMAIN events : events[i] = order[Taken + i]

\* What a consumer has received is in order and before what its forwarder holds ...
OwnOrder ==
  \A w \in Consumers :
    /\ held[w] # NoEvent =>
         Among(order, Taken, held[w]) /\ \A i \in DOMAIN got[w] : Earlier(order, got[w][i], held[w])
    /\ \A i \in DOMAIN got[w] : Among(order, Taken, got[w][i])
    /\ \A i, j \in DOMAIN got[w] : i < j => Earlier(order, got[w][i], got[w][j])

\* ... and no other consumer has it or will get it.
Disjoint ==
  \A v, w \in Consumers : v # w =>
    /\ held[v] # NoEvent => held[v] # held[w] /\ \A j \in DOMAIN got[w] : held[v] # got[w][j]
    /\ \A i \in DOMAIN got[v], j \in DOMAIN got[w] : got[v][i] # got[w][j]

\* EachInOrder alone says nothing of events that are still to be received.
OrderInv == ChannelInv /\ OwnOrder /\ Disjoint

LEMMA OrderInit == Init => OrderInv
<1> SUFFICES ASSUME Init PROVE OrderInv
  OBVIOUS
<1>1. order = <<>> /\ events = <<>> /\ Len(order) = 0 /\ Len(events) = 0
      /\ DOMAIN order = {} /\ DOMAIN events = {}
  BY DEF Init
<1>2. \A w \in Consumers : held[w] = NoEvent /\ got[w] = <<>> /\ DOMAIN got[w] = {}
  BY DEF Init
<1> QED  BY <1>1, <1>2 DEF OrderInv, ChannelInv, OwnOrder, Disjoint

\* The domains of the sequences, and that taken events have a place in the order.
LEMMA OrderFacts ==
  ASSUME TypeOK, ChannelInv
  PROVE  /\ DOMAIN order = 1..Len(order) /\ Len(order) \in Nat
         /\ DOMAIN events = 1..Len(events) /\ Len(events) \in Nat
         /\ Taken \in Nat /\ 1..Taken \subseteq DOMAIN order
         /\ \A w \in Consumers : DOMAIN got[w] = 1..Len(got[w]) /\ Len(got[w]) \in Nat
<1>1. /\ DOMAIN order = 1..Len(order) /\ Len(order) \in Nat
      /\ DOMAIN events = 1..Len(events) /\ Len(events) \in Nat
  BY LenProperties DEF TypeOK
<1>2. \A w \in Consumers : DOMAIN got[w] = 1..Len(got[w]) /\ Len(got[w]) \in Nat
  BY LenProperties DEF TypeOK
<1>3. Taken \in Nat /\ Taken <= Len(order)
  BY <1>1 DEF ChannelInv, Taken
<1> QED  BY <1>1, <1>2, <1>3

LEMMA OrderSend ==
  ASSUME TypeOK, OrderInv, NEW c \in Calls, Send(c)
  PROVE  OrderInv'
<1> DEFINE n == Len(order)
<1>1. /\ DOMAIN order = 1..n /\ n \in Nat
      /\ DOMAIN events = 1..Len(events) /\ Len(events) \in Nat
      /\ Taken \in Nat /\ 1..Taken \subseteq DOMAIN order
  BY OrderFacts DEF OrderInv
<1>2. /\ order' = Append(order, c) /\ events' = Append(events, c)
      /\ UNCHANGED <<held, got>>
      /\ call[c] = "sending" /\ call'[c] = "accepted"
      /\ \A d \in Calls : d # c => call'[d] = call[d]
  BY GotoSending DEF Send, consuming
<1>3. /\ Len(order') = n + 1 /\ DOMAIN order' = 1..(n + 1)
      /\ order'[n + 1] = c /\ \A i \in 1..n : order'[i] = order[i]
  BY <1>2, AppendProperties, LenProperties DEF TypeOK
<1>4. /\ Len(events') = Len(events) + 1 /\ DOMAIN events' = 1..(Len(events) + 1)
      /\ events'[Len(events) + 1] = c
      /\ \A i \in 1..Len(events) : events'[i] = events[i]
  BY <1>2, AppendProperties, LenProperties DEF TypeOK
<1>5. Taken' = Taken
  BY <1>1, <1>3, <1>4 DEF Taken
<1>6. \A i \in 1..n : order[i] # c /\ order[i] \in Calls
  BY <1>1, <1>2, ElementOfSeq DEF OrderInv, ChannelInv, TypeOK
<1>7. ChannelInv'
  <2>1. \A i, j \in DOMAIN order' : order'[i] = order'[j] => i = j
    BY <1>1, <1>3, <1>6 DEF OrderInv, ChannelInv
  <2>2. \A i \in DOMAIN order' : call'[order'[i]] = "accepted"
    BY <1>1, <1>2, <1>3, <1>6 DEF OrderInv, ChannelInv
  <2>3. Taken + Len(events) = n /\ Len(events) <= n
    BY <1>1 DEF OrderInv, ChannelInv, Taken
  <2>4. ASSUME NEW i \in DOMAIN events'
        PROVE  events'[i] = order'[Taken + i]
    <3>1. CASE i \in 1..Len(events)
      <4>1. Taken + i \in 1..n
        BY <1>1, <2>3, <3>1
      <4> QED  BY <1>1, <1>3, <1>4, <3>1, <4>1 DEF OrderInv, ChannelInv
    <3>2. CASE i = Len(events) + 1
      BY <1>1, <1>3, <1>4, <2>3, <3>2
    <3> QED  BY <1>1, <1>4, <3>1, <3>2
  <2> QED  BY <1>1, <1>3, <1>4, <1>5, <2>1, <2>2, <2>3, <2>4 DEF ChannelInv
<1>8. \A e : Among(order, Taken, e) => Among(order', Taken', e)
  BY <1>1, <1>3, <1>5 DEF Among
<1>9. \A e, f : Earlier(order, e, f) => Earlier(order', e, f)
  BY <1>1, <1>3 DEF Earlier
<1> QED  BY <1>2, <1>7, <1>8, <1>9 DEF OrderInv, OwnOrder, Disjoint

\* The forwarder takes the first event of the channel, which is accepted later
\* than every event taken before.
LEMMA OrderForward ==
  ASSUME TypeOK, OrderInv, NEW w \in Consumers, Forward(w)
  PROVE  OrderInv'
<1> DEFINE n == Len(order)
           e == Head(events)
<1>1. /\ DOMAIN order = 1..n /\ n \in Nat
      /\ DOMAIN events = 1..Len(events) /\ Len(events) \in Nat
      /\ Taken \in Nat /\ 1..Taken \subseteq DOMAIN order
  BY OrderFacts DEF OrderInv
<1>2. /\ events # <<>> /\ events' = Tail(events) /\ held[w] = NoEvent
      /\ held' = [held EXCEPT ![w] = e] /\ UNCHANGED <<call, order, got>>
  BY DEF Forward, producing
<1>3. /\ e = events[1] /\ Len(events) >= 1 /\ Len(events') = Len(events) - 1
      /\ DOMAIN events' = 1..(Len(events) - 1)
      /\ \A i \in 1..(Len(events) - 1) : events'[i] = events[i + 1]
  <2>1. events \in Seq(Calls)
    BY DEF TypeOK
  <2>2. Len(events) >= 1
    BY <1>1, <1>2, <2>1, EmptySeq
  <2> QED  BY <1>1, <1>2, <2>1, <2>2, HeadTailProperties, LenProperties
<1>4. Taken' = Taken + 1 /\ Taken + 1 <= n
  BY <1>1, <1>2, <1>3 DEF Taken, OrderInv, ChannelInv
<1>5. e = order[Taken + 1] /\ Taken + 1 \in DOMAIN order
  BY <1>1, <1>3, <1>4 DEF OrderInv, ChannelInv
<1>6. \A f : Among(order, Taken, f) =>
               Among(order', Taken', f) /\ f # e /\ Earlier(order, f, e)
  <2> SUFFICES ASSUME NEW f, Among(order, Taken, f)
               PROVE  Among(order', Taken', f) /\ f # e /\ Earlier(order, f, e)
    OBVIOUS
  <2>1. PICK i \in 1..Taken : f = order[i]
    BY DEF Among
  <2>2. i \in DOMAIN order /\ i < Taken + 1 /\ i \in 1..(Taken + 1)
    BY <1>1, <2>1
  <2>3. f # e
    BY <1>5, <2>1, <2>2 DEF OrderInv, ChannelInv
  <2>4. Earlier(order, f, e)
    BY <1>5, <2>1, <2>2 DEF Earlier
  <2>5. Among(order', Taken', f)
    BY <1>2, <1>4, <2>1, <2>2 DEF Among
  <2> QED  BY <2>3, <2>4, <2>5
<1>7. Among(order', Taken', e)
  BY <1>1, <1>2, <1>4, <1>5 DEF Among
<1>8. order' = order
  BY <1>2
<1>9. held'[w] = e /\ \A v \in Consumers : v # w => held'[v] = held[v]
  BY <1>2 DEF TypeOK
<1>10. ChannelInv'
  <2>1. ASSUME NEW i \in DOMAIN events'
        PROVE  events'[i] = order[Taken + 1 + i]
    <3>1. i + 1 \in DOMAIN events /\ events'[i] = events[i + 1]
      BY <1>1, <1>3
    <3>2. events[i + 1] = order[Taken + (i + 1)]
      BY <3>1 DEF OrderInv, ChannelInv
    <3>3. i \in Int
      BY <1>3
    <3>4. Taken + (i + 1) = Taken + 1 + i
      BY <1>1, <3>3
    <3> QED  BY <3>1, <3>2, <3>4
  <2> QED  BY <1>1, <1>2, <1>3, <1>4, <2>1 DEF OrderInv, ChannelInv
<1>11. OwnOrder'
  BY <1>2, <1>6, <1>7, <1>8, <1>9 DEF OrderInv, OwnOrder
<1>12. Disjoint'
  BY <1>2, <1>6, <1>9 DEF OrderInv, OwnOrder, Disjoint
<1> QED  BY <1>10, <1>11, <1>12 DEF OrderInv

LEMMA OrderHandOver ==
  ASSUME TypeOK, OrderInv, NEW w \in Consumers, HandOver(w)
  PROVE  OrderInv'
<1> DEFINE n == Len(got[w])
<1>1. n \in Nat /\ DOMAIN got[w] = 1..n
  BY OrderFacts DEF OrderInv
<1>2. /\ held[w] # NoEvent /\ held' = [held EXCEPT ![w] = NoEvent]
      /\ got' = [got EXCEPT ![w] = Append(got[w], held[w])]
      /\ UNCHANGED <<call, order, events>>
  BY DEF HandOver, producing
<1>3. /\ held'[w] = NoEvent /\ \A v \in Consumers : v # w => held'[v] = held[v]
      /\ got'[w] = Append(got[w], held[w]) /\ \A v \in Consumers : v # w => got'[v] = got[v]
  BY <1>2 DEF TypeOK
<1>4. /\ DOMAIN got'[w] = 1..(n + 1) /\ got'[w][n + 1] = held[w]
      /\ \A i \in 1..n : got'[w][i] = got[w][i]
  <2>1. got[w] \in Seq(Calls) /\ held[w] \in Calls
    BY <1>2 DEF TypeOK
  <2> QED  BY <1>3, <2>1, AppendProperties, LenProperties
<1>5. ChannelInv' /\ Taken' = Taken /\ order' = order
  BY <1>2 DEF OrderInv, ChannelInv, Taken
<1>6. \A i \in DOMAIN got'[w] : i \in DOMAIN got[w] \/ i = n + 1
  BY <1>1, <1>4
<1>7. OwnOrder'
  <2>1. \A i \in DOMAIN got'[w] : Among(order, Taken, got'[w][i])
    BY <1>1, <1>2, <1>4, <1>5, <1>6 DEF OrderInv, OwnOrder
  <2>2. \A i, j \in DOMAIN got'[w] : i < j => Earlier(order, got'[w][i], got'[w][j])
    <3> SUFFICES ASSUME NEW i \in 1..(n + 1), NEW j \in 1..(n + 1), i < j
                 PROVE  Earlier(order, got'[w][i], got'[w][j])
      BY <1>4, <1>5
    <3>1. i \in 1..n /\ got'[w][i] = got[w][i]
      BY <1>1, <1>4
    <3>2. CASE j = n + 1
      BY <1>1, <1>2, <1>4, <3>1, <3>2 DEF OrderInv, OwnOrder
    <3>3. CASE j \in 1..n
      BY <1>1, <1>4, <3>1, <3>3 DEF OrderInv, OwnOrder
    <3> QED  BY <1>1, <3>2, <3>3
  <2> QED  BY <1>3, <1>5, <2>1, <2>2 DEF OrderInv, OwnOrder
<1>8. Disjoint'
  <2>1. \A v \in Consumers : v # w =>
          \A i \in DOMAIN got[v], j \in DOMAIN got'[w] : got[v][i] # got'[w][j]
    BY <1>1, <1>2, <1>4, <1>6 DEF OrderInv, Disjoint
  <2>2. \A v \in Consumers : v # w /\ held[v] # NoEvent =>
          \A j \in DOMAIN got'[w] : held[v] # got'[w][j]
    BY <1>1, <1>2, <1>4, <1>6 DEF OrderInv, Disjoint
  <2> QED  BY <1>2, <1>3, <2>1, <2>2 DEF OrderInv, Disjoint
<1> QED  BY <1>5, <1>7, <1>8 DEF OrderInv

LEMMA OrderStep ==
  ASSUME TypeOK, OrderInv, [Next]_vars
  PROVE  OrderInv'
<1>1. CASE \E c \in Calls : CheckFails(c) \/ CheckPasses(c) \/ SendFails(c)
  <2>1. PICK c \in Calls : CheckFails(c) \/ CheckPasses(c) \/ SendFails(c)
    BY <1>1
  <2>2. /\ UNCHANGED <<order, events, held, got>> /\ call[c] # "accepted"
        /\ \E where : Goto(c, where)
    BY <2>1 DEF CheckFails, CheckPasses, SendFails, consuming
  <2>3. \A d \in Calls : call[d] = "accepted" => call'[d] = "accepted"
    BY <2>2, GotoSending
  <2>4. \A i \in DOMAIN order : order[i] \in Calls
    BY LenProperties, ElementOfSeq DEF TypeOK
  <2>5. ChannelInv'
    BY <2>2, <2>3, <2>4 DEF OrderInv, ChannelInv, Taken
  <2> QED  BY <2>2, <2>5 DEF OrderInv, OwnOrder, Disjoint, Taken
<1>2. CASE UNCHANGED <<call, order, events, held, got>>
  BY <1>2 DEF OrderInv, ChannelInv, OwnOrder, Disjoint, Taken
<1>3. \/ \E c \in Calls : CheckFails(c) \/ CheckPasses(c) \/ SendFails(c) \/ Send(c)
      \/ \E w \in Consumers : Forward(w) \/ HandOver(w)
      \/ UNCHANGED <<call, order, events, held, got>>
  BY DEF Next, Enqueue, Dequeue, GiveUp, EndOfQueue, CloseCalled, CloseGranted, Cancel, vars,
         producing, consuming
<1> QED  BY <1>1, <1>2, <1>3, OrderSend, OrderForward, OrderHandOver

\* However the forwarders take turns, each consumer receives in the order of
\* acceptance and nobody else receives the same event; for any calls, consumers,
\* capacity and buffer.
THEOREM ConsumersReceiveInOrder == Spec => []EachInOrder
<1>1. TypeOK /\ OrderInv => EachInOrder
  <2> SUFFICES ASSUME TypeOK, OrderInv PROVE EachInOrder
    OBVIOUS
  <2> DEFINE place(c) == CHOOSE i \in DOMAIN order : order[i] = c
  <2>1. \A i \in DOMAIN order : place(order[i]) = i
    BY DEF OrderInv, ChannelInv
  <2>2. ASSUME NEW e, NEW f, Earlier(order, e, f)
        PROVE  place(e) < place(f)
    <3>1. PICK j \in DOMAIN order, k \in DOMAIN order : j < k /\ order[j] = e /\ order[k] = f
      BY <2>2 DEF Earlier
    <3>2. place(e) = j /\ place(f) = k
      BY <2>1, <3>1
    <3> QED  BY <3>1, <3>2
  <2>3. \A w \in Consumers : \A i, j \in DOMAIN got[w] :
          i < j => place(got[w][i]) < place(got[w][j])
    BY <2>2 DEF OrderInv, OwnOrder
  <2> QED  BY <2>3 DEF EachInOrder, OrderInv, Disjoint
<1>2. Init => OrderInv
  BY OrderInit
<1>3. TypeOK /\ OrderInv /\ [Next]_vars => OrderInv'
  BY OrderStep
<1>4. QueueInv => TypeOK
  BY DEF QueueInv
<1> QED  BY <1>1, <1>2, <1>3, <1>4, QueueInvariant, PTL DEF Spec
=============================================================================
