----------------------------- MODULE EventQueue -----------------------------
(***************************************************************************)
(* InMemoryQueue step by step.  Enqueue checks and sends under mu.RLock,   *)
(* and the forwarder goroutines of Dequeue empty the channel meanwhile     *)
(* without any lock; Close takes mu.Lock, which waits for the readers and  *)
(* keeps new ones out while it waits.                                      *)
(*                                                                         *)
(* capacity, which is checked, and bufferSize, which the channel enforces, *)
(* are options of their own: New(WithCapacity(10)) leaves 100000 slots.    *)
(***************************************************************************)
EXTENDS Integers, Sequences, FiniteSets, SequencesExt

CONSTANTS
  Calls,       \* calls of Enqueue, each with an event of its own
  Impatient,   \* those whose context may be cancelled
  Parallel,    \* how many calls may be under way at once: the goroutines that enqueue
  Consumers,   \* calls of Dequeue, each with a goroutine that receives
  Capacity, BufferSize,
  NoEvent

ASSUME EventQueueAssumption ==
  /\ Impatient \subseteq Calls /\ NoEvent \notin Calls
  /\ Capacity \in Nat \ {0} /\ BufferSize \in Nat \ {0} /\ Parallel \in Nat \ {0}

VARIABLES
  call,        \* where each Enqueue is
  lock,        \* Close: "open" before it, "waiting" for mu.Lock, "closed" after it
  events,      \* the channel
  forwarding,  \* consumers whose forwarder is alive
  held,        \* what each forwarder has received and not handed over
  got,         \* history: what each consumer has received
  order,       \* history: the events accepted, in order
  ctxDone      \* the context of Dequeue is cancelled

producing == <<call, order>>
consuming == <<forwarding, held, got>>
vars == <<producing, lock, events, consuming, ctxDone>>

Init ==
  /\ call = [c \in Calls |-> "idle"] /\ order = <<>>
  /\ lock = "open" /\ events = <<>> /\ ctxDone = FALSE
  /\ forwarding = Consumers /\ held = [w \in Consumers |-> NoEvent]
  /\ got = [w \in Consumers |-> <<>>]

-----------------------------------------------------------------------------
(* Enqueue *)

\* Calls that hold mu.RLock and have passed both checks.
Sending == {c \in Calls : call[c] = "sending"}

Goto(c, where) == call' = [call EXCEPT ![c] = where]

\* Mutant of AtCapacity: one slot too many, counting from the call's own event.
OverCapacity == Len(events) > Capacity

AtCapacity == Len(events) >= Capacity

\* The queue is closed or at capacity.
CheckFails(c) ==
  /\ call[c] = "idle"
  /\ lock = "closed" \/ (lock = "open" /\ AtCapacity)
  /\ Goto(c, "refused")
  /\ UNCHANGED <<order, lock, events, consuming, ctxDone>>

CheckPasses(c) ==
  /\ call[c] = "idle" /\ Cardinality(Sending) < Parallel
  /\ lock = "open" /\ ~AtCapacity
  /\ Goto(c, "sending")
  /\ UNCHANGED <<order, lock, events, consuming, ctxDone>>

\* The select's send.
Send(c) ==
  /\ call[c] = "sending" /\ Len(events) < BufferSize
  /\ events' = Append(events, c)
  /\ order' = Append(order, c)
  /\ Goto(c, "accepted")
  /\ UNCHANGED <<lock, consuming, ctxDone>>

\* Mutant of SendFails: the select picks its default although there is room.
SendFailsAnyway(c) ==
  /\ call[c] = "sending"
  /\ Goto(c, "refused")
  /\ UNCHANGED <<order, lock, events, consuming, ctxDone>>

\* The select's other cases: the context is done, or the channel is full.
SendFails(c) ==
  /\ call[c] = "sending"
  /\ c \in Impatient \/ Len(events) >= BufferSize
  /\ Goto(c, "refused")
  /\ UNCHANGED <<order, lock, events, consuming, ctxDone>>

Enqueue(c) == CheckFails(c) \/ CheckPasses(c) \/ Send(c) \/ SendFails(c)

-----------------------------------------------------------------------------
(* Close; a second call finds the flag set and does nothing *)

CloseCalled ==
  /\ lock = "open" /\ lock' = "waiting"
  /\ UNCHANGED <<producing, events, consuming, ctxDone>>

\* Mutant of CloseGranted: the channel is closed without waiting for mu.
CloseAtOnce ==
  /\ lock = "waiting" /\ lock' = "closed"
  /\ UNCHANGED <<producing, events, consuming, ctxDone>>

CloseGranted ==
  /\ lock = "waiting" /\ Sending = {} /\ lock' = "closed"
  /\ UNCHANGED <<producing, events, consuming, ctxDone>>

-----------------------------------------------------------------------------
(* Dequeue's goroutine.  The consumer receives until its channel is closed. *)

\* Mutant of Forward: the newest event first.
ForwardNewest(w) ==
  /\ w \in forwarding /\ held[w] = NoEvent /\ events # <<>>
  /\ held' = [held EXCEPT ![w] = Last(events)]
  /\ events' = Front(events)
  /\ UNCHANGED <<producing, lock, forwarding, got, ctxDone>>

Forward(w) ==
  /\ w \in forwarding /\ held[w] = NoEvent /\ events # <<>>
  /\ held' = [held EXCEPT ![w] = Head(events)]
  /\ events' = Tail(events)
  /\ UNCHANGED <<producing, lock, forwarding, got, ctxDone>>

HandOver(w) ==
  /\ w \in forwarding /\ held[w] # NoEvent
  /\ got' = [got EXCEPT ![w] = Append(@, held[w])]
  /\ held' = [held EXCEPT ![w] = NoEvent]
  /\ UNCHANGED <<producing, lock, events, forwarding, ctxDone>>

GiveUp(w) ==
  /\ w \in forwarding /\ held[w] # NoEvent /\ ctxDone
  /\ forwarding' = forwarding \ {w}
  /\ UNCHANGED <<producing, lock, events, held, got, ctxDone>>

\* Mutant of EndOfQueue: only a cancelled context ends the goroutine.
EndOnCancel(w) ==
  /\ w \in forwarding /\ held[w] = NoEvent /\ ctxDone /\ events = <<>>
  /\ forwarding' = forwarding \ {w}
  /\ UNCHANGED <<producing, lock, events, held, got, ctxDone>>

EndOfQueue(w) ==
  /\ w \in forwarding /\ held[w] = NoEvent /\ lock = "closed" /\ events = <<>>
  /\ forwarding' = forwarding \ {w}
  /\ UNCHANGED <<producing, lock, events, held, got, ctxDone>>

Dequeue(w) == Forward(w) \/ HandOver(w) \/ GiveUp(w) \/ EndOfQueue(w)

Cancel ==
  /\ ~ctxDone /\ ctxDone' = TRUE
  /\ UNCHANGED <<producing, lock, events, consuming>>

Next ==
  \/ \E c \in Calls : Enqueue(c)
  \/ \E w \in Consumers : Dequeue(w)
  \/ CloseCalled \/ CloseGranted \/ Cancel

Spec == Init /\ [][Next]_vars

\* Goroutines run; nobody has to call Enqueue or Close.
Fairness ==
  /\ \A c \in Calls : WF_vars(Send(c) \/ SendFails(c))
  /\ \A w \in Consumers : WF_vars(Dequeue(w))
  /\ WF_vars(CloseGranted)

FairSpec == Spec /\ Fairness

-----------------------------------------------------------------------------
(* Properties *)

TypeOK ==
  /\ call \in [Calls -> {"idle", "sending", "accepted", "refused"}]
  /\ lock \in {"open", "waiting", "closed"} /\ ctxDone \in BOOLEAN
  /\ events \in Seq(Calls) /\ Len(events) <= BufferSize
  /\ forwarding \subseteq Consumers
  /\ held \in [Consumers -> Calls \cup {NoEvent}]
  /\ got \in [Consumers -> Seq(Calls)] /\ order \in Seq(Calls)

\* No Enqueue is about to send on a closed channel, which would panic.
NoSendOnClosed == lock = "closed" => Sending = {}

\* The check and the send are two steps, and with a buffer larger than the
\* capacity the queue may grow past it: by one event less than there are
\* goroutines enqueueing at once, and never by more.
OvershootBounded == Len(events) + Cardinality(Sending) < Capacity + Parallel

\* Every consumer receives in the order of acceptance, and no two receive the
\* same event, whichever forwarders took turns.
EachInOrder ==
  LET place(c) == CHOOSE i \in DOMAIN order : order[i] = c
  IN  /\ \A w \in Consumers : \A i, j \in DOMAIN got[w] :
           i < j => place(got[w][i]) < place(got[w][j])
      /\ \A v, w \in Consumers : v # w =>
           \A i \in DOMAIN got[v], j \in DOMAIN got[w] : got[v][i] # got[w][j]

Answer == [c \in Calls |-> IF call[c] \in {"accepted", "refused"} THEN call[c] ELSE "none"]

Atomic == INSTANCE AtomicQueue WITH answer <- Answer, closed <- lock = "closed"

\* The steps under the read lock amount to one: the queue is an AtomicQueue.
AtomicSpec == Atomic!Spec

\* Once called, Close returns and the queue is drained: every forwarder ends,
\* and unless the context was cancelled every accepted event has been received.
CloseDrains ==
  lock = "waiting" ~>
    /\ lock = "closed" /\ forwarding = {}
    /\ ctxDone \/ \A i \in DOMAIN order : \E w \in Consumers : Contains(got[w], order[i])
=============================================================================
