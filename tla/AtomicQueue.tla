---------------------------- MODULE AtomicQueue ----------------------------
(***************************************************************************)
(* What callers of the event queue are promised: every Enqueue is accepted *)
(* or refused in one instant, accepted only while the queue is open and has*)
(* a free slot, refused only if it is closed, at capacity, or the caller   *)
(* has gone; whoever receives gets the events in the order they were       *)
(* accepted in.  Pipeline uses the queue in this form.                     *)
(***************************************************************************)
EXTENDS Integers, Sequences

CONSTANTS Calls, Impatient, Capacity, BufferSize

VARIABLES
  answer,      \* what each Enqueue has returned: "none" yet, "accepted", "refused"
  events,      \* accepted and not yet received
  closed

slots == <<answer, events, closed>>

Init ==
  /\ answer = [c \in Calls |-> "none"]
  /\ events = <<>> /\ closed = FALSE

Accept(c) ==
  /\ answer[c] = "none" /\ ~closed /\ Len(events) < BufferSize
  /\ answer' = [answer EXCEPT ![c] = "accepted"]
  /\ events' = Append(events, c)
  /\ UNCHANGED closed

Refuse(c) ==
  /\ answer[c] = "none"
  /\ closed \/ Len(events) >= Capacity \/ Len(events) >= BufferSize \/ c \in Impatient
  /\ answer' = [answer EXCEPT ![c] = "refused"]
  /\ UNCHANGED <<events, closed>>

Receive ==
  /\ events # <<>> /\ events' = Tail(events)
  /\ UNCHANGED <<answer, closed>>

Shut == closed' = TRUE /\ UNCHANGED <<answer, events>>

Next == (\E c \in Calls : Accept(c) \/ Refuse(c)) \/ Receive \/ Shut

Spec == Init /\ [][Next]_slots
=============================================================================
