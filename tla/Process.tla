------------------------------- MODULE Process -------------------------------
(***************************************************************************)
(* The server process (cmd/main.go): main starts the Service of Lifecycle, *)
(* serves HTTP from a goroutine, waits for SIGINT or SIGTERM, shuts the    *)
(* HTTP server down within a deadline and, by a deferred call, stops the   *)
(* Service.  The signal cancels the context the workers run with, so they  *)
(* end while the server still takes requests.                              *)
(*                                                                         *)
(* A signal before Service.Start is seen by everybody as one right after   *)
(* it: Signal is Cancel(1) of Lifecycle.                                   *)
(***************************************************************************)
EXTENDS Lifecycle

VARIABLES
  main,        \* where main is
  server,      \* the goroutine of ListenAndServe
  connected,   \* POSTs that have an active connection, or had one
  late         \* srv.Shutdown gave up at its deadline

process == <<main, server, connected, late>>
allVars == <<vars, process>>

ProcessInit ==
  /\ Init
  /\ main = "init" /\ server = "down" /\ connected = {} /\ late = FALSE

Answered == {p \in Posts : post[p].pc \in {"duplicate", "accepted", "backpressure"}}

\* The connections http.Server counts as active.
Busy == connected \ Answered

-----------------------------------------------------------------------------
(* main *)

\* svc.Start, and what follows it once it has returned.
StartService ==
  /\ main = "init"
  /\ \/ StartDeduper /\ UNCHANGED main
     \/ StartPool /\ main' = "serving"
  /\ UNCHANGED <<server, connected, late>>

Signal == Cancel(1) /\ UNCHANGED process

\* srv.Shutdown closes the listener; a ListenAndServe that comes later returns
\* ErrServerClosed.
ShutdownCalled ==
  /\ main = "serving" /\ ctxDone # {}
  /\ main' = "shutdown" /\ server' = "closed"
  /\ UNCHANGED <<vars, connected, late>>

\* Mutant of ShutdownOver: srv.Close instead of srv.Shutdown, which waits for
\* nobody.
ShutdownAtOnce ==
  /\ main = "shutdown"
  /\ main' = "stop"
  /\ UNCHANGED <<vars, server, connected, late>>

ShutdownOver ==
  /\ main = "shutdown" /\ Busy = {}
  /\ main' = "stop"
  /\ UNCHANGED <<vars, server, connected, late>>

\* Mutant of ShutdownTimesOut: the context of Shutdown has no deadline.
ShutdownWaits == main = "shutdown" /\ Busy # {} /\ UNCHANGED allVars

ShutdownTimesOut ==
  /\ main = "shutdown" /\ Busy # {}
  /\ main' = "stop" /\ late' = TRUE
  /\ UNCHANGED <<vars, server, connected>>

\* The deferred svc.Stop.
StopService ==
  /\ main = "stop" /\ Stop
  /\ UNCHANGED process

\* svc.Stop has returned.  Every goroutine ends with the process.
Exit ==
  /\ main = "stop" /\ ~started /\ waitingFor = 0
  /\ main' = "exited"
  /\ UNCHANGED <<vars, server, connected, late>>

-----------------------------------------------------------------------------
(* The HTTP server and its handlers *)

Listen ==
  /\ main = "serving" /\ server = "down"
  /\ server' = "listening"
  /\ UNCHANGED <<vars, main, connected, late>>

\* The address is in use, say: the goroutine says so and returns; main waits on.
ListenFails ==
  /\ main = "serving" /\ server = "down"
  /\ server' = "failed"
  /\ UNCHANGED <<vars, main, connected, late>>

Connect(p) ==
  /\ server = "listening" /\ p \notin connected
  /\ connected' = connected \cup {p}
  /\ UNCHANGED <<vars, main, server, late>>

Serve(p) ==
  /\ p \in connected /\ main # "exited"
  /\ Handler(p)
  /\ UNCHANGED process

WorkerSteps(w) ==
  /\ main # "exited"
  /\ Work(1, w) \/ WorkerEnds(1, w)
  /\ UNCHANGED process

Main ==
  \/ StartService \/ ShutdownCalled \/ ShutdownOver \/ ShutdownTimesOut
  \/ StopService \/ Exit

ProcessNext ==
  \/ Main \/ Signal \/ Listen \/ ListenFails
  \/ \E p \in Posts : Connect(p) \/ Serve(p)
  \/ \E w \in Workers : WorkerSteps(w)

ProcessSpec == ProcessInit /\ [][ProcessNext]_allVars

\* main goes on and timers fire; no handler, worker or client owes anything.
FairProcessSpec == ProcessSpec /\ WF_allVars(Main)

-----------------------------------------------------------------------------
(* Properties *)

\* The process starts its Service once, so no handler ever meets two of its
\* generations and an event id is accepted a second time in the process's life
\* only after MaxSize other ids, also while handlers roll back in the shutdown.
AcceptedOnce ==
  \A p, q \in AcceptedBy(1) :
    IdOf[p] = IdOf[q] => p = q \/ Evicted(1, IdOf[p])

\* svc.Stop begins, and closes the queue, only after every request that had
\* reached the server was answered, unless the deadline of Shutdown passed.
StopAfterAnswers ==
  waitingFor # 0 \/ closed # {} => late \/ Busy = {}

\* A signal ends the process, whatever handlers and workers are doing.
ExitsAfterSignal == ctxDone # {} ~> main = "exited"
=============================================================================
