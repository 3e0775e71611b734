---------------------------- MODULE FifoDeduper ----------------------------
(***************************************************************************)
(* What a bounded deduper promises its callers: it answers whether the id  *)
(* is in its window, and the window is that of DedupeWindow.  `since` is a *)
(* history variable: how many other ids have been recorded since each id   *)
(* was, counted up to MaxSize, which also stands for "not recorded".       *)
(***************************************************************************)
EXTENDS DedupeWindow, FiniteSets

CONSTANT Ids

VARIABLES window, answer, since

fifo == <<window, answer, since>>

Init ==
  /\ window = <<>> /\ answer = FALSE
  /\ since = [x \in Ids |-> MaxSize]

\* Already seen: nothing changes.
Seen(id) ==
  /\ id \in Recorded(window)
  /\ answer' = TRUE
  /\ UNCHANGED <<window, since>>

\* Newly recorded: every other id is one record older.
NewlyRecorded(id) ==
  /\ id \notin Recorded(window)
  /\ answer' = FALSE
  /\ window' = RecordNew(window, id)
  /\ since' = [x \in Ids |-> IF x = id THEN 0
                             ELSE IF since[x] < MaxSize THEN since[x] + 1 ELSE MaxSize]

Forget(id) ==
  /\ window' = Unrecord(window, id)
  /\ since' = [since EXCEPT ![id] = MaxSize]
  /\ UNCHANGED answer

Next == \E id \in Ids : Seen(id) \/ NewlyRecorded(id) \/ Forget(id)

Spec == Init /\ [][Next]_fifo

\* An id is refused for as long as fewer than MaxSize other ids have been
\* recorded after it: neither evictions nor the rollbacks of other ids
\* shorten the time for which a duplicate is recognised.
RemembersLastMaxSize ==
  \A id \in Ids : since[id] < MaxSize => id \in Recorded(window)
=============================================================================
