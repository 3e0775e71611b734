---------------------------- MODULE DedupeWindow ----------------------------
(***************************************************************************)
(* The deduper of internal/domain/dedupe as a value: the window of event   *)
(* ids it remembers, oldest first.  The three methods of Deduper are       *)
(* functions from windows to windows; the mutex of inMemoryDeduper makes   *)
(* each of them one step of whoever calls it.                              *)
(***************************************************************************)
EXTENDS Integers, Sequences

CONSTANT MaxSize        \* inMemoryDeduper.maxSize; app.WithDedupeSize keeps it positive

ASSUME MaxSizeAssumption == MaxSize \in Nat \ {0}

\* The ids the window remembers: the key set of the map `seen`.
Recorded(window) == {window[i] : i \in DOMAIN window}

\* Mutant of EvictFIFO: the window evicts one id too early.
EvictEarly(window) == IF Len(window) >= MaxSize - 1 /\ window # <<>> THEN Tail(window) ELSE window

\* evictFIFO: a full window forgets its oldest id.
EvictFIFO(window) == IF Len(window) >= MaxSize THEN Tail(window) ELSE window

\* SeenAndRecord for an id that is not recorded.
RecordNew(window, id) == Append(EvictFIFO(window), id)

\* The window without its i-th id.
DropAt(window, i) == SubSeq(window, 1, i - 1) \o SubSeq(window, i + 1, Len(window))

\* Mutant of Unrecord: whatever id is given back, the oldest one goes.
UnrecordOldest(window, id) == IF id \in Recorded(window) THEN Tail(window) ELSE window

\* Unrecord: forget id, if it is there.
Unrecord(window, id) ==
  IF id \in Recorded(window)
  THEN DropAt(window, CHOOSE i \in DOMAIN window : window[i] = id)
  ELSE window

\* The windows the deduper can hold: at most MaxSize ids, none of them twice.
Windows(Ids) ==
  {w \in Seq(Ids) : /\ Len(w) <= MaxSize
                    /\ \A i, j \in DOMAIN w : w[i] = w[j] => i = j}
=============================================================================
