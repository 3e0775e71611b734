------------------------------ MODULE Deduper ------------------------------
(***************************************************************************)
(* inMemoryDeduper in bounded mode, pointer by pointer: a map from ids to  *)
(* nodes, a singly linked list from the oldest node (head) to the newest   *)
(* (tail), a pool of nodes to reuse and a counter.  A method holds the     *)
(* mutex for its whole body, so each is one action; the helpers it calls   *)
(* are functions from lists to lists.                                      *)
(***************************************************************************)
EXTENDS Integers, Sequences, FiniteSets, Functions

CONSTANTS Ids, Nodes, MaxSize, Nil, NoId

ASSUME DeduperAssumption ==
  /\ MaxSize \in Nat \ {0} /\ Nil \notin Nodes /\ NoId \notin Ids
  /\ IsFiniteSet(Nodes) /\ Cardinality(Nodes) > MaxSize

VARIABLES
  seen,        \* id -> node, for the ids recorded
  list,        \* head, tail and the fields (next, id) of all nodes
  pool,        \* nodes given back to sync.Pool
  size,        \* the atomic counter
  answer,      \* what the last SeenAndRecord returned
  since        \* history: as in FifoDeduper

vars == <<seen, list, pool, size, answer, since>>

Init ==
  /\ seen = <<>> /\ pool = {} /\ size = 0
  /\ list = [head |-> Nil, tail |-> Nil,
             next |-> [n \in Nodes |-> Nil], id |-> [n \in Nodes |-> NoId]]
  /\ answer = FALSE /\ since = [x \in Ids |-> MaxSize]

-----------------------------------------------------------------------------
(* The list *)

\* The node reached from the head after k hops.
Hop(l) ==
  LET at[k \in 0..Cardinality(Nodes)] ==
        IF k = 0 THEN l.head ELSE IF at[k - 1] = Nil THEN Nil ELSE l.next[at[k - 1]]
  IN  at

Linked(l) == Range(Hop(l)) \ {Nil}

\* What the walk of removeTail and removeMiddle stops at: the first node that
\* points to n, or nil.
Before(l, n) ==
  LET before == {m \in Linked(l) : l.next[m] = n}
  IN  IF before = {} THEN Nil ELSE CHOOSE m \in before : TRUE

removeHead(l) ==
  LET h == l.next[l.head]
  IN  [l EXCEPT !.head = h, !.tail = IF h = Nil THEN Nil ELSE @]

\* Mutant of removeTail: the tail pointer stays on the removed node.
removeTailKeepingTail(l) ==
  LET current == Before(l, l.tail)
  IN  IF current = Nil THEN l ELSE [l EXCEPT !.next[current] = Nil]

removeTail(l) ==
  LET current == Before(l, l.tail)
  IN  IF current = Nil THEN l
      ELSE [l EXCEPT !.next[current] = Nil, !.tail = current]

removeMiddle(l, n) ==
  LET current == Before(l, n)
  IN  IF current = Nil THEN l ELSE [l EXCEPT !.next[current] = l.next[n]]

removeFromLinkedList(l, n) ==
  IF l.head = n THEN removeHead(l)
  ELSE IF l.tail = n THEN removeTail(l) ELSE removeMiddle(l, n)

\* Mutant of reset: the node keeps its link into the list.
resetIdOnly(l, n) == [l EXCEPT !.id[n] = NoId]

reset(l, n) == [l EXCEPT !.next[n] = Nil, !.id[n] = NoId]

\* Mutant of addToTail: the new node goes to the front.
addToHead(l, n, id) ==
  [l EXCEPT !.id[n] = id, !.next[n] = l.head, !.head = n, !.tail = IF @ = Nil THEN n ELSE @]

\* The new node n for id goes to the tail.
addToTail(l, n, id) ==
  LET fresh == [l EXCEPT !.id[n] = id, !.next[n] = Nil]
  IN  IF l.tail = Nil THEN [fresh EXCEPT !.head = n, !.tail = n]
      ELSE [fresh EXCEPT !.next[l.tail] = n, !.tail = n]

Without(f, x) == Restrict(f, DOMAIN f \ {x})
With(f, x, y) == [z \in DOMAIN f \cup {x} |-> IF z = x THEN y ELSE f[z]]

-----------------------------------------------------------------------------
(* The methods *)

\* The id is in the map.
Seen(id) ==
  /\ id \in DOMAIN seen
  /\ answer' = TRUE
  /\ UNCHANGED <<seen, list, pool, size, since>>

\* Mutant of Full: off by one.
AlmostFull == Cardinality(DOMAIN seen) >= MaxSize - 1

Full == Cardinality(DOMAIN seen) >= MaxSize

\* evictFIFO, if the map is full: the map, list and pool it leaves.
Evicted ==
  LET h == list.head
  IN  IF Full /\ h # Nil
      THEN [seen |-> Without(seen, list.id[h]), list |-> reset(removeHead(list), h),
            pool |-> pool \cup {h}, size |-> size - 1]
      ELSE [seen |-> seen, list |-> list, pool |-> pool, size |-> size]

\* nodePool.Get: a node of the pool or a new one.  Nodes that nothing points to
\* stand for those not allocated yet and those the collector has taken back.
Obtainable(d) == d.pool \cup (Nodes \ (Linked(d.list) \cup Range(d.seen)))

NewlyRecorded(id) ==
  /\ id \notin DOMAIN seen
  /\ \E n \in Obtainable(Evicted) :
       /\ list' = addToTail(Evicted.list, n, id)
       /\ seen' = With(Evicted.seen, id, n)
       /\ pool' = Evicted.pool \ {n}
  /\ size' = Evicted.size + 1
  /\ answer' = FALSE
  /\ since' = [x \in Ids |-> IF x = id THEN 0
                             ELSE IF since[x] < MaxSize THEN since[x] + 1 ELSE MaxSize]

\* unrecordBounded.
Forget(id) ==
  /\ IF id \in DOMAIN seen
     THEN /\ list' = reset(removeFromLinkedList(list, seen[id]), seen[id])
          /\ seen' = Without(seen, id)
          /\ pool' = pool \cup {seen[id]}
          /\ size' = size - 1
     ELSE UNCHANGED <<seen, list, pool, size>>
  /\ since' = [since EXCEPT ![id] = MaxSize]
  /\ UNCHANGED answer

Next == \E id \in Ids : Seen(id) \/ NewlyRecorded(id) \/ Forget(id)

Spec == Init /\ [][Next]_vars

-----------------------------------------------------------------------------
(* Properties *)

TypeOK ==
  /\ DOMAIN seen \subseteq Ids /\ Range(seen) \subseteq Nodes
  /\ list \in [head : Nodes \cup {Nil}, tail : Nodes \cup {Nil},
               next : [Nodes -> Nodes \cup {Nil}], id : [Nodes -> Ids \cup {NoId}]]
  /\ pool \subseteq Nodes /\ size \in 0..MaxSize /\ answer \in BOOLEAN

\* The ids in list order, oldest first.
Window ==
  LET at == Hop(list)
  IN  [k \in 1..Cardinality(Linked(list)) |-> list.id[at[k - 1]]]

\* Map, list and counter tell the same story: the list ends (no cycle) at tail,
\* it holds exactly the map's nodes, each with the id it is mapped from.
ListMatchesMap ==
  /\ Hop(list)[Cardinality(Linked(list))] = Nil
  /\ Linked(list) = Range(seen)
  /\ \A id \in DOMAIN seen : list.id[seen[id]] = id
  /\ list.tail = IF seen = <<>> THEN Nil
                 ELSE Hop(list)[Cardinality(Linked(list)) - 1]
  /\ size = Cardinality(DOMAIN seen)

\* A node in the pool is blank and not in the list, so that reusing it cannot
\* tie the list into a knot.
PoolIsApart ==
  /\ pool \cap Linked(list) = {}
  /\ \A n \in pool : list.next[n] = Nil /\ list.id[n] = NoId

Promise == INSTANCE FifoDeduper WITH window <- Window

\* The pointers implement the FIFO window: same answers, same order of eviction.
FifoSpec == Promise!Spec

\* An id is refused for as long as fewer than MaxSize other ids have been
\* recorded after it, whatever was evicted or rolled back in the meantime.
RemembersLastMaxSize == Promise!RemembersLastMaxSize
=============================================================================
