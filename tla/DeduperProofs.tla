--------------------------- MODULE DeduperProofs ---------------------------
(***************************************************************************)
(* The pointers of the deduper implement the FIFO window, for any MaxSize, *)
(* any ids and any finite set of nodes larger than MaxSize.                *)
(***************************************************************************)
EXTENDS Deduper, FiniteSetTheorems, WellFoundedInduction, SequenceTheorems, TLAPS

\* Every non-empty set of numbers has a least one: what induction along a list
\* comes down to here.
LEMMA LeastNumber ==
  ASSUME NEW T \in SUBSET Nat, T # {}
  PROVE  \E m \in T : \A k \in T : m <= k
<1> DEFINE Segments == {0..(k - 1) : k \in T}
           R == StrictSubsetOrdering(Nat)
<1>1. Segments \subseteq FiniteSubsetsOf(Nat) /\ Segments # {}
  <2>1. ASSUME NEW k \in T PROVE 0..(k - 1) \in FiniteSubsetsOf(Nat)
    <3>1. IsFiniteSet(0..(k - 1))
      BY FS_Interval
    <3> QED  BY <3>1 DEF FiniteSubsetsOf
  <2> QED  BY <2>1
<1>2. IsWellFoundedOn(R, FiniteSubsetsOf(Nat))
  BY FS_StrictSubsetOrderingWellFounded
<1>3. PICK s \in Segments : \A r \in Segments : <<r, s>> \notin R
  <2> HIDE DEF R, Segments
  <2> QED  BY <1>1, <1>2, WFMin
<1>4. PICK m \in T : s = 0..(m - 1)
  OBVIOUS
<1>5. ASSUME NEW k \in T, k < m PROVE FALSE
  <2>1. 0..(k - 1) \in Segments
    OBVIOUS
  <2>2. 0..(k - 1) \subseteq 0..(m - 1) /\ k \in 0..(m - 1) /\ k \notin 0..(k - 1)
    BY <1>5
  <2>3. <<0..(k - 1), s>> \in R
    BY <1>4, <2>2 DEF StrictSubsetOrdering
  <2> QED  BY <1>3, <2>1, <2>3
<1> QED  BY <1>5

-----------------------------------------------------------------------------
(* Following the pointers *)

\* s are the nodes of list l, from head to tail.
Chain(l, s) ==
  /\ s \in Seq(Nodes)
  /\ \A i, j \in 1..Len(s) : s[i] = s[j] => i = j
  /\ l.head = IF s = <<>> THEN Nil ELSE s[1]
  /\ l.tail = IF s = <<>> THEN Nil ELSE s[Len(s)]
  /\ \A i \in 1..Len(s) : l.next[s[i]] = IF i = Len(s) THEN Nil ELSE s[i + 1]

\* The arithmetic of a chain: it is no longer than there are nodes.
LEMMA ChainShape ==
  ASSUME NEW l, NEW s, Chain(l, s)
  PROVE  /\ Len(s) \in Nat /\ DOMAIN s = 1..Len(s) /\ Len(s) <= Cardinality(Nodes)
         /\ Cardinality(Nodes) \in Nat
         /\ \A i \in 1..Len(s) : s[i] \in Nodes /\ s[i] # Nil
         /\ s = <<>> <=> Len(s) = 0
         /\ IsFiniteSet(1..Len(s)) /\ Cardinality(1..Len(s)) = Len(s)
<1>1. s \in Seq(Nodes) /\ Len(s) \in Nat /\ DOMAIN s = 1..Len(s) /\ (s = <<>> <=> Len(s) = 0)
  BY EmptySeq DEF Chain
<1>2. s \in Injection(1..Len(s), Nodes)
  <2>1. s \in [1..Len(s) -> Nodes]
    BY <1>1, LenProperties
  <2>2. DOMAIN s = 1..Len(s)
    BY <1>1
  <2> QED  BY <2>1, <2>2 DEF Chain, Injection, IsInjective
<1>3. IsFiniteSet(1..Len(s)) /\ Cardinality(1..Len(s)) = Len(s)
  BY <1>1, FS_Interval
<1>4. Len(s) <= Cardinality(Nodes)
  <2>1. IsFiniteSet(Nodes)
    BY DeduperAssumption
  <2>2. Cardinality(1..Len(s)) <= Cardinality(Nodes)
    <3> HIDE DEF Chain
    <3>1. \E f : f \in Injection(1..Len(s), Nodes)
      BY <1>2
    <3> QED  BY <3>1, <2>1, FS_Injection
  <2> QED  BY <2>2, <1>3
<1> QED  BY <1>1, <1>3, <1>4, ElementOfSeq, FS_CardinalityType, DeduperAssumption

\* Hop satisfies the equation that defines it: there is a function that does.
LEMMA HopsFollowTheChain ==
  ASSUME NEW l, NEW s, Chain(l, s)
  PROVE  Hop(l) = [k \in 0..Cardinality(Nodes) |-> IF k < Len(s) THEN s[k + 1] ELSE Nil]
<1> DEFINE N == Cardinality(Nodes)
           g == [k \in 0..N |-> IF k < Len(s) THEN s[k + 1] ELSE Nil]
           Follows(f) == f = [k \in 0..N |-> IF k = 0 THEN l.head
                                 ELSE IF f[k - 1] = Nil THEN Nil ELSE l.next[f[k - 1]]]
<1>1. N \in Nat /\ Len(s) \in Nat /\ \A i \in 1..Len(s) : s[i] # Nil
  BY ChainShape
<1>2. Follows(g)
  <2>1. ASSUME NEW k \in 0..N
        PROVE  g[k] = IF k = 0 THEN l.head ELSE IF g[k - 1] = Nil THEN Nil ELSE l.next[g[k - 1]]
    <3>1. CASE k = 0
      BY <3>1, <1>1, ChainShape DEF Chain
    <3>2. CASE k # 0 /\ k - 1 < Len(s)
      BY <3>2, <1>1 DEF Chain
    <3>3. CASE k # 0 /\ k - 1 >= Len(s)
      BY <3>3, <1>1
    <3> QED  BY <3>1, <3>2, <3>3, <1>1
  <2> QED  BY <2>1
<1>3. Follows(Hop(l))
  <2>1. Hop(l) = CHOOSE f : Follows(f)
    BY DEF Hop
  <2> HIDE DEF Follows
  <2> QED  BY <2>1, <1>2
<1>4. ASSUME NEW k \in 0..N, Hop(l)[k] # g[k] PROVE FALSE
  <2> DEFINE T == {j \in 0..N : Hop(l)[j] # g[j]}
  <2>1. PICK m \in T : \A j \in T : m <= j
    <3>1. T \in SUBSET Nat /\ T # {}
      <4> HIDE DEF g
      <4> QED  BY <1>4, <1>1
    <3> HIDE DEF T
    <3> QED  BY <3>1, LeastNumber
  <2> HIDE DEF g
  <2>2. m # 0
    BY <1>2, <1>3
  <2>3. m - 1 \in 0..N /\ m - 1 \notin T
    BY <2>1, <2>2, <1>1
  <2>4. Hop(l)[m - 1] = g[m - 1]
    BY <2>3
  <2>5. g[m] = IF g[m - 1] = Nil THEN Nil ELSE l.next[g[m - 1]]
    BY <1>2, <2>2
  <2>6. Hop(l)[m] = IF Hop(l)[m - 1] = Nil THEN Nil ELSE l.next[Hop(l)[m - 1]]
    <3> DEFINE h == Hop(l)
    <3>1. h = [j \in 0..N |-> IF j = 0 THEN l.head
                              ELSE IF h[j - 1] = Nil THEN Nil ELSE l.next[h[j - 1]]]
      BY <1>3
    <3> HIDE DEF h
    <3>2. h[m] = IF h[m - 1] = Nil THEN Nil ELSE l.next[h[m - 1]]
      BY <3>1, <2>2
    <3> QED  BY <3>2 DEF h
  <2>7. Hop(l)[m] # g[m]
    BY DEF T
  <2> QED  BY <2>4, <2>5, <2>6, <2>7
<1>5. Hop(l) = [k \in 0..N |-> Hop(l)[k]]
  <2> DEFINE h == Hop(l)
  <2>1. \A F : F = [k \in 0..N |-> IF k = 0 THEN l.head
                       ELSE IF F[k - 1] = Nil THEN Nil ELSE l.next[F[k - 1]]]
                => F = [k \in 0..N |-> F[k]]
    OBVIOUS
  <2> QED  BY <2>1, <1>3
<1>6. \A k \in 0..N : Hop(l)[k] = IF k < Len(s) THEN s[k + 1] ELSE Nil
  BY <1>4
<1> QED  BY <1>5, <1>6

\* The walk from the head meets the nodes of the chain, each once, and ends.
LEMMA WalkAlongTheChain ==
  ASSUME NEW l, NEW s, Chain(l, s)
  PROVE  /\ Linked(l) = {s[i] : i \in 1..Len(s)}
         /\ Cardinality(Linked(l)) = Len(s)
         /\ Hop(l)[Len(s)] = Nil
         /\ \A i \in 1..Len(s) : Hop(l)[i - 1] = s[i]
<1> DEFINE N == Cardinality(Nodes)
           at == Hop(l)
           linked == {s[i] : i \in 1..Len(s)}
<1>1. /\ Len(s) \in Nat /\ N \in Nat /\ Len(s) <= N
      /\ \A i \in 1..Len(s) : s[i] \in Nodes /\ s[i] # Nil
  BY ChainShape
<1>2. \A k \in 0..N : at[k] = IF k < Len(s) THEN s[k + 1] ELSE Nil
  BY HopsFollowTheChain
<1>3. DOMAIN at = 0..N
  BY HopsFollowTheChain
<1>4. \A i \in 1..Len(s) : i - 1 \in 0..N /\ at[i - 1] = s[i]
  BY <1>1, <1>2
<1>5. Linked(l) = linked
  <2>1. ASSUME NEW n \in linked PROVE n \in Range(at) \ {Nil}
    <3>1. PICK i \in 1..Len(s) : n = s[i]
      OBVIOUS
    <3> HIDE DEF at
    <3> QED  BY <3>1, <1>1, <1>3, <1>4 DEF Range
  <2>2. ASSUME NEW n \in Range(at) \ {Nil} PROVE n \in linked
    <3> HIDE DEF at
    <3>1. PICK k \in 0..N : n = at[k]
      BY <2>2, <1>3 DEF Range
    <3>2. k < Len(s) /\ n = s[k + 1] /\ k + 1 \in 1..Len(s)
      BY <3>1, <2>2, <1>1, <1>2
    <3> QED  BY <3>2
  <2> HIDE DEF linked, at
  <2>3. Linked(l) = Range(at) \ {Nil}
    BY DEF Linked, at
  <2> QED  BY <2>1, <2>2, <2>3
<1>6. Cardinality(linked) = Len(s)
  <2> DEFINE f == [i \in 1..Len(s) |-> s[i]]
  <2>1. f \in Bijection(1..Len(s), linked)
    BY DEF Chain, Bijection, Injection, Surjection, IsInjective
  <2>2. IsFiniteSet(1..Len(s)) /\ Cardinality(1..Len(s)) = Len(s)
    BY ChainShape
  <2>3. ExistsBijection(1..Len(s), linked)
    BY <2>1 DEF ExistsBijection
  <2> QED  BY <2>2, <2>3, FS_Bijection
<1>7. at[Len(s)] = Nil
  BY <1>1, <1>2
<1> QED  BY <1>4, <1>5, <1>6, <1>7

\* The walk of removeTail and removeMiddle stops at the node before.
LEMMA WalkStopsBefore ==
  ASSUME NEW l, NEW s, Chain(l, s), NEW i \in 2..Len(s)
  PROVE  Before(l, s[i]) = s[i - 1]
<1> DEFINE before == {m \in Linked(l) : l.next[m] = s[i]}
<1>1. Len(s) \in Nat /\ \A j \in 1..Len(s) : s[j] # Nil
  BY ChainShape
<1>2. Linked(l) = {s[j] : j \in 1..Len(s)}
  BY WalkAlongTheChain
<1>3. i - 1 \in 1..Len(s) /\ i \in 1..Len(s) /\ i - 1 # Len(s)
  BY <1>1
<1>4. l.next[s[i - 1]] = s[i]
  BY <1>3, <1>1 DEF Chain
<1>5. ASSUME NEW j \in 1..Len(s), l.next[s[j]] = s[i] PROVE j = i - 1
  <2>1. j # Len(s) /\ l.next[s[j]] = s[j + 1]
    BY <1>5, <1>1, <1>3 DEF Chain
  <2>2. j + 1 \in 1..Len(s) /\ s[j + 1] = s[i]
    BY <2>1, <1>5, <1>1
  <2> QED  BY <2>2, <1>3 DEF Chain
<1>6. before = {s[i - 1]}
  BY <1>2, <1>3, <1>4, <1>5
<1> QED  BY <1>6 DEF Before

-----------------------------------------------------------------------------
(* The helpers *)

\* The values `list` takes.
Lists == [head : Nodes \cup {Nil}, tail : Nodes \cup {Nil},
          next : [Nodes -> Nodes \cup {Nil}], id : [Nodes -> Ids \cup {NoId}]]

\* t is s without its i-th element.
Shorter(s, t, i) ==
  /\ t \in Seq(Nodes) /\ Len(t) = Len(s) - 1
  /\ \A k \in 1..Len(t) : t[k] = IF k < i THEN s[k] ELSE s[k + 1]

\* The links of nodes outside the chain s are in r what they are in l.
OthersKeepTheirLinks(l, s, r) ==
  \A m \in Nodes : (\A k \in 1..Len(s) : s[k] # m) => r.next[m] = l.next[m]

\* No node occurs in t twice.
Distinct(t) == \A j, k \in 1..Len(t) : t[j] = t[k] => j = k

\* What is left of a chain has no node twice, and not the one taken out.
LEMMA ShorterIsApart ==
  ASSUME NEW l, NEW s, Chain(l, s), NEW i \in 1..Len(s), NEW t, Shorter(s, t, i)
  PROVE  /\ Len(t) \in Nat /\ (t = <<>> <=> Len(s) = 1)
         /\ Distinct(t)
         /\ \A k \in 1..Len(t) : t[k] # s[i]
<1>1. Len(s) \in Nat /\ Len(t) = Len(s) - 1 /\ Len(t) \in Nat
  BY ChainShape, LenProperties DEF Shorter
<1>2. \A k \in 1..Len(t) :
        LET k2 == IF k < i THEN k ELSE k + 1
        IN  k2 \in 1..Len(s) /\ k2 # i /\ t[k] = s[k2]
  BY <1>1 DEF Shorter
<1>3. Distinct(t)
  <2> SUFFICES ASSUME NEW j \in 1..Len(t), NEW k \in 1..Len(t), t[j] = t[k] PROVE j = k
    BY DEF Distinct
  <2> DEFINE j2 == IF j < i THEN j ELSE j + 1
             k2 == IF k < i THEN k ELSE k + 1
  <2>1. j2 \in 1..Len(s) /\ t[j] = s[j2] /\ k2 \in 1..Len(s) /\ t[k] = s[k2]
    BY <1>2
  <2>2. j2 = k2
    <3>1. \A a, b \in 1..Len(s) : s[a] = s[b] => a = b
      BY DEF Chain
    <3> HIDE DEF j2, k2
    <3> QED  BY <2>1, <3>1
  <2> QED  BY <2>2, <1>1
<1>4. \A k \in 1..Len(t) : t[k] # s[i]
  BY <1>2 DEF Chain
<1>5. t = <<>> <=> Len(s) = 1
  BY <1>1, EmptySeq DEF Shorter
<1> QED  BY <1>1, <1>3, <1>4, <1>5

\* removeHead takes the first node out of the chain.
LEMMA HeadRemoved ==
  ASSUME NEW l \in Lists, NEW s, Chain(l, s), 1 \in 1..Len(s), NEW t, Shorter(s, t, 1)
  PROVE  /\ removeHead(l) \in Lists /\ removeHead(l).id = l.id
         /\ Chain(removeHead(l), t)
         /\ OthersKeepTheirLinks(l, s, removeHead(l))
<1> DEFINE r == removeHead(l)
<1>1. Len(s) \in Nat /\ Len(t) = Len(s) - 1 /\ s # <<>> /\ \A k \in 1..Len(t) : t[k] = s[k + 1]
  BY ChainShape DEF Shorter
<1>2. l.head = s[1] /\ s[1] \in Nodes /\ l.next[s[1]] = IF Len(s) = 1 THEN Nil ELSE s[2]
  BY <1>1, ChainShape DEF Chain
<1>3. /\ r.head = l.next[s[1]] /\ r.next = l.next /\ r.id = l.id /\ r \in Lists
      /\ r.tail = IF r.head = Nil THEN Nil ELSE l.tail
  BY <1>2 DEF removeHead, Lists
<1>4. r.head = IF t = <<>> THEN Nil ELSE t[1]
  <2>1. Len(s) # 1 => 1 \in 1..Len(t) /\ t[1] = s[2]
    BY <1>1
  <2> QED  BY <2>1, <1>2, <1>3, ShorterIsApart
<1>5. r.tail = IF t = <<>> THEN Nil ELSE t[Len(t)]
  <2>1. Len(s) # 1 => /\ 2 \in 1..Len(s) /\ s[2] # Nil
                      /\ Len(t) \in 1..Len(t) /\ t[Len(t)] = s[Len(s)]
    BY <1>1, ChainShape
  <2>2. l.tail = s[Len(s)]
    BY <1>1 DEF Chain
  <2> QED  BY <2>1, <2>2, <1>2, <1>3, ShorterIsApart
<1>6. ASSUME NEW k \in 1..Len(t) PROVE r.next[t[k]] = IF k = Len(t) THEN Nil ELSE t[k + 1]
  <2>1. /\ k + 1 \in 1..Len(s) /\ t[k] = s[k + 1]
        /\ k # Len(t) => k + 1 \in 1..Len(t) /\ k + 1 # Len(s)
    BY <1>1
  <2>2. l.next[s[k + 1]] = IF k + 1 = Len(s) THEN Nil ELSE s[k + 2]
    BY <2>1 DEF Chain
  <2> QED  BY <2>1, <2>2, <1>1, <1>3
<1> HIDE DEF r
<1>7. Chain(r, t)
  <2>1. t \in Seq(Nodes)
    BY DEF Shorter
  <2>2. Distinct(t)
    BY ShorterIsApart
  <2> QED  BY <1>4, <1>5, <1>6, <2>1, <2>2 DEF Chain, Distinct
<1> QED  BY <1>3, <1>7 DEF r, OthersKeepTheirLinks

\* removeTail takes the last node out of a chain of two or more.
LEMMA TailRemoved ==
  ASSUME NEW l \in Lists, NEW s, Chain(l, s), NEW t,
         Len(s) \in 2..Len(s), Shorter(s, t, Len(s))
  PROVE  /\ removeTail(l) \in Lists /\ removeTail(l).id = l.id
         /\ Chain(removeTail(l), t)
         /\ OthersKeepTheirLinks(l, s, removeTail(l))
<1> DEFINE r == removeTail(l)
           n == Len(s)
<1>1. n \in Nat /\ n >= 2 /\ Len(t) = n - 1 /\ s # <<>> /\ \A k \in 1..Len(t) : t[k] = s[k]
  BY ChainShape DEF Shorter
<1>2. l.tail = s[n] /\ s[n - 1] \in Nodes /\ s[n - 1] # Nil /\ Before(l, s[n]) = s[n - 1]
  <2>1. n \in 2..n /\ n - 1 \in 1..n
    BY <1>1
  <2>2. Before(l, s[n]) = s[n - 1]
    BY <2>1, WalkStopsBefore
  <2>3. s[n - 1] \in Nodes /\ s[n - 1] # Nil
    BY <2>1, ChainShape
  <2>4. l.tail = s[n]
    BY <1>1 DEF Chain
  <2> QED  BY <2>2, <2>3, <2>4
<1>3. r = [l EXCEPT !.next[s[n - 1]] = Nil, !.tail = s[n - 1]]
  BY <1>2 DEF removeTail
<1>4. /\ r.head = l.head /\ r.tail = s[n - 1] /\ r.id = l.id /\ r \in Lists
      /\ r.next = [l.next EXCEPT ![s[n - 1]] = Nil]
  <2> DEFINE m == s[n - 1]
  <2>1. m \in Nodes /\ r = [l EXCEPT !.next[m] = Nil, !.tail = m]
    BY <1>2, <1>3
  <2> HIDE DEF m, r
  <2>2. r.next = [l.next EXCEPT ![m] = Nil] /\ r.tail = m /\ r.head = l.head /\ r.id = l.id
    BY <2>1 DEF Lists
  <2>3. r \in Lists
    BY <2>1 DEF Lists
  <2> QED  BY <2>2, <2>3 DEF m
<1>5. ASSUME NEW k \in 1..Len(t) PROVE r.next[t[k]] = IF k = Len(t) THEN Nil ELSE t[k + 1]
  <2>1. k \in 1..n /\ t[k] = s[k] /\ s[k] \in Nodes /\ k # n
    BY <1>1, ChainShape
  <2>2. l.next[s[k]] = s[k + 1] /\ l.next \in [Nodes -> Nodes \cup {Nil}]
    BY <2>1 DEF Chain, Lists
  <2>3. CASE k = n - 1
    BY <2>1, <2>2, <2>3, <1>1, <1>4
  <2>4. CASE k # n - 1
    <3>1. s[k] # s[n - 1]
      BY <2>1, <2>4, <1>1 DEF Chain
    <3>2. k + 1 \in 1..Len(t) /\ t[k + 1] = s[k + 1] /\ k # Len(t)
      BY <2>1, <2>4, <1>1
    <3> QED  BY <3>1, <3>2, <2>1, <2>2, <1>4
  <2> QED  BY <2>3, <2>4
<1>6. 1 \in 1..Len(t) /\ t[1] = s[1] /\ Len(t) \in 1..Len(t) /\ t[Len(t)] = s[n - 1] /\ t # <<>>
  BY <1>1, ShorterIsApart
<1>7. l.head = s[1]
  BY <1>1 DEF Chain
<1> HIDE DEF r
<1>8. Chain(r, t)
  <2>1. t \in Seq(Nodes)
    BY DEF Shorter
  <2>2. Distinct(t)
    BY <1>1, ShorterIsApart
  <2> QED  BY <1>4, <1>5, <1>6, <1>7, <2>1, <2>2 DEF Chain, Distinct
<1>9. OthersKeepTheirLinks(l, s, r)
  <2>1. n - 1 \in 1..n
    BY <1>1
  <2> QED  BY <2>1, <1>4 DEF OthersKeepTheirLinks, Lists
<1> QED  BY <1>4, <1>8, <1>9 DEF r

\* removeMiddle takes out a node with a neighbour on either side.
LEMMA MiddleRemoved ==
  ASSUME NEW l \in Lists, NEW s, Chain(l, s), NEW t,
         NEW i \in 2..(Len(s) - 1), Shorter(s, t, i)
  PROVE  /\ removeMiddle(l, s[i]) \in Lists /\ removeMiddle(l, s[i]).id = l.id
         /\ Chain(removeMiddle(l, s[i]), t)
         /\ OthersKeepTheirLinks(l, s, removeMiddle(l, s[i]))
<1> DEFINE r == removeMiddle(l, s[i])
           n == Len(s)
<1>1. /\ n \in Nat /\ n > i /\ i >= 2 /\ Len(t) = n - 1 /\ s # <<>> /\ i \in Int
      /\ \A k \in 1..Len(t) : t[k] = IF k < i THEN s[k] ELSE s[k + 1]
  BY ChainShape DEF Shorter
<1>2. s[i - 1] \in Nodes /\ s[i - 1] # Nil /\ Before(l, s[i]) = s[i - 1]
  <2>1. i - 1 \in 1..n /\ i \in 2..n
    BY <1>1
  <2>2. Before(l, s[i]) = s[i - 1]
    BY <2>1, WalkStopsBefore
  <2>3. s[i - 1] \in Nodes /\ s[i - 1] # Nil
    BY <2>1, ChainShape
  <2> QED  BY <2>2, <2>3
<1>3. l.next[s[i]] = s[i + 1] /\ s[i + 1] \in Nodes
  BY <1>1, ChainShape DEF Chain
<1>4. r = [l EXCEPT !.next[s[i - 1]] = s[i + 1]]
  BY <1>2, <1>3 DEF removeMiddle
<1>5. /\ r.head = l.head /\ r.tail = l.tail /\ r.id = l.id /\ r \in Lists
      /\ r.next = [l.next EXCEPT ![s[i - 1]] = s[i + 1]]
  BY <1>2, <1>3, <1>4 DEF Lists
<1>6. ASSUME NEW k \in 1..Len(t) PROVE r.next[t[k]] = IF k = Len(t) THEN Nil ELSE t[k + 1]
  <2> DEFINE j == IF k < i THEN k ELSE k + 1
  <2>1. j \in 1..n /\ t[k] = s[j] /\ s[j] \in Nodes /\ j # i /\ (j = n <=> k = Len(t))
    BY <1>1, ChainShape
  <2>2. l.next[s[j]] = (IF j = n THEN Nil ELSE s[j + 1]) /\ l.next \in [Nodes -> Nodes \cup {Nil}]
    BY <2>1 DEF Chain, Lists
  <2>3. CASE k = i - 1
    <3>1. k # Len(t) /\ k + 1 \in 1..Len(t) /\ t[k + 1] = s[i + 1] /\ t[k] = s[i - 1]
      BY <2>3, <1>1
    <3> QED  BY <3>1, <1>2, <1>5, <2>2
  <2>4. CASE k # i - 1
    <3>1. j # i - 1 /\ i - 1 \in 1..n
      BY <2>1, <2>4, <1>1
    <3>2. s[j] # s[i - 1]
      BY <3>1, <2>1 DEF Chain
    <3>3. ASSUME k # Len(t) PROVE k + 1 \in 1..Len(t) /\ t[k + 1] = s[j + 1]
      <4>1. k \in Int /\ k >= 1 /\ k < n - 1 /\ k + 1 \in 1..Len(t)
        <5>1. Len(t) \in Int /\ Len(t) = n - 1
          BY <1>1
        <5> HIDE DEF n, j
        <5> QED  BY <3>3, <5>1
      <4>2. k < i => k + 1 < i
        BY <4>1, <2>4, <1>1
      <4>3. t[k + 1] = IF k + 1 < i THEN s[k + 1] ELSE s[k + 2]
        BY <4>1, <1>1
      <4> QED  BY <4>1, <4>2, <4>3, <1>1
    <3> QED  BY <3>2, <3>3, <2>1, <2>2, <1>5
  <2> QED  BY <2>3, <2>4
<1>7. 1 \in 1..Len(t) /\ t[1] = s[1] /\ Len(t) \in 1..Len(t) /\ t[Len(t)] = s[n] /\ t # <<>>
  BY <1>1, ShorterIsApart
<1>8. l.head = s[1] /\ l.tail = s[n]
  BY <1>1 DEF Chain
<1>9. t \in Seq(Nodes) /\ Distinct(t)
  <2>1. i \in 1..Len(s)
    BY <1>1
  <2>2. t \in Seq(Nodes)
    BY DEF Shorter
  <2>3. Distinct(t)
    BY <2>1, ShorterIsApart
  <2> QED  BY <2>2, <2>3
<1> HIDE DEF r
<1>10. Chain(r, t)
  BY <1>5, <1>6, <1>7, <1>8, <1>9 DEF Chain, Distinct
<1>11. OthersKeepTheirLinks(l, s, r)
  <2>1. i - 1 \in 1..n
    BY <1>1
  <2> QED  BY <2>1, <1>5 DEF OthersKeepTheirLinks, Lists
<1> QED  BY <1>5, <1>10, <1>11 DEF r

\* removeFromLinkedList takes out any node of the chain, and no other.
LEMMA NodeRemoved ==
  ASSUME NEW l \in Lists, NEW s, Chain(l, s), NEW i \in 1..Len(s), NEW t, Shorter(s, t, i)
  PROVE  /\ removeFromLinkedList(l, s[i]) \in Lists
         /\ removeFromLinkedList(l, s[i]).id = l.id
         /\ Chain(removeFromLinkedList(l, s[i]), t)
         /\ OthersKeepTheirLinks(l, s, removeFromLinkedList(l, s[i]))
<1>1. Len(s) \in Nat /\ i \in Int /\ 1 <= i /\ i <= Len(s) /\ s # <<>>
  BY ChainShape
<1>2. l.head = s[1] /\ l.tail = s[Len(s)]
  BY <1>1 DEF Chain
<1>3. (s[1] = s[i] <=> i = 1) /\ (s[Len(s)] = s[i] <=> i = Len(s))
  BY <1>1 DEF Chain
<1>4. CASE i = 1
  BY <1>1, <1>2, <1>4, HeadRemoved DEF removeFromLinkedList
<1>5. CASE i # 1 /\ i = Len(s)
  <2>1. Len(s) \in 2..Len(s)
    BY <1>1, <1>5
  <2> QED  BY <2>1, <1>2, <1>3, <1>5, TailRemoved DEF removeFromLinkedList
<1>6. CASE i # 1 /\ i # Len(s)
  <2>1. i \in 2..(Len(s) - 1)
    BY <1>1, <1>6
  <2> QED  BY <2>1, <1>2, <1>3, <1>6, MiddleRemoved DEF removeFromLinkedList
<1> QED  BY <1>4, <1>5, <1>6

\* A node outside the chain is blanked without the chain noticing.
LEMMA NodeReset ==
  ASSUME NEW l \in Lists, NEW t, Chain(l, t), NEW n \in Nodes,
         \A k \in 1..Len(t) : t[k] # n
  PROVE  /\ reset(l, n) \in Lists /\ Chain(reset(l, n), t)
         /\ reset(l, n).id = [l.id EXCEPT ![n] = NoId]
         /\ reset(l, n).next[n] = Nil
         /\ \A m \in Nodes \ {n} : reset(l, n).next[m] = l.next[m]
<1> DEFINE r == reset(l, n)
<1>1. /\ r \in Lists /\ r.id = [l.id EXCEPT ![n] = NoId] /\ r.head = l.head /\ r.tail = l.tail
      /\ r.next[n] = Nil /\ \A m \in Nodes \ {n} : r.next[m] = l.next[m]
  BY DEF reset, Lists
<1>2. \A k \in 1..Len(t) : r.next[t[k]] = l.next[t[k]]
  BY <1>1, ChainShape
<1> HIDE DEF r
<1>3. Chain(r, t)
  BY <1>1, <1>2 DEF Chain
<1> QED  BY <1>1, <1>3 DEF r

\* addToTail makes the chain longer by a node that was not in it.
LEMMA NodeAdded ==
  ASSUME NEW l \in Lists, NEW s, Chain(l, s), NEW n \in Nodes, NEW id \in Ids,
         \A k \in 1..Len(s) : s[k] # n
  PROVE  /\ addToTail(l, n, id) \in Lists
         /\ Chain(addToTail(l, n, id), Append(s, n))
         /\ addToTail(l, n, id).id = [l.id EXCEPT ![n] = id]
         /\ \A m \in Nodes : m # n /\ m # l.tail => addToTail(l, n, id).next[m] = l.next[m]
<1> DEFINE r == addToTail(l, n, id)
           t == Append(s, n)
<1>1. Len(s) \in Nat /\ s \in Seq(Nodes) /\ (s = <<>> <=> Len(s) = 0)
  BY ChainShape DEF Chain
<1>2. /\ t \in Seq(Nodes) /\ t # <<>> /\ Len(t) = Len(s) + 1
      /\ t[Len(s) + 1] = n /\ \A k \in 1..Len(s) : t[k] = s[k]
  BY <1>1, AppendProperties
<1>3. n # Nil
  BY DeduperAssumption
<1>4. \A k \in 1..Len(s) : s[k] \in Nodes /\ s[k] # Nil
  BY ChainShape
<1>5. /\ r \in Lists /\ r.id = [l.id EXCEPT ![n] = id] /\ r.tail = n
      /\ r.head = (IF s = <<>> THEN n ELSE l.head)
      /\ \A m \in Nodes : r.next[m] = IF l.tail # Nil /\ m = l.tail THEN n
                                      ELSE IF m = n THEN Nil ELSE l.next[m]
  <2>1. CASE s = <<>>
    <3>1. l.tail = Nil
      BY <2>1 DEF Chain
    <3> QED  BY <3>1, <2>1 DEF addToTail, Lists
  <2>2. CASE s # <<>>
    <3>1. l.tail = s[Len(s)] /\ Len(s) \in 1..Len(s)
      BY <2>2, <1>1 DEF Chain
    <3>2. l.tail \in Nodes /\ l.tail # Nil /\ l.tail # n
      BY <3>1, <1>4
    <3> QED  BY <3>2, <2>2 DEF addToTail, Lists
  <2> QED  BY <2>1, <2>2
<1> HIDE DEF r, t
<1>6. ASSUME NEW k \in 1..Len(t) PROVE r.next[t[k]] = IF k = Len(t) THEN Nil ELSE t[k + 1]
  <2>1. CASE k = Len(t)
    <3>1. t[k] = n /\ (s # <<>> => l.tail = s[Len(s)] /\ Len(s) \in 1..Len(s))
      BY <2>1, <1>1, <1>2 DEF Chain
    <3>2. l.tail # n \/ l.tail = Nil
      BY <3>1 DEF Chain
    <3> QED  BY <3>1, <3>2, <2>1, <1>5
  <2>2. CASE k = Len(s)
    <3>1. k \in 1..Len(s) /\ t[k] = s[k] /\ t[k + 1] = n /\ k # Len(t) /\ s # <<>>
      BY <2>2, <1>1, <1>2
    <3>2. l.tail = s[k] /\ s[k] \in Nodes /\ s[k] # Nil
      BY <3>1, <2>2, <1>4 DEF Chain
    <3> QED  BY <3>1, <3>2, <1>5
  <2>3. CASE k < Len(s)
    <3>1. /\ k \in 1..Len(s) /\ k + 1 \in 1..Len(s) /\ t[k] = s[k] /\ t[k + 1] = s[k + 1]
          /\ k # Len(t) /\ s # <<>> /\ Len(s) \in 1..Len(s)
      BY <2>3, <1>1, <1>2
    <3>2. l.tail = s[Len(s)] /\ s[k] # s[Len(s)] /\ l.next[s[k]] = s[k + 1] /\ s[k] # n
      BY <3>1, <2>3 DEF Chain
    <3> QED  BY <3>1, <3>2, <1>4, <1>5
  <2> QED  BY <2>1, <2>2, <2>3, <1>1, <1>2
<1>7. \A j, k \in 1..Len(t) : t[j] = t[k] => j = k
  <2>1. \A k \in 1..Len(t) : k \in 1..Len(s) \/ k = Len(s) + 1
    BY <1>1, <1>2
  <2> QED  BY <2>1, <1>2 DEF Chain
<1>8. r.head = t[1]
  <2>1. CASE s = <<>>
    BY <2>1, <1>1, <1>2, <1>5
  <2>2. CASE s # <<>>
    <3>1. 1 \in 1..Len(s)
      BY <2>2, <1>1
    <3> QED  BY <3>1, <2>2, <1>2, <1>5 DEF Chain
  <2> QED  BY <2>1, <2>2
<1>9. Chain(r, t)
  BY <1>2, <1>5, <1>6, <1>7, <1>8 DEF Chain
<1>10. \A m \in Nodes : m # n /\ m # l.tail => r.next[m] = l.next[m]
  BY <1>5
<1> QED  BY <1>5, <1>9, <1>10 DEF r, t

-----------------------------------------------------------------------------
(* Map, list, pool and counter together *)

\* What the deduper d is when s are its nodes, oldest first.
Sound(d, s) ==
  /\ d.list \in Lists /\ Chain(d.list, s) /\ Len(s) <= MaxSize
  /\ d.seen \in [DOMAIN d.seen -> Nodes] /\ DOMAIN d.seen \subseteq Ids
  /\ \A i \in 1..Len(s) :
       d.list.id[s[i]] \in DOMAIN d.seen /\ d.seen[d.list.id[s[i]]] = s[i]
  /\ \A x \in DOMAIN d.seen : \E i \in 1..Len(s) : d.seen[x] = s[i] /\ d.list.id[s[i]] = x
  /\ d.size = Len(s)
  /\ d.pool \subseteq Nodes
  /\ \A n \in d.pool : d.list.next[n] = Nil /\ d.list.id[n] = NoId

\* The ids of the nodes s: the window of d.
Content(d, s) == [k \in 1..Len(s) |-> d.list.id[s[k]]]

\* The map has as many ids as the chain has nodes, and no pooled node is among
\* these, since they carry ids.
LEMMA SoundShape ==
  ASSUME NEW d, NEW s, Sound(d, s)
  PROVE  /\ Cardinality(DOMAIN d.seen) = Len(s)
         /\ Range(d.seen) = {s[i] : i \in 1..Len(s)}
         /\ \A i, j \in 1..Len(s) : d.list.id[s[i]] = d.list.id[s[j]] => i = j
         /\ \A n \in d.pool, i \in 1..Len(s) : n # s[i]
         /\ Content(d, s) \in Seq(Ids)
<1> DEFINE f == Content(d, s)
<1>1. Chain(d.list, s) /\ Len(s) \in Nat
  BY ChainShape DEF Sound
<1>2. \A i, j \in 1..Len(s) : d.list.id[s[i]] = d.list.id[s[j]] => i = j
  <2>1. \A i \in 1..Len(s) : d.seen[d.list.id[s[i]]] = s[i]
    BY DEF Sound
  <2>2. \A i, j \in 1..Len(s) : s[i] = s[j] => i = j
    BY <1>1 DEF Chain
  <2> QED  BY <2>1, <2>2
<1>3. Cardinality(DOMAIN d.seen) = Len(s)
  <2>1. f \in [1..Len(s) -> DOMAIN d.seen]
    BY DEF Sound, Content
  <2>2. f \in Bijection(1..Len(s), DOMAIN d.seen)
    BY <2>1, <1>2 DEF Sound, Content, Bijection, Injection, Surjection, IsInjective
  <2>3. ExistsBijection(1..Len(s), DOMAIN d.seen)
    BY <2>2 DEF ExistsBijection
  <2> QED  BY <2>3, <1>1, ChainShape, FS_Bijection
<1>4. Range(d.seen) = {s[i] : i \in 1..Len(s)}
  <2>1. ASSUME NEW x \in DOMAIN d.seen PROVE d.seen[x] \in {s[i] : i \in 1..Len(s)}
    BY DEF Sound
  <2>2. ASSUME NEW i \in 1..Len(s) PROVE s[i] \in Range(d.seen)
    BY DEF Sound, Range
  <2> QED  BY <2>1, <2>2 DEF Range
<1>5. ASSUME NEW n \in d.pool, NEW i \in 1..Len(s) PROVE n # s[i]
  <2>1. d.list.id[n] = NoId /\ d.list.id[s[i]] \in Ids
    BY DEF Sound
  <2> QED  BY <2>1, DeduperAssumption
<1>6. f \in Seq(Ids)
  <2>1. \A k \in 1..Len(s) : d.list.id[s[k]] \in Ids
    BY DEF Sound
  <2> QED  BY <2>1, <1>1 DEF Content
<1> QED  BY <1>2, <1>3, <1>4, <1>5, <1>6

\* A node is unlinked by l's helper, blanked, unmapped and given to the pool.
LEMMA TakenOut ==
  ASSUME NEW d, NEW s, Sound(d, s), NEW i \in 1..Len(s), NEW t, Shorter(s, t, i),
         NEW l \in Lists, Chain(l, t), l.id = d.list.id, OthersKeepTheirLinks(d.list, s, l),
         NEW e, e.seen = Without(d.seen, d.list.id[s[i]]), e.list = reset(l, s[i]),
         e.pool = d.pool \cup {s[i]}, e.size = d.size - 1
  PROVE  /\ Sound(e, t)
         /\ \A k \in 1..Len(t) : e.list.id[t[k]] = d.list.id[t[k]]
         /\ DOMAIN e.seen = DOMAIN d.seen \ {d.list.id[s[i]]}
<1> DEFINE n == s[i]
           x == d.list.id[n]
<1>1. /\ n \in Nodes /\ x \in DOMAIN d.seen /\ Len(s) \in Nat /\ Len(t) = Len(s) - 1
      /\ \A k \in 1..Len(s) : s[k] \in Nodes
  BY ChainShape DEF Sound, Shorter
<1>2. \A k \in 1..Len(t) : t[k] # n
  BY ShorterIsApart DEF Sound
<1>3. /\ \A j, k \in 1..Len(s) : d.list.id[s[j]] = d.list.id[s[k]] => j = k
      /\ \A m \in d.pool, k \in 1..Len(s) : m # s[k]
  BY SoundShape
<1>4. /\ e.seen = [y \in DOMAIN d.seen \ {x} |-> d.seen[y]]
      /\ e.list = reset(l, n) /\ e.pool = d.pool \cup {n} /\ e.size = d.size - 1
  BY DEF Without, Restrict
<1>5. /\ e.list \in Lists /\ Chain(e.list, t) /\ e.list.id = [d.list.id EXCEPT ![n] = NoId]
      /\ e.list.next[n] = Nil /\ \A m \in Nodes \ {n} : e.list.next[m] = l.next[m]
  <2>1. /\ reset(l, n) \in Lists /\ Chain(reset(l, n), t)
        /\ reset(l, n).id = [l.id EXCEPT ![n] = NoId]
        /\ reset(l, n).next[n] = Nil
        /\ \A m \in Nodes \ {n} : reset(l, n).next[m] = l.next[m]
    <3> HIDE DEF n
    <3>1. n \in Nodes
      BY <1>1
    <3>2. Chain(reset(l, n), t)
      BY <3>1, <1>2, NodeReset
    <3>3. reset(l, n) \in Lists /\ reset(l, n).id = [l.id EXCEPT ![n] = NoId]
      BY <3>1, <3>2, <1>2, NodeReset
    <3>4. reset(l, n).next[n] = Nil /\ \A m \in Nodes \ {n} : reset(l, n).next[m] = l.next[m]
      BY <3>1 DEF reset, Lists
    <3> QED  BY <3>2, <3>3, <3>4
  <2> QED  BY <2>1, <1>4
<1>6. d.list.id \in [Nodes -> Ids \cup {NoId}] /\ \A k \in 1..Len(t) : t[k] \in Nodes
  BY <1>5, ChainShape DEF Sound, Lists
<1>7. \A k \in 1..Len(t) : e.list.id[t[k]] = d.list.id[t[k]]
  BY <1>2, <1>5, <1>6
<1>8. /\ \A k \in 1..Len(t) : \E j \in 1..Len(s) : j # i /\ t[k] = s[j]
      /\ \A j \in 1..Len(s) : j # i => \E k \in 1..Len(t) : t[k] = s[j]
  <2>1. ASSUME NEW k \in 1..Len(t) PROVE \E j \in 1..Len(s) : j # i /\ t[k] = s[j]
    <3>1. (IF k < i THEN k ELSE k + 1) \in 1..Len(s) \ {i}
      BY <1>1
    <3> QED  BY <3>1, <1>1 DEF Shorter
  <2>2. ASSUME NEW j \in 1..Len(s), j # i PROVE \E k \in 1..Len(t) : t[k] = s[j]
    <3>1. /\ (IF j < i THEN j ELSE j - 1) \in 1..Len(t)
          /\ ~(j < i) => ~(j - 1 < i) /\ (j - 1) + 1 = j
      BY <2>2, <1>1
    <3> QED  BY <3>1, <1>1 DEF Shorter
  <2> QED  BY <2>1, <2>2
<1>9. ASSUME NEW k \in 1..Len(t)
      PROVE  e.list.id[t[k]] \in DOMAIN e.seen /\ e.seen[e.list.id[t[k]]] = t[k]
  <2>1. PICK j \in 1..Len(s) : j # i /\ t[k] = s[j]
    BY <1>8
  <2>2. d.list.id[s[j]] \in DOMAIN d.seen /\ d.seen[d.list.id[s[j]]] = s[j] /\ d.list.id[s[j]] # x
    BY <2>1, <1>3 DEF Sound
  <2>3. e.list.id[t[k]] = d.list.id[s[j]]
    BY <2>1, <1>7
  <2> QED  BY <2>1, <2>2, <2>3, <1>4
<1>10. ASSUME NEW y \in DOMAIN e.seen
      PROVE  \E k \in 1..Len(t) : e.seen[y] = t[k] /\ e.list.id[t[k]] = y
  <2>1. PICK j \in 1..Len(s) : d.seen[y] = s[j] /\ d.list.id[s[j]] = y
    BY <1>4 DEF Sound
  <2>2. j # i /\ e.seen[y] = s[j]
    BY <2>1, <1>4
  <2>3. PICK k \in 1..Len(t) : t[k] = s[j]
    BY <2>2, <1>8
  <2>4. e.list.id[t[k]] = d.list.id[t[k]]
    BY <1>7
  <2> QED  BY <2>1, <2>2, <2>3, <2>4
<1>11. ASSUME NEW m \in e.pool PROVE e.list.next[m] = Nil /\ e.list.id[m] = NoId
  <2>1. CASE m = n
    <3> DEFINE f == d.list.id
    <3>1. n \in Nodes /\ f \in [Nodes -> Ids \cup {NoId}] /\ e.list.id = [f EXCEPT ![n] = NoId]
      BY <1>1, <1>5, <1>6
    <3> HIDE DEF f, n
    <3> QED  BY <2>1, <3>1, <1>5
  <2>2. CASE m # n
    <3>1. m \in d.pool /\ m \in Nodes /\ \A k \in 1..Len(s) : s[k] # m
      <4>1. m \in d.pool
        <5> HIDE DEF n
        <5> QED  BY <2>2, <1>4
      <4>2. m \in Nodes
        BY <4>1 DEF Sound
      <4> QED  BY <4>1, <4>2, <1>3
    <3>2. l.next[m] = d.list.next[m]
      BY <3>1 DEF OthersKeepTheirLinks
    <3>3. d.list.next[m] = Nil /\ d.list.id[m] = NoId
      BY <3>1 DEF Sound
    <3>4. e.list.next[m] = l.next[m]
      BY <3>1, <2>2, <1>5
    <3>5. e.list.id[m] = d.list.id[m]
      <4> DEFINE f == d.list.id
      <4>1. f \in [Nodes -> Ids \cup {NoId}] /\ e.list.id = [f EXCEPT ![n] = NoId]
        BY <1>5, <1>6
      <4> HIDE DEF f, n
      <4>2. e.list.id[m] = f[m]
        BY <4>1, <3>1, <2>2
      <4> QED  BY <4>2 DEF f
    <3> QED  BY <3>2, <3>3, <3>4, <3>5
  <2> QED  BY <2>1, <2>2
<1>12. Len(t) <= MaxSize /\ e.size = Len(t)
  BY <1>1, <1>4, DeduperAssumption DEF Sound
<1>13. e.seen \in [DOMAIN e.seen -> Nodes] /\ DOMAIN e.seen \subseteq Ids /\ e.pool \subseteq Nodes
  BY <1>1, <1>4 DEF Sound
<1> HIDE DEF x, n
<1>14. Sound(e, t)
  BY <1>5, <1>9, <1>10, <1>11, <1>12, <1>13 DEF Sound
<1> QED  BY <1>4, <1>7, <1>14 DEF x, n

\* A fresh node goes to the end.
LEMMA PutIn ==
  ASSUME NEW d, NEW s, Sound(d, s), Len(s) < MaxSize,
         NEW id \in Ids \ DOMAIN d.seen, NEW n \in Obtainable(d),
         NEW e, e = [seen |-> With(d.seen, id, n), list |-> addToTail(d.list, n, id),
                     pool |-> d.pool \ {n}, size |-> d.size + 1]
  PROVE  Sound(e, Append(s, n)) /\ Content(e, Append(s, n)) = Append(Content(d, s), id)
<1> DEFINE t == Append(s, n)
           l == e.list
<1>1. /\ Chain(d.list, s) /\ d.list \in Lists /\ Len(s) \in Nat /\ s \in Seq(Nodes)
      /\ \A k \in 1..Len(s) : s[k] \in Nodes
  BY ChainShape DEF Sound, Chain
<1>2. /\ Range(d.seen) = {s[k] : k \in 1..Len(s)}
      /\ \A m \in d.pool, k \in 1..Len(s) : m # s[k]
  BY SoundShape
<1>3. n \in Nodes /\ \A k \in 1..Len(s) : s[k] # n
  <2>1. CASE n \in d.pool
    BY <2>1, <1>2 DEF Sound
  <2>2. CASE n \in Nodes \ (Linked(d.list) \cup Range(d.seen))
    BY <2>2, <1>2
  <2> QED  BY <2>1, <2>2 DEF Obtainable
<1>4. /\ e.seen = [z \in DOMAIN d.seen \cup {id} |-> IF z = id THEN n ELSE d.seen[z]]
      /\ l = addToTail(d.list, n, id) /\ e.pool = d.pool \ {n} /\ e.size = d.size + 1
  BY DEF With
<1>5. /\ t \in Seq(Nodes) /\ Len(t) = Len(s) + 1
      /\ t[Len(s) + 1] = n /\ \A k \in 1..Len(s) : t[k] = s[k]
  BY <1>1, <1>3, AppendProperties
<1>6. /\ l \in Lists /\ Chain(l, t) /\ l.id = [d.list.id EXCEPT ![n] = id]
      /\ \A m \in Nodes : m # n /\ m # d.list.tail => l.next[m] = d.list.next[m]
  BY <1>1, <1>3, <1>4, NodeAdded
<1> HIDE DEF t, l
<1>7. /\ d.list.id \in [Nodes -> Ids \cup {NoId}]
      /\ l.id[n] = id /\ \A m \in Nodes \ {n} : l.id[m] = d.list.id[m]
  BY <1>1, <1>3, <1>6 DEF Lists
<1>8. \A k \in 1..Len(t) : k \in 1..Len(s) \/ k = Len(s) + 1
  BY <1>1, <1>5
<1>9. ASSUME NEW k \in 1..Len(t)
      PROVE  l.id[t[k]] \in DOMAIN e.seen /\ e.seen[l.id[t[k]]] = t[k]
  <2>1. CASE k \in 1..Len(s)
    <3>1. t[k] = s[k] /\ l.id[t[k]] = d.list.id[s[k]]
      BY <2>1, <1>1, <1>3, <1>5, <1>7
    <3>2. d.list.id[s[k]] \in DOMAIN d.seen /\ d.seen[d.list.id[s[k]]] = s[k]
      BY <2>1 DEF Sound
    <3> QED  BY <3>1, <3>2, <1>4
  <2>2. CASE k = Len(s) + 1
    BY <2>2, <1>4, <1>5, <1>7
  <2> QED  BY <2>1, <2>2, <1>8
<1>10. ASSUME NEW y \in DOMAIN e.seen
      PROVE  \E k \in 1..Len(t) : e.seen[y] = t[k] /\ l.id[t[k]] = y
  <2>1. CASE y = id
    <3>1. Len(s) + 1 \in 1..Len(t) /\ e.seen[y] = n
      BY <2>1, <1>1, <1>4, <1>5
    <3> QED  BY <3>1, <2>1, <1>5, <1>7
  <2>2. CASE y # id
    <3>1. y \in DOMAIN d.seen /\ e.seen[y] = d.seen[y]
      BY <2>2, <1>4
    <3>2. PICK k \in 1..Len(s) : d.seen[y] = s[k] /\ d.list.id[s[k]] = y
      BY <3>1 DEF Sound
    <3>3. k \in 1..Len(t) /\ t[k] = s[k] /\ l.id[t[k]] = y
      BY <3>2, <1>1, <1>3, <1>5, <1>7
    <3> QED  BY <3>1, <3>2, <3>3
  <2> QED  BY <2>1, <2>2
<1>11. ASSUME NEW m \in e.pool PROVE l.next[m] = Nil /\ l.id[m] = NoId
  <2>1. m \in d.pool /\ m \in Nodes /\ m # n /\ \A k \in 1..Len(s) : s[k] # m
    BY <1>2, <1>4 DEF Sound
  <2>2. m # d.list.tail
    <3>1. s # <<>> => d.list.tail = s[Len(s)] /\ Len(s) \in 1..Len(s)
      BY <1>1, ChainShape DEF Chain
    <3>2. s = <<>> => d.list.tail = Nil
      BY <1>1 DEF Chain
    <3> QED  BY <2>1, <3>1, <3>2, DeduperAssumption
  <2> QED  BY <2>1, <2>2, <1>6, <1>7 DEF Sound
<1>12. Len(t) <= MaxSize /\ e.size = Len(t)
  BY <1>1, <1>4, <1>5, DeduperAssumption DEF Sound
<1>13. e.seen \in [DOMAIN e.seen -> Nodes] /\ DOMAIN e.seen \subseteq Ids /\ e.pool \subseteq Nodes
  BY <1>3, <1>4 DEF Sound
<1>14. Sound(e, t)
  BY <1>6, <1>9, <1>10, <1>11, <1>12, <1>13 DEF Sound, l
<1>15. Content(e, t) = Append(Content(d, s), id)
  <2> DEFINE c == Content(d, s)
  <2>1. c \in Seq(Ids) /\ Len(c) = Len(s) /\ \A k \in 1..Len(s) : c[k] = d.list.id[s[k]]
    BY <1>1, SoundShape DEF Content
  <2> HIDE DEF c
  <2>2. /\ Append(c, id) \in Seq(Ids) /\ Len(Append(c, id)) = Len(s) + 1
        /\ Append(c, id)[Len(s) + 1] = id /\ \A k \in 1..Len(s) : Append(c, id)[k] = c[k]
    BY <2>1, AppendProperties
  <2>3. /\ Content(e, t) \in Seq(Ids) /\ Len(Content(e, t)) = Len(t)
        /\ \A k \in 1..Len(t) : Content(e, t)[k] = l.id[t[k]]
    BY <1>14, <1>1, <1>5, SoundShape DEF Content, l
  <2>4. ASSUME NEW k \in 1..Len(t) PROVE Content(e, t)[k] = Append(c, id)[k]
    <3>1. CASE k \in 1..Len(s)
      <4>1. t[k] = s[k] /\ s[k] \in Nodes \ {n}
        BY <3>1, <1>1, <1>3, <1>5
      <4>2. l.id[t[k]] = d.list.id[s[k]]
        BY <4>1, <1>7
      <4> QED  BY <4>2, <3>1, <2>1, <2>2, <2>3
    <3>2. CASE k = Len(s) + 1
      BY <3>2, <2>2, <2>3, <1>5, <1>7
    <3> QED  BY <3>1, <3>2, <1>8
  <2> QED  BY <2>2, <2>3, <2>4, <1>5, SeqEqual DEF c
<1> QED  BY <1>14, <1>15 DEF t

-----------------------------------------------------------------------------
(* The steps *)

\* The state as a value.
Now == [seen |-> seen, list |-> list, pool |-> pool, size |-> size]

\* The inductive invariant: some sequence of nodes is spelled out by the
\* pointers, and the map, the ids, the counter and the pool agree with it.
ListInv == \E s : Sound(Now, s)

\* The lemmas about windows.
Kept == INSTANCE DedupeWindowProofs

\* They speak of the windows of Promise.
LEMMA SameWindows ==
  ASSUME NEW w, NEW id
  PROVE  /\ Promise!Recorded(w) = Kept!Recorded(w)
         /\ Promise!RecordNew(w, id) = Kept!RecordNew(w, id)
         /\ Promise!Unrecord(w, id) = Kept!Unrecord(w, id)
<1>1. Promise!Recorded(w) = Kept!Recorded(w)
  BY DEF Promise!Recorded, Kept!Recorded
<1>2. Promise!RecordNew(w, id) = Kept!RecordNew(w, id)
  BY DEF Promise!RecordNew, Promise!EvictFIFO, Kept!RecordNew, Kept!EvictFIFO
<1>3. Promise!Unrecord(w, id) = Kept!Unrecord(w, id)
  BY DEF Promise!Unrecord, Promise!DropAt, Promise!Recorded,
         Kept!Unrecord, Kept!DropAt, Kept!Recorded
<1> QED  BY <1>1, <1>2, <1>3

\* Reading the ids by hops from the head is reading them along the chain.
LEMMA IdsAlongTheChain ==
  ASSUME NEW l, NEW s, Chain(l, s)
  PROVE  [k \in 1..Cardinality(Linked(l)) |-> l.id[Hop(l)[k - 1]]]
           = [k \in 1..Len(s) |-> l.id[s[k]]]
BY WalkAlongTheChain

\* The refinement mapping reads the chain's ids.
LEMMA WindowIsTheContent ==
  ASSUME NEW s, Sound(Now, s)
  PROVE  /\ Window = Content(Now, s) /\ Window \in Seq(Ids) /\ Len(Window) = Len(s)
         /\ \A k \in 1..Len(s) : Window[k] = list.id[s[k]]
         /\ Kept!Recorded(Window) = DOMAIN seen
<1>1. Chain(list, s) /\ Len(s) \in Nat
  BY ChainShape DEF Sound, Now
<1>2. Window = [k \in 1..Len(s) |-> list.id[s[k]]]
  BY <1>1, WalkAlongTheChain DEF Window
<1>3. Window = Content(Now, s)
  BY <1>2 DEF Content, Now
<1>4. Window \in Seq(Ids)
  BY <1>3, SoundShape
<1>5. Kept!Recorded(Window) = DOMAIN seen
  <2>1. DOMAIN Window = 1..Len(s) /\ \A k \in 1..Len(s) : Window[k] = list.id[s[k]]
    BY <1>2
  <2>2. Kept!Recorded(Window) = {list.id[s[k]] : k \in 1..Len(s)}
    BY <2>1 DEF Kept!Recorded
  <2>3. /\ \A k \in 1..Len(s) : list.id[s[k]] \in DOMAIN seen
        /\ \A x \in DOMAIN seen : \E k \in 1..Len(s) : list.id[s[k]] = x
    BY DEF Sound, Now
  <2> QED  BY <2>2, <2>3
<1> QED  BY <1>1, <1>2, <1>3, <1>4, <1>5

\* evictFIFO leaves room and forgets the oldest id, if it forgets one.
LEMMA EvictedIsSound ==
  ASSUME NEW s, Sound(Now, s)
  PROVE  \E t : /\ Sound(Evicted, t) /\ Len(t) < MaxSize
                /\ Content(Evicted, t) = Kept!EvictFIFO(Window)
                /\ DOMAIN Evicted.seen \subseteq DOMAIN seen
<1>1. /\ Chain(list, s) /\ Len(s) \in Nat /\ Len(s) <= MaxSize /\ list \in Lists
      /\ (s = <<>> <=> Len(s) = 0) /\ s \in Seq(Nodes) /\ MaxSize \in Nat /\ MaxSize > 0
      /\ \A k \in 1..Len(s) : s[k] # Nil
  BY ChainShape, DeduperAssumption DEF Sound, Now, Chain
<1>2. Full <=> Len(s) >= MaxSize
  BY SoundShape DEF Full, Now
<1>3. /\ Window = Content(Now, s) /\ Window \in Seq(Ids) /\ Len(Window) = Len(s)
      /\ \A k \in 1..Len(s) : Window[k] = list.id[s[k]]
  BY WindowIsTheContent
<1>4. CASE Len(s) < MaxSize
  <2>1. Evicted = Now
    BY <1>1, <1>2, <1>4 DEF Evicted, Now
  <2>2. Kept!EvictFIFO(Window) = Window
    BY <1>1, <1>3, <1>4 DEF Kept!EvictFIFO
  <2> QED  BY <2>1, <2>2, <1>3, <1>4 DEF Now
<1>5. CASE Len(s) >= MaxSize
  <2> DEFINE t == Tail(s)
             l == removeHead(list)
  <2>1. 1 \in 1..Len(s) /\ list.head = s[1] /\ list.head # Nil /\ Len(s) = MaxSize
    BY <1>1, <1>5 DEF Chain
  <2>2. Shorter(s, t, 1) /\ Len(t) = Len(s) - 1 /\ \A k \in 1..Len(t) : t[k] = s[k + 1]
    BY <1>1, <2>1, HeadTailProperties DEF Shorter
  <2>3. l \in Lists /\ l.id = list.id /\ Chain(l, t) /\ OthersKeepTheirLinks(list, s, l)
    BY <1>1, <2>1, <2>2, HeadRemoved
  <2>4. Evicted = [seen |-> Without(seen, list.id[s[1]]), list |-> reset(l, s[1]),
                   pool |-> pool \cup {s[1]}, size |-> size - 1]
    BY <1>2, <1>5, <2>1 DEF Evicted
  <2> HIDE DEF t, l
  <2>5. /\ Sound(Evicted, t)
        /\ \A k \in 1..Len(t) : Evicted.list.id[t[k]] = list.id[t[k]]
        /\ DOMAIN Evicted.seen = DOMAIN seen \ {list.id[s[1]]}
    <3>1. Now.seen = seen /\ Now.list = list /\ Now.pool = pool /\ Now.size = size
      BY DEF Now
    <3>2. /\ Evicted.seen = Without(Now.seen, Now.list.id[s[1]])
          /\ Evicted.list = reset(l, s[1]) /\ Evicted.pool = Now.pool \cup {s[1]}
          /\ Evicted.size = Now.size - 1
      BY <2>4, <3>1
    <3>3. l.id = Now.list.id /\ OthersKeepTheirLinks(Now.list, s, l)
      BY <2>3, <3>1
    <3>4. /\ Sound(Evicted, t)
          /\ \A k \in 1..Len(t) : Evicted.list.id[t[k]] = Now.list.id[t[k]]
          /\ DOMAIN Evicted.seen = DOMAIN Now.seen \ {Now.list.id[s[1]]}
      <4>1. 1 \in 1..Len(s) /\ Shorter(s, t, 1) /\ l \in Lists /\ Chain(l, t)
        BY <2>1, <2>2, <2>3
      <4> HIDE DEF Now
      <4>2. Sound(Evicted, t)
        BY <4>1, <3>2, <3>3, TakenOut
      <4>3. \A k \in 1..Len(t) : Evicted.list.id[t[k]] = Now.list.id[t[k]]
        BY <4>1, <3>2, <3>3, TakenOut
      <4>4. DOMAIN Evicted.seen = DOMAIN Now.seen \ {Now.list.id[s[1]]}
        <5>1. ASSUME NEW f, NEW y PROVE DOMAIN Without(f, y) = DOMAIN f \ {y}
          BY DEF Without, Restrict
        <5>2. DOMAIN Without(Now.seen, Now.list.id[s[1]]) = DOMAIN Now.seen \ {Now.list.id[s[1]]}
          BY <5>1, Zenon
        <5> QED  BY <5>2, <3>2, Zenon
      <4> QED  BY <4>2, <4>3, <4>4
    <3> QED  BY <3>1, <3>4
  <2>6. Content(Evicted, t) = Kept!EvictFIFO(Window)
    <3>1. /\ Kept!EvictFIFO(Window) = Tail(Window) /\ Tail(Window) \in Seq(Ids)
          /\ Len(Tail(Window)) = Len(s) - 1
          /\ \A k \in 1..(Len(s) - 1) : Tail(Window)[k] = Window[k + 1]
      <4>1. Window # <<>>
        BY <1>1, <1>3, <2>1, EmptySeq
      <4> QED  BY <4>1, <1>3, <1>5, HeadTailProperties DEF Kept!EvictFIFO
    <3>2. Content(Evicted, t) \in Seq(Ids)
      BY <2>5, SoundShape
    <3>3. /\ Len(Content(Evicted, t)) = Len(t)
          /\ \A k \in 1..Len(t) : Content(Evicted, t)[k] = list.id[t[k]]
      BY <2>2, <2>5, <1>1 DEF Content
    <3>4. \A k \in 1..Len(t) : k + 1 \in 1..Len(s)
      BY <2>2, <1>1
    <3>5. \A k \in 1..Len(t) : Content(Evicted, t)[k] = Tail(Window)[k]
      BY <3>1, <3>3, <3>4, <2>2, <1>3
    <3>6. Len(Content(Evicted, t)) = Len(Tail(Window))
      BY <3>1, <3>3, <2>2
    <3>7. Content(Evicted, t) = Tail(Window)
      BY <3>1, <3>2, <3>3, <3>5, <3>6, SeqEqual
    <3> QED  BY <3>1, <3>7
  <2> QED  BY <2>1, <2>2, <2>5, <2>6, <1>1
<1> QED  BY <1>1, <1>4, <1>5

\* The same for the window after a step.
LEMMA NextWindowIsTheContent ==
  ASSUME NEW s, Sound(Now', s)
  PROVE  Window' = Content(Now', s)
<1>1. Now'.list = list' /\ Chain(list', s)
  BY DEF Now, Sound
<1>2. Window' = [k \in 1..Len(s) |-> list'.id[s[k]]]
  BY <1>1, IdsAlongTheChain DEF Window
<1> QED  BY <1>1, <1>2 DEF Content

\* SeenAndRecord of a new id.
LEMMA RecordingStep ==
  ASSUME ListInv, NEW id \in Ids, NewlyRecorded(id)
  PROVE  ListInv' /\ Promise!NewlyRecorded(id)
<1>1. PICK s : Sound(Now, s)
  BY DEF ListInv
<1>2. PICK t : /\ Sound(Evicted, t) /\ Len(t) < MaxSize
               /\ Content(Evicted, t) = Kept!EvictFIFO(Window)
               /\ DOMAIN Evicted.seen \subseteq DOMAIN seen
  BY <1>1, EvictedIsSound
<1>3. PICK n \in Obtainable(Evicted) :
        Now' = [seen |-> With(Evicted.seen, id, n), list |-> addToTail(Evicted.list, n, id),
                pool |-> Evicted.pool \ {n}, size |-> Evicted.size + 1]
  BY DEF NewlyRecorded, Now
<1>4. id \in Ids \ DOMAIN Evicted.seen
  BY <1>2 DEF NewlyRecorded
<1>5. /\ Sound(Now', Append(t, n))
      /\ Content(Now', Append(t, n)) = Append(Content(Evicted, t), id)
  BY <1>2, <1>3, <1>4, PutIn
<1>6. Window' = Kept!RecordNew(Window, id)
  BY <1>2, <1>5, NextWindowIsTheContent DEF Kept!RecordNew
<1>7. id \notin Kept!Recorded(Window)
  BY <1>1, WindowIsTheContent DEF NewlyRecorded
<1>8. ListInv'
  BY <1>5 DEF ListInv
<1> QED  BY <1>6, <1>7, <1>8, SameWindows DEF NewlyRecorded, Promise!NewlyRecorded

\* Unrecord, wherever in the list the id's node is.
LEMMA ForgettingStep ==
  ASSUME ListInv, NEW id \in Ids, Forget(id)
  PROVE  ListInv' /\ Promise!Forget(id)
<1>1. PICK s : Sound(Now, s)
  BY DEF ListInv
<1>2. /\ Window = Content(Now, s) /\ Window \in Seq(Ids) /\ Len(Window) = Len(s)
      /\ \A k \in 1..Len(s) : Window[k] = list.id[s[k]]
      /\ Kept!Recorded(Window) = DOMAIN seen
  BY <1>1, WindowIsTheContent
<1>3. CASE id \notin DOMAIN seen
  <2>1. Now' = Now
    BY <1>3 DEF Forget, Now
  <2>2. ListInv' /\ Window' = Window
    BY <1>1, <1>2, <2>1, NextWindowIsTheContent DEF ListInv
  <2>3. Kept!Unrecord(Window, id) = Window
    BY <1>2, <1>3 DEF Kept!Unrecord
  <2> QED  BY <2>2, <2>3, SameWindows DEF Forget, Promise!Forget
<1>4. CASE id \in DOMAIN seen
  <2>1. /\ Chain(list, s) /\ list \in Lists /\ s \in Seq(Nodes) /\ Len(s) \in Nat
        /\ \A j, k \in 1..Len(s) : list.id[s[j]] = list.id[s[k]] => j = k
    BY <1>1, ChainShape, SoundShape DEF Sound, Now, Chain
  <2>2. PICK i \in 1..Len(s) : seen[id] = s[i] /\ list.id[s[i]] = id
    BY <1>1, <1>4 DEF Sound, Now
  <2> DEFINE t == Kept!DropAt(s, i)
             l == removeFromLinkedList(list, s[i])
             w == Kept!DropAt(Window, i)
  <2>3. Shorter(s, t, i)
    BY <2>1, Kept!DropAtShape, DeduperAssumption DEF Shorter
  <2>4. /\ w \in Seq(Ids) /\ Len(w) = Len(s) - 1
        /\ \A k \in 1..(Len(s) - 1) : w[k] = IF k < i THEN Window[k] ELSE Window[k + 1]
    <3>1. Window \in Seq(Ids) /\ i \in 1..Len(Window)
      BY <1>2
    <3>2. /\ w \in Seq(Ids) /\ Len(w) = Len(Window) - 1
          /\ \A k \in 1..(Len(Window) - 1) : w[k] = IF k < i THEN Window[k] ELSE Window[k + 1]
      BY <3>1, Kept!DropAtShape, DeduperAssumption
    <3> QED  BY <3>2, <1>2
  <2>5. Kept!Unrecord(Window, id) = w
    <3>1. DOMAIN Window = 1..Len(s) /\ Window[i] = id
      BY <1>2, <2>2
    <3>2. \A j \in DOMAIN Window : Window[j] = id => j = i
      BY <3>1, <1>2, <2>1, <2>2
    <3>3. (CHOOSE j \in DOMAIN Window : Window[j] = id) = i
      BY <3>1, <3>2
    <3> QED  BY <3>3, <1>2, <1>4 DEF Kept!Unrecord
  <2> HIDE DEF t, w
  <2>6. l \in Lists /\ l.id = list.id /\ Chain(l, t) /\ OthersKeepTheirLinks(list, s, l)
    BY <2>1, <2>3, NodeRemoved
  <2>7. /\ Now.seen = seen /\ Now.list = list /\ Now.pool = pool /\ Now.size = size
        /\ Now'.seen = seen' /\ Now'.list = list' /\ Now'.pool = pool' /\ Now'.size = size'
    BY DEF Now
  <2>8. /\ Now'.seen = Without(Now.seen, Now.list.id[s[i]]) /\ Now'.list = reset(l, s[i])
        /\ Now'.pool = Now.pool \cup {s[i]} /\ Now'.size = Now.size - 1
    BY <1>4, <2>2, <2>7 DEF Forget
  <2> HIDE DEF l
  <2>9. Sound(Now', t)
    BY <1>1, <2>3, <2>6, <2>7, <2>8, TakenOut
  <2>10. \A k \in 1..Len(t) : list'.id[t[k]] = list.id[t[k]]
    <3>1. \A k \in 1..Len(t) : Now'.list.id[t[k]] = Now.list.id[t[k]]
      BY <1>1, <2>3, <2>6, <2>7, <2>8, <2>9, TakenOut
    <3> QED  BY <3>1, <2>7
  <2>11. Window' = w
    <3>1. Window' = Content(Now', t) /\ Window' \in Seq(Ids)
      BY <2>9, NextWindowIsTheContent, SoundShape
    <3>2. Len(t) = Len(s) - 1 /\ \A k \in 1..Len(t) : t[k] = IF k < i THEN s[k] ELSE s[k + 1]
      BY <2>3 DEF Shorter
    <3>3. Len(Window') = Len(t) /\ \A k \in 1..Len(t) : Window'[k] = list.id[t[k]]
      BY <3>1, <3>2, <2>1, <2>7, <2>10 DEF Content
    <3>4. ASSUME NEW k \in 1..Len(t) PROVE Window'[k] = w[k]
      <4>1. k \in 1..(Len(s) - 1) /\ k \in 1..Len(s) /\ k + 1 \in 1..Len(s)
        BY <3>2, <2>1
      <4>2. CASE k < i
        <5>1. t[k] = s[k] /\ w[k] = Window[k]
          BY <4>1, <4>2, <3>2, <2>4
        <5> QED  BY <5>1, <4>1, <3>3, <1>2
      <4>3. CASE ~(k < i)
        <5>1. t[k] = s[k + 1] /\ w[k] = Window[k + 1]
          BY <4>1, <4>3, <3>2, <2>4
        <5> QED  BY <5>1, <4>1, <3>3, <1>2
      <4> QED  BY <4>2, <4>3
    <3>5. Len(Window') = Len(w)
      BY <3>2, <3>3, <2>4
    <3> QED  BY <3>1, <3>3, <3>4, <3>5, <2>4, SeqEqual
  <2>12. ListInv'
    BY <2>9 DEF ListInv
  <2> QED  BY <2>5, <2>11, <2>12, SameWindows DEF Forget, Promise!Forget
<1> QED  BY <1>3, <1>4

\* Init: the empty list.
LEMMA ListInit == Init => ListInv /\ Promise!Init
<1> SUFFICES ASSUME Init PROVE ListInv /\ Promise!Init
  OBVIOUS
<1>1. Sound(Now, <<>>)
  <2>1. <<>> \in Seq(Nodes) /\ Len(<<>>) = 0 /\ 1..0 = {}
    BY EmptySeq
  <2>2. Chain(list, <<>>)
    BY <2>1 DEF Init, Chain
  <2>3. list \in Lists
    BY DEF Init, Lists
  <2>4. DOMAIN seen = {} /\ seen \in [DOMAIN seen -> Nodes]
    BY DEF Init
  <2> QED  BY <2>1, <2>2, <2>3, <2>4, DeduperAssumption DEF Init, Sound, Now
<1>2. Window = <<>>
  <2>1. Window \in Seq(Ids) /\ Len(Window) = 0
    BY <1>1, WindowIsTheContent, EmptySeq
  <2> QED  BY <2>1, EmptySeq
<1> QED  BY <1>1, <1>2 DEF Init, Promise!Init, ListInv

\* Every step keeps the list in shape and is a step of the FIFO deduper.
LEMMA ListStep == ListInv /\ [Next]_vars => ListInv' /\ [Promise!Next]_Promise!fifo
<1> SUFFICES ASSUME ListInv, [Next]_vars PROVE ListInv' /\ [Promise!Next]_Promise!fifo
  OBVIOUS
<1>1. ASSUME NEW id \in Ids, Seen(id) PROVE ListInv' /\ Promise!Seen(id)
  <2>1. PICK s : Sound(Now, s)
    BY DEF ListInv
  <2>2. Now' = Now /\ list' = list
    BY <1>1 DEF Seen, Now
  <2>3. ListInv' /\ Window' = Window
    BY <2>1, <2>2 DEF ListInv, Window
  <2>4. id \in Kept!Recorded(Window)
    BY <1>1, <2>1, WindowIsTheContent DEF Seen
  <2> QED  BY <1>1, <2>3, <2>4, SameWindows DEF Seen, Promise!Seen
<1>2. CASE UNCHANGED vars
  <2>1. Now' = Now /\ list' = list /\ UNCHANGED <<answer, since>>
    BY <1>2 DEF vars, Now
  <2>2. ListInv' /\ Window' = Window
    BY <2>1 DEF ListInv, Window
  <2> QED  BY <2>1, <2>2 DEF Promise!fifo
<1> QED  BY <1>1, <1>2, RecordingStep, ForgettingStep DEF Next, Promise!Next

-----------------------------------------------------------------------------
(* The theorems *)

\* The map, the linked list, the pool and the counter answer every call of
\* SeenAndRecord and Unrecord as the FIFO window does, and evict in its order.
THEOREM DeduperImplementsFifo == Spec => FifoSpec
<1> QED  BY ListInit, ListStep, PTL DEF Spec, FifoSpec, Promise!Spec

\* An id is recognised until MaxSize others have been recorded after it, in
\* the FIFO window as such: evictions take the oldest only, and a rollback
\* moves nobody towards the head past those that were there before.
THEOREM FifoRemembers == FifoSpec => []RemembersLastMaxSize
<1> DEFINE I == Kept!Remembers(Ids, Window, since)
<1>1. MaxSize \in Nat \ {0}
  BY DeduperAssumption
<1>2. Promise!Init => I
  <2> SUFFICES ASSUME Promise!Init PROVE I
    OBVIOUS
  <2>1. Window = <<>> /\ since = [x \in Ids |-> MaxSize]
    BY DEF Promise!Init
  <2>2. Window \in Kept!Windows(Ids) /\ Len(Window) = 0
    BY <2>1, EmptySeq, <1>1 DEF Kept!Windows
  <2> QED  BY <2>1, <2>2, <1>1 DEF Kept!Remembers, Kept!Aged, Kept!KeepsLast
<1>3. I /\ [Promise!Next]_Promise!fifo => I'
  <2> SUFFICES ASSUME I, [Promise!Next]_Promise!fifo PROVE I'
    OBVIOUS
  <2>1. ASSUME NEW id \in Ids, Promise!NewlyRecorded(id) PROVE I'
    <3>1. /\ id \notin Kept!Recorded(Window) /\ Window' = Kept!RecordNew(Window, id)
          /\ since' = [x \in Ids |-> IF x = id THEN 0
                                    ELSE IF since[x] < MaxSize THEN since[x] + 1 ELSE MaxSize]
      BY <2>1, SameWindows DEF Promise!NewlyRecorded
    <3>2. Kept!Remembers(Ids, Window', since')
      BY <1>1, <3>1, Kept!RecordingAges
    <3> QED  BY <3>2
  <2>2. ASSUME NEW id \in Ids, Promise!Forget(id) PROVE I'
    <3>1. Window' = Kept!Unrecord(Window, id) /\ since' = [since EXCEPT ![id] = MaxSize]
      BY <2>2, SameWindows DEF Promise!Forget
    <3>2. Kept!Remembers(Ids, Window', since')
      BY <1>1, <3>1, Kept!ForgettingKeepsAge
    <3> QED  BY <3>2
  <2>3. UNCHANGED <<Window, since>> => I'
    OBVIOUS
  <2>4. ASSUME NEW id \in Ids, Promise!Seen(id) PROVE UNCHANGED <<Window, since>>
    BY <2>4 DEF Promise!Seen
  <2>5. CASE UNCHANGED Promise!fifo
    BY <2>3, <2>5 DEF Promise!fifo
  <2> QED  BY <2>1, <2>2, <2>3, <2>4, <2>5 DEF Promise!Next
<1>4. I => RemembersLastMaxSize
  BY SameWindows DEF Kept!Remembers, Kept!KeepsLast, RemembersLastMaxSize,
                     Promise!RemembersLastMaxSize
<1> QED  BY <1>2, <1>3, <1>4, PTL DEF FifoSpec, Promise!Spec

\* A duplicate is refused until MaxSize other ids have been recorded after it:
\* what holds of the FIFO window holds of the pointers.
THEOREM DeduperRemembers == Spec => []RemembersLastMaxSize
BY DeduperImplementsFifo, FifoRemembers, PTL

\* The list never has a cycle, a lost node or a stale tail, and the counter
\* is the number of ids, after any sequence of records, evictions and rollbacks.
THEOREM ListsMatchMaps == Spec => []ListMatchesMap
<1>1. ListInv => ListMatchesMap
  <2> SUFFICES ASSUME NEW s, Sound(Now, s) PROVE ListMatchesMap
    BY DEF ListInv
  <2>1. /\ Chain(list, s) /\ seen \in [DOMAIN seen -> Nodes]
        /\ \A x \in DOMAIN seen : list.id[seen[x]] = x
        /\ size = Len(s)
    BY DEF Sound, Now
  <2>2. /\ Linked(list) = {s[i] : i \in 1..Len(s)} /\ Cardinality(Linked(list)) = Len(s)
        /\ Hop(list)[Len(s)] = Nil
        /\ \A i \in 1..Len(s) : Hop(list)[i - 1] = s[i]
    BY <2>1, WalkAlongTheChain
  <2>3. Range(seen) = {s[i] : i \in 1..Len(s)} /\ Cardinality(DOMAIN seen) = Len(s)
    BY SoundShape DEF Now
  <2>4. Len(s) \in Nat /\ (s = <<>> <=> Len(s) = 0)
    BY <2>1, ChainShape
  <2>5. seen = <<>> <=> s = <<>>
    <3>1. s = <<>> <=> DOMAIN seen = {}
      <4>1. /\ \A i \in 1..Len(s) : list.id[s[i]] \in DOMAIN seen
            /\ \A x \in DOMAIN seen : \E i \in 1..Len(s) : seen[x] = s[i]
        BY DEF Sound, Now
      <4>2. Len(s) # 0 => 1 \in 1..Len(s)
        BY <2>4
      <4>3. Len(s) = 0 => 1..Len(s) = {}
        OBVIOUS
      <4> QED  BY <4>1, <4>2, <4>3, <2>4
    <3>2. DOMAIN seen = {} <=> seen = <<>>
      BY <2>1
    <3> QED  BY <3>1, <3>2
  <2>6. s # <<>> => list.tail = Hop(list)[Len(s) - 1]
    BY <2>1, <2>2, <2>4 DEF Chain
  <2>7. s = <<>> => list.tail = Nil
    BY <2>1 DEF Chain
  <2> QED  BY <2>1, <2>2, <2>3, <2>5, <2>6, <2>7 DEF ListMatchesMap
<1> QED  BY <1>1, ListInit, ListStep, PTL DEF Spec

\* A node that is in the pool is blank and in no list.
THEOREM PoolStaysApart == Spec => []PoolIsApart
<1>1. ListInv => PoolIsApart
  <2> SUFFICES ASSUME NEW s, Sound(Now, s) PROVE PoolIsApart
    BY DEF ListInv
  <2>1. Chain(list, s) /\ \A n \in pool : list.next[n] = Nil /\ list.id[n] = NoId
    BY DEF Sound, Now
  <2>2. Linked(list) = {s[i] : i \in 1..Len(s)}
    BY <2>1, WalkAlongTheChain
  <2>3. \A n \in pool, i \in 1..Len(s) : n # s[i]
    BY SoundShape DEF Now
  <2> QED  BY <2>1, <2>2, <2>3 DEF PoolIsApart
<1> QED  BY <1>1, ListInit, ListStep, PTL DEF Spec
=============================================================================
