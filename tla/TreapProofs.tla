---------------------------- MODULE TreapProofs ----------------------------
(***************************************************************************)
(* Proofs about the treap, for any talents, hashes, range of int64 and     *)
(* scores, and about the concurrent store built on it, for any writers,    *)
(* readers, updates and limit.                                             *)
(***************************************************************************)
EXTENDS MCTreap, TreapStore, FiniteSetTheorems, SequenceTheorems, WellFoundedInduction, TLAPS

-----------------------------------------------------------------------------
(* Counting up *)

\* A set of numbers that holds 0 and with every number the next one holds them
\* all: what induction on the size of a tree comes down to here.
LEMMA CountingUp ==
  ASSUME NEW S \in SUBSET Nat, 0 \in S, \A k \in S : k + 1 \in S
  PROVE  S = Nat
<1> DEFINE Segments == {0..k : k \in Nat \ S}
           R == StrictSubsetOrdering(Nat)
<1>1. Segments \subseteq FiniteSubsetsOf(Nat)
  <2>1. ASSUME NEW k \in Nat PROVE 0..k \in FiniteSubsetsOf(Nat)
    <3>1. IsFiniteSet(0..k)
      BY FS_Interval
    <3> QED  BY <3>1 DEF FiniteSubsetsOf
  <2> QED  BY <2>1
<1>2. IsWellFoundedOn(R, FiniteSubsetsOf(Nat))
  BY FS_StrictSubsetOrderingWellFounded
<1>3. ASSUME Segments # {} PROVE FALSE
  <2>1. PICK s \in Segments : \A r \in Segments : <<r, s>> \notin R
    <3> HIDE DEF R, Segments
    <3> QED  BY <1>1, <1>2, <1>3, WFMin
  <2>2. PICK m \in Nat \ S : s = 0..m
    OBVIOUS
  <2>3. m # 0 /\ m - 1 \in Nat /\ m - 1 \notin S
    BY <2>2
  <2>4. 0..(m - 1) \in Segments
    BY <2>3
  <2>5. <<0..(m - 1), s>> \in R
    <3>1. 0..(m - 1) \subseteq 0..m /\ 0..(m - 1) # 0..m
      <4>1. m \in 0..m /\ m \notin 0..(m - 1)
        BY <2>2
      <4> QED  BY <2>2, <2>3, <4>1
    <3>2. 0..(m - 1) \in SUBSET Nat /\ s \in SUBSET Nat
      BY <2>2
    <3> QED  BY <3>1, <3>2, <2>2 DEF StrictSubsetOrdering
  <2> QED  BY <2>1, <2>4, <2>5
<1> QED  BY <1>3

-----------------------------------------------------------------------------
(* Nodes and the subtrees below them *)

\* A node before fix has seen to its size, and after.
Cell(i, s, p, l, r, z) ==
  [id |-> i, score |-> s, prio |-> p, left |-> l, right |-> r, size |-> z]

Node(i, s, p, l, r) == Cell(i, s, p, l, r, 1 + nsize(l) + nsize(r))

IsNode(m) ==
  /\ m = Node(m.id, m.score, m.prio, m.left, m.right)
  /\ m.id \in Talents /\ m.score \in Int /\ m.prio \in Int
  /\ nsize(m.left) \in Nat /\ nsize(m.right) \in Nat

\* Nothing but nodes and Nil, and with every node its children.
Whole(S) == \A m \in S \ {Nil} : IsNode(m) /\ m.left \in S /\ m.right \in S

Below(S) == UNION {{m.left, m.right} : m \in S \ {Nil}}

\* A node is not Nil, and its fields are what it was made of.
LEMMA NodeFields ==
  ASSUME NEW i, NEW s, NEW p, NEW l, NEW r
  PROVE  /\ Node(i, s, p, l, r) # Nil
         /\ Node(i, s, p, l, r).id = i /\ Node(i, s, p, l, r).score = s
         /\ Node(i, s, p, l, r).prio = p
         /\ Node(i, s, p, l, r).left = l /\ Node(i, s, p, l, r).right = r
         /\ nsize(Node(i, s, p, l, r)) = 1 + nsize(l) + nsize(r)
<1>1. Node(i, s, p, l, r) # Nil
  <2>1. "id" \in DOMAIN Node(i, s, p, l, r)
    BY DEF Node, Cell
  <2>2. "id" \notin DOMAIN Nil
    BY DEF Nil
  <2> QED  BY <2>1, <2>2
<1> QED  BY <1>1 DEF Node, Cell, nsize

LEMMA NodesHaveSizes ==
  ASSUME NEW m, IsNode(m)
  PROVE  m # Nil /\ nsize(m) = 1 + nsize(m.left) + nsize(m.right) /\ nsize(m) \in Nat \ {0}
         /\ nsize(m.left) < nsize(m) /\ nsize(m.right) < nsize(m)
<1>1. m # Nil /\ nsize(m) = 1 + nsize(m.left) + nsize(m.right)
  BY NodeFields DEF IsNode
<1> QED  BY <1>1 DEF IsNode

LEMMA NilSize == nsize(Nil) = 0
BY DEF nsize

\* The set Subtrees(n) is reached step by step: there are functions that satisfy
\* the equation of the one in its definition.
LEMMA StepByStep ==
  ASSUME NEW n, nsize(n) \in Nat
  PROVE  \E w : /\ Subtrees(n) = w[nsize(n)]
                /\ w[0] = {n}
                /\ \A k \in 1..nsize(n) : w[k] = w[k - 1] \cup Below(w[k - 1])
<1> DEFINE N == nsize(n)
           Solves(g, k) == g[0] = {n} /\ \A j \in 1..k : g[j] = g[j - 1] \cup Below(g[j - 1])
           S == {k \in Nat : \E g : Solves(g, k)}
           Follows(f) == f = [k \in 0..N |-> IF k = 0 THEN {n} ELSE f[k - 1] \cup Below(f[k - 1])]
<1>1. 0 \in S
  <2> DEFINE g == [k \in {0} |-> {n}]
  <2>1. Solves(g, 0)
    OBVIOUS
  <2> HIDE DEF g, Solves
  <2> QED  BY <2>1
<1>2. ASSUME NEW k \in S PROVE k + 1 \in S
  <2>1. PICK g : Solves(g, k)
    OBVIOUS
  <2> DEFINE h == [j \in 0..(k + 1) |-> IF j = k + 1 THEN g[k] \cup Below(g[k]) ELSE g[j]]
  <2>2. h[0] = {n}
    BY <2>1
  <2>3. ASSUME NEW j \in 1..(k + 1) PROVE h[j] = h[j - 1] \cup Below(h[j - 1])
    <3>1. h[j - 1] = g[j - 1]
      OBVIOUS
    <3>2. CASE j = k + 1
      BY <3>1, <3>2
    <3>3. CASE j # k + 1
      <4>1. h[j] = g[j] /\ j \in 1..k
        BY <3>3
      <4> HIDE DEF h
      <4> QED  BY <2>1, <3>1, <4>1
    <3> QED  BY <3>2, <3>3
  <2>4. Solves(h, k + 1)
    BY <2>2, <2>3
  <2> HIDE DEF h, Solves
  <2> QED  BY <2>4
<1>3. S = Nat
  <2> HIDE DEF S
  <2>1. S \in SUBSET Nat
    BY DEF S
  <2> QED  BY <1>1, <1>2, <2>1, CountingUp
<1>4. PICK g : Solves(g, N)
  BY <1>3
<1> DEFINE f == [k \in 0..N |-> g[k]]
<1>5. Follows(f)
  <2>1. ASSUME NEW k \in 0..N
        PROVE  g[k] = IF k = 0 THEN {n} ELSE f[k - 1] \cup Below(f[k - 1])
    <3>1. CASE k = 0
      BY <1>4, <3>1
    <3>2. CASE k # 0
      <4>1. k \in 1..N /\ f[k - 1] = g[k - 1]
        BY <3>2
      <4> HIDE DEF f
      <4> QED  BY <1>4, <3>2, <4>1
    <3> QED  BY <3>1, <3>2
  <2> QED  BY <2>1
<1> DEFINE w == CHOOSE e : Follows(e)
<1>6. Follows(w)
  <2> HIDE DEF Follows, f
  <2> QED  BY <1>5
<1>7. Subtrees(n) = w[N]
  BY DEF Subtrees, Below
<1>8. w[0] = {n} /\ \A k \in 1..N : w[k] = w[k - 1] \cup Below(w[k - 1])
  <2> HIDE DEF w
  <2>1. \A k \in 0..N : w[k] = IF k = 0 THEN {n} ELSE w[k - 1] \cup Below(w[k - 1])
    BY <1>6
  <2>2. 0 \in 0..N /\ \A k \in 1..N : k \in 0..N /\ k # 0
    OBVIOUS
  <2> QED  BY <2>1, <2>2
<1> HIDE DEF w
<1> QED  BY <1>7, <1>8

\* Subtrees(n) is the least whole set that n is in.
LEMMA SubtreesAreLeast ==
  ASSUME NEW n, NEW S, Whole(S), n \in S
  PROVE  n \in Subtrees(n) /\ Subtrees(n) \subseteq S /\ Whole(Subtrees(n))
<1> DEFINE N == nsize(n)
<1>1. \A m \in S : nsize(m) \in Nat
  BY NodesHaveSizes, NilSize DEF Whole
<1>2. PICK w : /\ Subtrees(n) = w[N]
               /\ w[0] = {n}
               /\ \A k \in 1..N : w[k] = w[k - 1] \cup Below(w[k - 1])
  BY <1>1, StepByStep
<1> DEFINE \* whatever k rounds add is small enough
           Shrinks(k) == \A m \in w[k] : nsize(m) <= N - k \/ (k > 0 /\ m \in w[k - 1])
           K == {k \in Nat : k <= N => n \in w[k] /\ w[k] \subseteq S /\ Shrinks(k)}
<1>3. 0 \in K
  BY <1>1, <1>2
<1>4. ASSUME NEW k \in K PROVE k + 1 \in K
  <2> SUFFICES ASSUME k + 1 <= N
               PROVE  n \in w[k + 1] /\ w[k + 1] \subseteq S /\ Shrinks(k + 1)
    OBVIOUS
  <2>1. k \in Nat /\ N \in Nat /\ k + 1 \in 1..N
    BY <1>1
  <2>2. n \in w[k] /\ w[k] \subseteq S /\ Shrinks(k)
    BY <2>1
  <2>3. w[k + 1] = w[k] \cup Below(w[k])
    BY <1>2, <2>1
  <2>4. Below(w[k]) \subseteq S
    BY <2>2 DEF Below, Whole
  <2>5. ASSUME NEW m \in Below(w[k]), m \notin w[k] PROVE nsize(m) <= N - (k + 1)
    <3>1. PICK q \in w[k] \ {Nil} : m = q.left \/ m = q.right
      BY DEF Below
    <3>2. IsNode(q) /\ q \in S
      BY <2>2 DEF Whole
    <3>3. nsize(m) < nsize(q) /\ nsize(q) \in Nat /\ nsize(m) \in Nat
      BY <3>1, <3>2, NodesHaveSizes DEF IsNode
    <3>4. ASSUME k > 0, q \in w[k - 1] PROVE FALSE
      <4>1. w[k] = w[k - 1] \cup Below(w[k - 1])
        BY <1>2, <2>1, <3>4
      <4>2. m \in Below(w[k - 1])
        BY <3>1, <3>4 DEF Below
      <4> QED  BY <4>1, <4>2, <2>5
    <3>5. nsize(q) <= N - k
      BY <2>2, <3>4
    <3> QED  BY <3>3, <3>5, <2>1
  <2> QED  BY <2>1, <2>2, <2>3, <2>4, <2>5
<1>5. K = Nat
  <2> HIDE DEF K
  <2>1. K \in SUBSET Nat
    BY DEF K
  <2> QED  BY <1>3, <1>4, <2>1, CountingUp
<1>6. n \in w[N] /\ w[N] \subseteq S /\ Shrinks(N)
  BY <1>1, <1>5
<1>7. ASSUME NEW m \in w[N] \ {Nil} PROVE m.left \in w[N] /\ m.right \in w[N]
  <2>1. IsNode(m)
    BY <1>6 DEF Whole
  <2>2. nsize(m) \in Nat \ {0}
    BY <2>1, NodesHaveSizes
  <2>3. N > 0 /\ m \in w[N - 1]
    BY <1>1, <1>6, <2>2
  <2>4. w[N] = w[N - 1] \cup Below(w[N - 1])
    BY <1>1, <1>2, <2>3
  <2>5. m.left \in Below(w[N - 1]) /\ m.right \in Below(w[N - 1])
    BY <2>3 DEF Below
  <2> QED  BY <2>4, <2>5
<1>8. Whole(w[N])
  BY <1>6, <1>7 DEF Whole
<1> QED  BY <1>2, <1>6, <1>8

-----------------------------------------------------------------------------
(* Trees *)

Tree(n) == n \in Subtrees(n) /\ Whole(Subtrees(n))

\* To show that all of a tree has a property it is enough that the root has it
\* and that it passes from a node to its children.
LEMMA TreeInduction ==
  ASSUME NEW n, Tree(n), NEW S, S \subseteq Subtrees(n), n \in S,
         \A m \in S \ {Nil} : m.left \in S /\ m.right \in S
  PROVE  S = Subtrees(n)
<1>1. Whole(S)
  BY DEF Tree, Whole
<1> QED  BY <1>1, SubtreesAreLeast

LEMMA TreeShape ==
  ASSUME NEW n, Tree(n)
  PROVE  /\ nsize(n) \in Nat /\ (n # Nil => IsNode(n))
         /\ \A m \in Subtrees(n) :
              nsize(m) <= nsize(n) /\ Tree(m) /\ Subtrees(m) \subseteq Subtrees(n)
<1>1. \A m \in Subtrees(n) : nsize(m) \in Nat /\ (m # Nil => IsNode(m))
  BY NodesHaveSizes, NilSize DEF Tree, Whole
<1> DEFINE S == {m \in Subtrees(n) : nsize(m) <= nsize(n)}
<1>2. n \in S
  BY <1>1 DEF Tree
<1>3. ASSUME NEW m \in S \ {Nil} PROVE m.left \in S /\ m.right \in S
  <2>1. m.left \in Subtrees(n) /\ m.right \in Subtrees(n) /\ IsNode(m)
    BY DEF Tree, Whole
  <2>2. nsize(m.left) < nsize(m) /\ nsize(m.right) < nsize(m)
    BY <2>1, NodesHaveSizes
  <2>3. nsize(m.left) <= nsize(n) /\ nsize(m.right) <= nsize(n)
    BY <1>1, <1>2, <2>1, <2>2
  <2> QED  BY <2>1, <2>3
<1>4. S = Subtrees(n)
  <2> HIDE DEF S
  <2>1. S \subseteq Subtrees(n)
    BY DEF S
  <2> QED  BY <1>2, <1>3, <2>1, TreeInduction
<1>5. \A m \in Subtrees(n) : Tree(m) /\ Subtrees(m) \subseteq Subtrees(n)
  BY SubtreesAreLeast DEF Tree
<1> QED  BY <1>1, <1>2, <1>4, <1>5

LEMMA NilTree == Tree(Nil) /\ Subtrees(Nil) = {Nil}
<1>1. Whole({Nil})
  BY DEF Whole
<1> QED  BY <1>1, SubtreesAreLeast DEF Tree

\* A node over two trees.
LEMMA NodeTree ==
  ASSUME NEW l, NEW r, Tree(l), Tree(r), NEW i \in Talents, NEW s \in Int, NEW p \in Int
  PROVE  /\ Tree(Node(i, s, p, l, r)) /\ IsNode(Node(i, s, p, l, r))
         /\ Subtrees(Node(i, s, p, l, r)) = {Node(i, s, p, l, r)} \cup Subtrees(l) \cup Subtrees(r)
<1> DEFINE t == Node(i, s, p, l, r)
           S == {t} \cup Subtrees(l) \cup Subtrees(r)
<1>1. t.left = l /\ t.right = r /\ t # Nil /\ IsNode(t)
  <2>1. nsize(l) \in Nat /\ nsize(r) \in Nat
    BY TreeShape
  <2> QED  BY <2>1, NodeFields DEF IsNode
<1> HIDE DEF t
<1>2. Whole(S)
  BY <1>1 DEF Whole, Tree
<1>3. t \in Subtrees(t) /\ Subtrees(t) \subseteq S /\ Whole(Subtrees(t))
  <2> HIDE DEF S
  <2>1. t \in S
    BY DEF S
  <2> QED  BY <1>2, <2>1, SubtreesAreLeast
<1>4. l \in Subtrees(t) /\ r \in Subtrees(t)
  BY <1>1, <1>3 DEF Whole
<1>5. Subtrees(l) \subseteq Subtrees(t) /\ Subtrees(r) \subseteq Subtrees(t)
  BY <1>3, <1>4, SubtreesAreLeast
<1> QED  BY <1>1, <1>3, <1>5 DEF Tree, t

\* A tree that is not Nil is a node over two trees.
LEMMA TreeParts ==
  ASSUME NEW n, Tree(n), n # Nil
  PROVE  /\ n = Node(n.id, n.score, n.prio, n.left, n.right) /\ IsNode(n)
         /\ n.id \in Talents /\ n.score \in Int /\ n.prio \in Int
         /\ Tree(n.left) /\ Tree(n.right)
         /\ nsize(n) = 1 + nsize(n.left) + nsize(n.right)
         /\ nsize(n) \in Nat /\ nsize(n.left) \in Nat /\ nsize(n.right) \in Nat
         /\ Subtrees(n) = {n} \cup Subtrees(n.left) \cup Subtrees(n.right)
<1>1. IsNode(n) /\ n.left \in Subtrees(n) /\ n.right \in Subtrees(n)
  BY DEF Tree, Whole
<1>2. Tree(n.left) /\ Tree(n.right)
  BY <1>1, TreeShape
<1>3. n = Node(n.id, n.score, n.prio, n.left, n.right)
      /\ n.id \in Talents /\ n.score \in Int /\ n.prio \in Int
      /\ nsize(n.left) \in Nat /\ nsize(n.right) \in Nat
  BY <1>1 DEF IsNode
<1>4. nsize(n) = 1 + nsize(n.left) + nsize(n.right) /\ nsize(n) \in Nat
  BY <1>1, NodesHaveSizes
<1>5. Subtrees(n) = {n} \cup Subtrees(n.left) \cup Subtrees(n.right)
  <2>1. Subtrees(Node(n.id, n.score, n.prio, n.left, n.right))
          = {Node(n.id, n.score, n.prio, n.left, n.right)}
              \cup Subtrees(n.left) \cup Subtrees(n.right)
    BY <1>2, <1>3, NodeTree
  <2> QED  BY <1>3, <2>1, Zenon
<1> QED  BY <1>1, <1>2, <1>3, <1>4, <1>5

-----------------------------------------------------------------------------
(* Treaps *)

\* What is stored in the nodes of n.
Keys(n) == {<<m.id, m.score>> : m \in NodesOf(n)}

\* All of the keys K come before a node with this id and score, or after it.
AllBefore(K, i, s) == \A k \in K : less(k[2], k[1], s, i)
AllAfter(K, i, s)  == \A k \in K : less(s, i, k[2], k[1])

\* The priority at the top of n is at most p.
Under(n, p) == n = Nil \/ n.prio <= p

Ordered(m) ==
  AllBefore(Keys(m.left), m.id, m.score) /\ AllAfter(Keys(m.right), m.id, m.score)

Heaped(m) == Under(m.left, m.prio) /\ Under(m.right, m.prio)

TreapAt(n) == Tree(n) /\ \A m \in NodesOf(n) : Ordered(m) /\ Heaped(m)

LEMMA NilTreap == TreapAt(Nil) /\ Keys(Nil) = {}
BY NilTree DEF TreapAt, NodesOf, Keys

\* The keys of a node over two trees.
LEMMA NodeKeys ==
  ASSUME NEW l, NEW r, Tree(l), Tree(r), NEW i \in Talents, NEW s \in Int, NEW p \in Int
  PROVE  Keys(Node(i, s, p, l, r)) = {<<i, s>>} \cup Keys(l) \cup Keys(r)
<1> DEFINE t == Node(i, s, p, l, r)
<1>1. t # Nil /\ t.id = i /\ t.score = s
  BY NodeFields
<1>2. Subtrees(t) = {t} \cup Subtrees(l) \cup Subtrees(r)
  BY NodeTree
<1> HIDE DEF t
<1>3. NodesOf(t) = {t} \cup NodesOf(l) \cup NodesOf(r)
  BY <1>1, <1>2 DEF NodesOf
<1>4. Keys(t) = {<<t.id, t.score>>} \cup Keys(l) \cup Keys(r)
  BY <1>3 DEF Keys
<1>5. Keys(t) = {<<i, s>>} \cup Keys(l) \cup Keys(r)
  BY <1>1, <1>4
<1> QED  BY <1>5 DEF t

\* A node over two treaps is a treap when its key is between theirs and its
\* priority is at least theirs.
LEMMA NodeTreap ==
  ASSUME NEW l, NEW r, TreapAt(l), TreapAt(r), NEW i \in Talents, NEW s \in Int, NEW p \in Int,
         AllBefore(Keys(l), i, s), AllAfter(Keys(r), i, s), Under(l, p), Under(r, p)
  PROVE  TreapAt(Node(i, s, p, l, r))
<1> DEFINE t == Node(i, s, p, l, r)
<1>1. /\ t # Nil /\ t.id = i /\ t.score = s /\ t.prio = p
      /\ t.left = l /\ t.right = r
  BY NodeFields
<1>2. Tree(t) /\ Subtrees(t) = {t} \cup Subtrees(l) \cup Subtrees(r)
  BY NodeTree DEF TreapAt
<1> HIDE DEF t
<1>3. NodesOf(t) = {t} \cup NodesOf(l) \cup NodesOf(r)
  BY <1>1, <1>2 DEF NodesOf
<1>4. Ordered(t) /\ Heaped(t)
  BY <1>1 DEF Ordered, Heaped
<1>5. TreapAt(t)
  BY <1>2, <1>3, <1>4 DEF TreapAt
<1> QED  BY <1>5 DEF t

\* A treap that is not Nil is such a node.
LEMMA TreapParts ==
  ASSUME NEW n, TreapAt(n), n # Nil
  PROVE  /\ n = Node(n.id, n.score, n.prio, n.left, n.right)
         /\ n.id \in Talents /\ n.score \in Int /\ n.prio \in Int
         /\ TreapAt(n.left) /\ TreapAt(n.right)
         /\ AllBefore(Keys(n.left), n.id, n.score) /\ AllAfter(Keys(n.right), n.id, n.score)
         /\ Under(n.left, n.prio) /\ Under(n.right, n.prio)
         /\ Keys(n) = {<<n.id, n.score>>} \cup Keys(n.left) \cup Keys(n.right)
<1>1. /\ n = Node(n.id, n.score, n.prio, n.left, n.right)
      /\ n.id \in Talents /\ n.score \in Int /\ n.prio \in Int
      /\ Tree(n.left) /\ Tree(n.right)
      /\ Subtrees(n) = {n} \cup Subtrees(n.left) \cup Subtrees(n.right)
  BY TreeParts DEF TreapAt
<1>2. NodesOf(n) = {n} \cup NodesOf(n.left) \cup NodesOf(n.right)
  BY <1>1 DEF NodesOf
<1>3. TreapAt(n.left) /\ TreapAt(n.right) /\ Ordered(n) /\ Heaped(n)
  BY <1>1, <1>2 DEF TreapAt
<1>4. Keys(n) = {<<n.id, n.score>>} \cup Keys(n.left) \cup Keys(n.right)
  BY <1>2 DEF Keys
<1> QED  BY <1>1, <1>3, <1>4 DEF Ordered, Heaped

LEMMA TreapBelow ==
  ASSUME NEW n, TreapAt(n), NEW m \in Subtrees(n)
  PROVE  TreapAt(m) /\ nsize(m) \in Nat /\ nsize(m) <= nsize(n)
BY TreeShape DEF TreapAt, NodesOf

\* The order of the leaderboard is strict and total.
LEMMA LessIsAnOrder ==
  ASSUME NEW s \in Int, NEW t \in Int, NEW i \in Talents, NEW j \in Talents
  PROVE  /\ ~less(s, i, s, i)
         /\ less(s, i, t, j) => ~less(t, j, s, i)
         /\ less(s, i, t, j) \/ less(t, j, s, i) \/ <<i, s>> = <<j, t>>
BY TreapAssumption DEF less

LEMMA LessIsStrict ==
  ASSUME NEW s \in Int, NEW t \in Int, NEW i \in Talents, NEW j \in Talents, less(s, i, t, j)
  PROVE  ~less(t, j, s, i)
BY LessIsAnOrder

LEMMA LessMeansOther ==
  ASSUME NEW s \in Int, NEW t \in Int, NEW i \in Talents, NEW j \in Talents, less(s, i, t, j)
  PROVE  <<i, s>> # <<j, t>>
BY TreapAssumption DEF less

LEMMA LessIsTransitive ==
  ASSUME NEW s \in Int, NEW t \in Int, NEW u \in Int,
         NEW i \in Talents, NEW j \in Talents, NEW k \in Talents,
         less(s, i, t, j), less(t, j, u, k)
  PROVE  less(s, i, u, k)
BY TreapAssumption DEF less

LEMMA KeysAreKeys ==
  ASSUME NEW n, Tree(n)
  PROVE  Keys(n) \subseteq Talents \X Int
BY DEF Tree, Whole, IsNode, Keys, NodesOf

\* Rotating a left child above its parent makes a treap when the child is the
\* only thing out of place; the keys stay.
LEMMA RotatedRight ==
  ASSUME NEW l, NEW r, TreapAt(l), l # Nil, TreapAt(r),
         NEW i \in Talents, NEW s \in Int, NEW p \in Int,
         AllBefore(Keys(l), i, s), AllAfter(Keys(r), i, s),
         Under(l.right, p), Under(r, p), p <= l.prio
  PROVE  /\ TreapAt(Node(l.id, l.score, l.prio, l.left, Node(i, s, p, l.right, r)))
         /\ Keys(Node(l.id, l.score, l.prio, l.left, Node(i, s, p, l.right, r)))
              = {<<i, s>>} \cup Keys(l) \cup Keys(r)
<1> DEFINE low == Node(i, s, p, l.right, r)
           t == Node(l.id, l.score, l.prio, l.left, low)
<1>1. /\ l.id \in Talents /\ l.score \in Int /\ l.prio \in Int
      /\ TreapAt(l.left) /\ TreapAt(l.right)
      /\ AllBefore(Keys(l.left), l.id, l.score) /\ AllAfter(Keys(l.right), l.id, l.score)
      /\ Under(l.left, l.prio)
      /\ Keys(l) = {<<l.id, l.score>>} \cup Keys(l.left) \cup Keys(l.right)
  BY TreapParts
<1>2. AllBefore(Keys(l.right), i, s) /\ less(l.score, l.id, s, i)
  <2>1. <<l.id, l.score>> \in Keys(l) /\ Keys(l.right) \subseteq Keys(l)
    BY <1>1
  <2>2. less(l.score, l.id, s, i)
    BY <2>1 DEF AllBefore
  <2> QED  BY <2>1, <2>2 DEF AllBefore
<1>3. TreapAt(low) /\ Keys(low) = {<<i, s>>} \cup Keys(l.right) \cup Keys(r)
  BY <1>1, <1>2, NodeTreap, NodeKeys DEF TreapAt
<1>4. low # Nil /\ low.prio = p
  BY NodeFields
<1> HIDE DEF low
<1>5. AllAfter(Keys(low), l.id, l.score)
  <2>1. ASSUME NEW k \in Keys(r) PROVE less(l.score, l.id, k[2], k[1])
    <3>1. k[1] \in Talents /\ k[2] \in Int
      BY KeysAreKeys DEF TreapAt
    <3>2. less(s, i, k[2], k[1])
      BY DEF AllAfter
    <3> QED  BY <1>1, <1>2, <3>1, <3>2, LessIsTransitive
  <2> QED  BY <1>1, <1>2, <1>3, <2>1 DEF AllAfter
<1>6. Under(low, l.prio)
  BY <1>4 DEF Under
<1>7. TreapAt(t) /\ Keys(t) = {<<l.id, l.score>>} \cup Keys(l.left) \cup Keys(low)
  <2>1. TreapAt(t)
    BY <1>1, <1>3, <1>5, <1>6, NodeTreap
  <2> QED  BY <1>1, <1>3, <2>1, NodeKeys DEF TreapAt
<1> QED  BY <1>1, <1>3, <1>7 DEF low

\* The same on the other side.
LEMMA RotatedLeft ==
  ASSUME NEW l, NEW r, TreapAt(l), TreapAt(r), r # Nil,
         NEW i \in Talents, NEW s \in Int, NEW p \in Int,
         AllBefore(Keys(l), i, s), AllAfter(Keys(r), i, s),
         Under(l, p), Under(r.left, p), p <= r.prio
  PROVE  /\ TreapAt(Node(r.id, r.score, r.prio, Node(i, s, p, l, r.left), r.right))
         /\ Keys(Node(r.id, r.score, r.prio, Node(i, s, p, l, r.left), r.right))
              = {<<i, s>>} \cup Keys(l) \cup Keys(r)
<1> DEFINE low == Node(i, s, p, l, r.left)
           t == Node(r.id, r.score, r.prio, low, r.right)
<1>1. /\ r.id \in Talents /\ r.score \in Int /\ r.prio \in Int
      /\ TreapAt(r.left) /\ TreapAt(r.right)
      /\ AllBefore(Keys(r.left), r.id, r.score) /\ AllAfter(Keys(r.right), r.id, r.score)
      /\ Under(r.right, r.prio)
      /\ Keys(r) = {<<r.id, r.score>>} \cup Keys(r.left) \cup Keys(r.right)
  BY TreapParts
<1>2. AllAfter(Keys(r.left), i, s) /\ less(s, i, r.score, r.id)
  <2>1. <<r.id, r.score>> \in Keys(r) /\ Keys(r.left) \subseteq Keys(r)
    BY <1>1
  <2>2. less(s, i, r.score, r.id)
    BY <2>1 DEF AllAfter
  <2> QED  BY <2>1, <2>2 DEF AllAfter
<1>3. TreapAt(low) /\ Keys(low) = {<<i, s>>} \cup Keys(l) \cup Keys(r.left)
  BY <1>1, <1>2, NodeTreap, NodeKeys DEF TreapAt
<1>4. low # Nil /\ low.prio = p
  BY NodeFields
<1> HIDE DEF low
<1>5. AllBefore(Keys(low), r.id, r.score)
  <2>1. ASSUME NEW k \in Keys(l) PROVE less(k[2], k[1], r.score, r.id)
    <3>1. k[1] \in Talents /\ k[2] \in Int
      BY KeysAreKeys DEF TreapAt
    <3>2. less(k[2], k[1], s, i)
      BY DEF AllBefore
    <3> QED  BY <1>1, <1>2, <3>1, <3>2, LessIsTransitive
  <2> QED  BY <1>1, <1>2, <1>3, <2>1 DEF AllBefore
<1>6. Under(low, r.prio)
  BY <1>4 DEF Under
<1>7. TreapAt(t) /\ Keys(t) = {<<r.id, r.score>>} \cup Keys(low) \cup Keys(r.right)
  <2>1. TreapAt(t)
    BY <1>1, <1>3, <1>5, <1>6, NodeTreap
  <2> QED  BY <1>1, <1>3, <2>1, NodeKeys DEF TreapAt
<1> QED  BY <1>1, <1>3, <1>7 DEF low

-----------------------------------------------------------------------------
(* What the operations on nodes make of them *)

\* Replacing a child leaves the rest of a cell alone; fix makes a node of it.
LEMMA CellWithLeft ==
  ASSUME NEW i, NEW s, NEW p, NEW l, NEW r, NEW z, NEW c
  PROVE  [Cell(i, s, p, l, r, z) EXCEPT !.left = c] = Cell(i, s, p, c, r, z)
BY DEF Cell

LEMMA CellWithRight ==
  ASSUME NEW i, NEW s, NEW p, NEW l, NEW r, NEW z, NEW c
  PROVE  [Cell(i, s, p, l, r, z) EXCEPT !.right = c] = Cell(i, s, p, l, c, z)
BY DEF Cell

LEMMA FixedCell ==
  ASSUME NEW i, NEW s, NEW p, NEW l, NEW r, NEW z
  PROVE  fix(Cell(i, s, p, l, r, z)) = Node(i, s, p, l, r)
<1> DEFINE n == Cell(i, s, p, l, r, z)
           m == 1 + nsize(l) + nsize(r)
<1>1. n.left = l /\ n.right = r
  BY DEF Cell
<1>2. [n EXCEPT !.size = m] = Cell(i, s, p, l, r, m)
  BY DEF Cell
<1> HIDE DEF n
<1>3. fix(n) = Cell(i, s, p, l, r, m)
  BY <1>1, <1>2 DEF fix
<1> QED  BY <1>3 DEF n, Node

LEMMA CellFields ==
  ASSUME NEW i, NEW s, NEW p, NEW l, NEW r, NEW z
  PROVE  /\ Cell(i, s, p, l, r, z).id = i /\ Cell(i, s, p, l, r, z).score = s
         /\ Cell(i, s, p, l, r, z).prio = p
         /\ Cell(i, s, p, l, r, z).left = l /\ Cell(i, s, p, l, r, z).right = r
BY DEF Cell

\* rotateRight brings the left child to the top, with both sizes fixed.
LEMMA RotateRightCell ==
  ASSUME NEW i, NEW s, NEW p, NEW r, NEW z, NEW c,
         c = Node(c.id, c.score, c.prio, c.left, c.right)
  PROVE  rotateRight(Cell(i, s, p, c, r, z))
           = Node(c.id, c.score, c.prio, c.left, Node(i, s, p, c.right, r))
<1> DEFINE n == 1 + nsize(c.left) + nsize(c.right)
           b == Cell(c.id, c.score, c.prio, c.left, c.right, n)
           y == Cell(i, s, p, c, r, z)
           d == Node(i, s, p, c.right, r)
<1>1. c = b
  BY DEF Node
<1>2. fix([c EXCEPT !.right = d]) = Node(c.id, c.score, c.prio, c.left, d)
  <2> HIDE DEF d
  <2>1. [b EXCEPT !.right = d] = Cell(c.id, c.score, c.prio, c.left, d, n)
    BY CellWithRight
  <2>2. [c EXCEPT !.right = d] = Cell(c.id, c.score, c.prio, c.left, d, n)
    BY <1>1, <2>1
  <2> QED  BY <2>2, FixedCell
<1>3. fix([y EXCEPT !.left = c.right]) = d
  <2>1. [y EXCEPT !.left = c.right] = Cell(i, s, p, c.right, r, z)
    BY CellWithLeft
  <2> QED  BY <2>1, FixedCell
<1>4. y.left = c
  BY CellFields
<1> HIDE DEF y, d
<1>5. rotateRight(y) = fix([c EXCEPT !.right = d])
  BY <1>3, <1>4 DEF rotateRight
<1>6. rotateRight(y) = Node(c.id, c.score, c.prio, c.left, d)
  BY <1>2, <1>5
<1> QED  BY <1>6 DEF y, d

\* rotateLeft brings the right child to the top, with both sizes fixed.
LEMMA RotateLeftCell ==
  ASSUME NEW i, NEW s, NEW p, NEW l, NEW z, NEW c,
         c = Node(c.id, c.score, c.prio, c.left, c.right)
  PROVE  rotateLeft(Cell(i, s, p, l, c, z))
           = Node(c.id, c.score, c.prio, Node(i, s, p, l, c.left), c.right)
<1> DEFINE n == 1 + nsize(c.left) + nsize(c.right)
           b == Cell(c.id, c.score, c.prio, c.left, c.right, n)
           y == Cell(i, s, p, l, c, z)
           d == Node(i, s, p, l, c.left)
<1>1. c = b
  BY DEF Node
<1>2. fix([c EXCEPT !.left = d]) = Node(c.id, c.score, c.prio, d, c.right)
  <2> HIDE DEF d
  <2>1. [b EXCEPT !.left = d] = Cell(c.id, c.score, c.prio, d, c.right, n)
    BY CellWithLeft
  <2>2. [c EXCEPT !.left = d] = Cell(c.id, c.score, c.prio, d, c.right, n)
    BY <1>1, <2>1
  <2> QED  BY <2>2, FixedCell
<1>3. fix([y EXCEPT !.right = c.left]) = d
  <2>1. [y EXCEPT !.right = c.left] = Cell(i, s, p, l, c.left, z)
    BY CellWithRight
  <2> QED  BY <2>1, FixedCell
<1>4. y.right = c
  BY CellFields
<1> HIDE DEF y, d
<1>5. rotateLeft(y) = fix([c EXCEPT !.left = d])
  BY <1>3, <1>4 DEF rotateLeft
<1>6. rotateLeft(y) = Node(c.id, c.score, c.prio, d, c.right)
  BY <1>2, <1>5
<1> QED  BY <1>6 DEF y, d

-----------------------------------------------------------------------------
(* insert *)

\* What insert makes of the node m, given by f what it makes of the children.
InsertStep(f, m, i, s) ==
  IF m = Nil THEN Leaf(i, s)
  ELSE IF less(s, i, m.score, m.id)
  THEN LET t == [m EXCEPT !.left = f[m.left]]
       IN  fix(IF t.left.prio > t.prio THEN rotateRight(t) ELSE t)
  ELSE LET t == [m EXCEPT !.right = f[m.right]]
       IN  fix(IF t.right.prio > t.prio THEN rotateLeft(t) ELSE t)

LEMMA InsertStepLooksBelow ==
  ASSUME NEW f, NEW g, NEW m, NEW i, NEW s,
         m # Nil => f[m.left] = g[m.left] /\ f[m.right] = g[m.right]
  PROVE  InsertStep(f, m, i, s) = InsertStep(g, m, i, s)
<1>1. CASE m = Nil
  BY <1>1, Zenon DEF InsertStep
<1>2. CASE m # Nil
  BY <1>2, Zenon DEF InsertStep
<1> QED  BY <1>1, <1>2

\* insert satisfies the equation of the recursive function in its definition.
LEMMA InsertRecursion ==
  ASSUME NEW n, Tree(n), NEW i, NEW s
  PROVE  \E ins : /\ insert(n, i, s) = ins[n]
                  /\ \A m \in Subtrees(n) : ins[m] = InsertStep(ins, m, i, s)
<1> DEFINE D == Subtrees(n)
           Solves(g, k) == \A m \in D : nsize(m) < k => g[m] = InsertStep(g, m, i, s)
           K == {k \in Nat : \E g : Solves(g, k)}
           Follows(f) == f = [m \in D |-> InsertStep(f, m, i, s)]
<1>1. \A m \in D : nsize(m) \in Nat /\ nsize(m) <= nsize(n) /\ nsize(n) \in Nat
  BY TreeShape
<1>2. ASSUME NEW m \in D, m # Nil
      PROVE  /\ m.left \in D /\ nsize(m.left) < nsize(m)
             /\ m.right \in D /\ nsize(m.right) < nsize(m)
  <2>1. IsNode(m) /\ m.left \in D /\ m.right \in D
    BY <1>2 DEF Tree, Whole
  <2> QED  BY <2>1, NodesHaveSizes
<1> HIDE DEF D
<1>3. ASSUME NEW g, NEW k \in Nat, Solves(g, k), NEW m \in D, nsize(m) <= k
      PROVE  LET f == [q \in D |-> InsertStep(g, q, i, s)]
             IN  InsertStep(g, m, i, s) = InsertStep(f, m, i, s)
  <2> DEFINE f == [q \in D |-> InsertStep(g, q, i, s)]
  <2>1. ASSUME NEW q \in D, nsize(q) < k PROVE f[q] = g[q]
    BY <1>3, <2>1
  <2> HIDE DEF f
  <2>2. m # Nil => f[m.left] = g[m.left] /\ f[m.right] = g[m.right]
    BY <1>1, <1>2, <1>3, <2>1
  <2>3. InsertStep(f, m, i, s) = InsertStep(g, m, i, s)
    BY <2>2, InsertStepLooksBelow
  <2> QED  BY <2>3 DEF f
<1>4. 0 \in K
  <2>1. Solves(<<>>, 0)
    BY <1>1
  <2> HIDE DEF Solves
  <2> QED  BY <2>1
<1>5. ASSUME NEW k \in K PROVE k + 1 \in K
  <2>1. PICK g : Solves(g, k)
    OBVIOUS
  <2> DEFINE f == [m \in D |-> InsertStep(g, m, i, s)]
  <2>2. ASSUME NEW m \in D, nsize(m) < k + 1 PROVE f[m] = InsertStep(f, m, i, s)
    <3>1. nsize(m) <= k /\ k \in Nat
      BY <1>1, <2>2
    <3>2. InsertStep(g, m, i, s) = InsertStep(f, m, i, s)
      BY <1>3, <2>1, <3>1
    <3>3. f[m] = InsertStep(g, m, i, s)
      OBVIOUS
    <3> QED  BY <3>2, <3>3, Zenon
  <2>3. Solves(f, k + 1)
    BY <2>2
  <2> HIDE DEF f, Solves
  <2> QED  BY <2>3
<1>6. K = Nat
  <2> HIDE DEF K
  <2>1. K \in SUBSET Nat
    BY DEF K
  <2> QED  BY <1>4, <1>5, <2>1, CountingUp
<1>7. n \in D /\ nsize(n) \in Nat /\ nsize(n) + 1 \in Nat
  BY <1>1 DEF Tree, D
<1>8. PICK g : Solves(g, nsize(n) + 1)
  BY <1>6, <1>7
<1> DEFINE f == [m \in D |-> InsertStep(g, m, i, s)]
<1>9. Follows(f)
  <2>1. ASSUME NEW m \in D PROVE InsertStep(g, m, i, s) = InsertStep(f, m, i, s)
    <3>1. nsize(m) <= nsize(n) + 1
      BY <1>1
    <3> QED  BY <1>3, <1>7, <1>8, <3>1
  <2> HIDE DEF D
  <2>2. f = [m \in D |-> InsertStep(f, m, i, s)]
    BY <2>1
  <2> QED  BY <2>2
<1> DEFINE ins == CHOOSE e : Follows(e)
<1>10. Follows(ins)
  <2> HIDE DEF Follows, f
  <2> QED  BY <1>9
<1>11. insert(n, i, s) = ins[n]
  BY Zenon DEF insert, InsertStep, D
<1>12. \A m \in D : ins[m] = InsertStep(ins, m, i, s)
  <2> HIDE DEF ins
  <2> QED  BY <1>10
<1> HIDE DEF ins
<1> QED  BY <1>11, <1>12 DEF D

\* t is the treap m with one key more; wherever m may stand, so may the children
\* of t, if not t itself.
Inserted(t, m, i, s) ==
  /\ TreapAt(t) /\ t # Nil
  /\ Keys(t) = {<<i, s>>} \cup Keys(m)
  /\ \A p \in Int : Under(m, p) => Under(t.left, p) /\ Under(t.right, p)

LEMMA UnderMore ==
  ASSUME NEW n, TreapAt(n), NEW p \in Int, NEW q \in Int, Under(n, p), p <= q
  PROVE  Under(n, q)
BY TreapParts DEF Under

LEMMA PriorityIsNumber ==
  ASSUME NEW i \in Talents, NEW s \in Int
  PROVE  scoreToPriority(s, i) \in Int
<1> DEFINE range == 2 * HalfRange
           a == 1103515245 % range
           b == 12345 % range
           x == s * a + b + IdHash[i]
<1>1. range \in Nat \ {0} /\ IdHash[i] \in Nat /\ MinFP \in Int
  BY TreapAssumption DEF MinFP
<1>2. a \in Int /\ b \in Int
  <2> HIDE DEF range
  <2> QED  BY <1>1
<1>3. x \in Int
  <2> HIDE DEF a, b
  <2>1. s * a \in Int
    BY <1>2
  <2> QED  BY <1>1, <1>2, <2>1
<1> HIDE DEF x
<1>4. Wrap(x) \in Int
  <2>1. x - MinFP \in Int
    BY <1>1, <1>3
  <2> HIDE DEF range
  <2>2. (x - MinFP) % range \in Int
    BY <1>1, <2>1
  <2> QED  BY <1>1, <2>2 DEF Wrap, range
<1>5. scoreToPriority(s, i) = IF Wrap(x) < 0 THEN -Wrap(x) ELSE Wrap(x)
  BY DEF scoreToPriority, x
<1> QED  BY <1>4, <1>5

LEMMA InsertedLeaf ==
  ASSUME NEW i \in Talents, NEW s \in Int
  PROVE  Inserted(Leaf(i, s), Nil, i, s)
<1> DEFINE p == scoreToPriority(s, i)
           t == Node(i, s, p, Nil, Nil)
<1>1. Leaf(i, s) = t
  BY NilSize DEF Leaf, Node, Cell
<1>2. p \in Int
  BY PriorityIsNumber
<1> HIDE DEF p
<1>3. TreapAt(t)
  BY <1>2, NilTreap, NodeTreap DEF AllBefore, AllAfter, Under
<1>4. Keys(t) = {<<i, s>>} \cup Keys(Nil)
  BY <1>2, NilTreap, NodeKeys DEF TreapAt
<1>5. t # Nil /\ t.left = Nil /\ t.right = Nil
  BY NodeFields
<1> HIDE DEF t
<1> QED  BY <1>1, <1>3, <1>4, <1>5 DEF Inserted, Under

\* The step on the left: the key goes below the left child, which is rotated up
\* when it now has the higher priority.
LEMMA InsertedLeft ==
  ASSUME NEW m, TreapAt(m), m # Nil, NEW i \in Talents, NEW s \in Int,
         less(s, i, m.score, m.id), NEW c, Inserted(c, m.left, i, s)
  PROVE  LET t == [m EXCEPT !.left = c]
         IN  Inserted(fix(IF t.left.prio > t.prio THEN rotateRight(t) ELSE t), m, i, s)
<1> DEFINE z == 1 + nsize(m.left) + nsize(m.right)
           t == Cell(m.id, m.score, m.prio, c, m.right, z)
           up == Node(c.id, c.score, c.prio, c.left,
                      Node(m.id, m.score, m.prio, c.right, m.right))
           stay == Node(m.id, m.score, m.prio, c, m.right)
<1>1. /\ m = Node(m.id, m.score, m.prio, m.left, m.right)
      /\ m.id \in Talents /\ m.score \in Int /\ m.prio \in Int
      /\ TreapAt(m.left) /\ TreapAt(m.right)
      /\ AllBefore(Keys(m.left), m.id, m.score) /\ AllAfter(Keys(m.right), m.id, m.score)
      /\ Under(m.left, m.prio) /\ Under(m.right, m.prio)
      /\ Keys(m) = {<<m.id, m.score>>} \cup Keys(m.left) \cup Keys(m.right)
  BY TreapParts
<1>2. [m EXCEPT !.left = c] = t
  <2>1. m = Cell(m.id, m.score, m.prio, m.left, m.right, z)
    BY <1>1 DEF Node
  <2>2. [Cell(m.id, m.score, m.prio, m.left, m.right, z) EXCEPT !.left = c] = t
    BY CellWithLeft
  <2> HIDE DEF t, z
  <2> QED  BY <2>1, <2>2, Zenon
<1>3. /\ TreapAt(c) /\ c # Nil /\ Keys(c) = {<<i, s>>} \cup Keys(m.left)
      /\ Under(c.left, m.prio) /\ Under(c.right, m.prio)
  BY <1>1 DEF Inserted
<1>4. c = Node(c.id, c.score, c.prio, c.left, c.right) /\ c.prio \in Int
  BY <1>3, TreapParts
<1>5. t.left = c /\ t.prio = m.prio
  BY CellFields
<1>6. AllBefore(Keys(c), m.id, m.score)
  BY <1>1, <1>3 DEF AllBefore
<1>7. CASE c.prio > m.prio
  <2>1. rotateRight(t) = up
    BY <1>4, RotateRightCell
  <2>2. fix(up) = up
    BY FixedCell DEF Node
  <2>3. m.prio <= c.prio
    BY <1>1, <1>4, <1>7
  <2>4. TreapAt(up) /\ Keys(up) = {<<m.id, m.score>>} \cup Keys(c) \cup Keys(m.right)
    <3>1. /\ TreapAt(c) /\ c # Nil /\ TreapAt(m.right) /\ m.id \in Talents
          /\ m.score \in Int /\ m.prio \in Int
          /\ AllBefore(Keys(c), m.id, m.score) /\ AllAfter(Keys(m.right), m.id, m.score)
          /\ Under(c.right, m.prio) /\ Under(m.right, m.prio) /\ m.prio <= c.prio
      BY <1>1, <1>3, <1>6, <2>3
    <3> QED  BY <3>1, RotatedRight
  <2>5. /\ up # Nil /\ up.left = c.left
        /\ up.right = Node(m.id, m.score, m.prio, c.right, m.right)
        /\ up.right.prio = m.prio
    BY NodeFields
  <2> HIDE DEF up
  <2>6. Keys(up) = {<<i, s>>} \cup Keys(m)
    BY <1>1, <1>3, <2>4
  <2>7. ASSUME NEW p \in Int, Under(m, p) PROVE Under(up.left, p) /\ Under(up.right, p)
    <3>1. Under(m.left, p) /\ m.prio <= p
      BY <1>1, <2>7, UnderMore DEF Under
    <3>2. Under(c.left, p)
      BY <3>1 DEF Inserted
    <3> QED  BY <2>5, <3>1, <3>2 DEF Under
  <2>8. Inserted(up, m, i, s)
    BY <2>4, <2>5, <2>6, <2>7 DEF Inserted
  <2> HIDE DEF t
  <2> QED  BY <1>2, <1>5, <1>7, <2>1, <2>2, <2>8
<1>8. CASE ~(c.prio > m.prio)
  <2>1. fix(t) = stay
    BY FixedCell
  <2>2. Under(c, m.prio)
    BY <1>1, <1>4, <1>8 DEF Under
  <2>3. TreapAt(stay)
    BY <1>1, <1>3, <1>6, <2>2, NodeTreap
  <2>4. Keys(stay) = {<<m.id, m.score>>} \cup Keys(c) \cup Keys(m.right)
    BY <1>1, <1>3, NodeKeys DEF TreapAt
  <2>5. stay # Nil /\ stay.left = c /\ stay.right = m.right
    BY NodeFields
  <2> HIDE DEF stay
  <2>6. Keys(stay) = {<<i, s>>} \cup Keys(m)
    BY <1>1, <1>3, <2>4
  <2>7. ASSUME NEW p \in Int, Under(m, p) PROVE Under(stay.left, p) /\ Under(stay.right, p)
    <3>1. m.prio <= p
      BY <2>7 DEF Under
    <3>2. Under(c, p)
      BY <1>1, <1>3, <2>2, <3>1, UnderMore
    <3>3. Under(m.right, p)
      BY <1>1, <3>1, UnderMore
    <3> QED  BY <2>5, <3>2, <3>3
  <2>8. Inserted(stay, m, i, s)
    BY <2>3, <2>5, <2>6, <2>7 DEF Inserted
  <2> HIDE DEF t
  <2> QED  BY <1>2, <1>5, <1>8, <2>1, <2>8
<1> HIDE DEF t
<1> QED  BY <1>7, <1>8

\* The same on the right; the key is not the one of m.
LEMMA InsertedRight ==
  ASSUME NEW m, TreapAt(m), m # Nil, NEW i \in Talents, NEW s \in Int,
         less(m.score, m.id, s, i), NEW c, Inserted(c, m.right, i, s)
  PROVE  LET t == [m EXCEPT !.right = c]
         IN  Inserted(fix(IF t.right.prio > t.prio THEN rotateLeft(t) ELSE t), m, i, s)
<1> DEFINE z == 1 + nsize(m.left) + nsize(m.right)
           t == Cell(m.id, m.score, m.prio, m.left, c, z)
           up == Node(c.id, c.score, c.prio,
                      Node(m.id, m.score, m.prio, m.left, c.left), c.right)
           stay == Node(m.id, m.score, m.prio, m.left, c)
<1>1. /\ m = Node(m.id, m.score, m.prio, m.left, m.right)
      /\ m.id \in Talents /\ m.score \in Int /\ m.prio \in Int
      /\ TreapAt(m.left) /\ TreapAt(m.right)
      /\ AllBefore(Keys(m.left), m.id, m.score) /\ AllAfter(Keys(m.right), m.id, m.score)
      /\ Under(m.left, m.prio) /\ Under(m.right, m.prio)
      /\ Keys(m) = {<<m.id, m.score>>} \cup Keys(m.left) \cup Keys(m.right)
  BY TreapParts
<1>2. [m EXCEPT !.right = c] = t
  <2>1. m = Cell(m.id, m.score, m.prio, m.left, m.right, z)
    BY <1>1 DEF Node
  <2>2. [Cell(m.id, m.score, m.prio, m.left, m.right, z) EXCEPT !.right = c] = t
    BY CellWithRight
  <2> HIDE DEF t, z
  <2> QED  BY <2>1, <2>2, Zenon
<1>3. /\ TreapAt(c) /\ c # Nil /\ Keys(c) = {<<i, s>>} \cup Keys(m.right)
      /\ Under(c.left, m.prio) /\ Under(c.right, m.prio)
  BY <1>1 DEF Inserted
<1>4. c = Node(c.id, c.score, c.prio, c.left, c.right) /\ c.prio \in Int
  BY <1>3, TreapParts
<1>5. t.right = c /\ t.prio = m.prio
  BY CellFields
<1>6. AllAfter(Keys(c), m.id, m.score)
  BY <1>1, <1>3 DEF AllAfter
<1>7. CASE c.prio > m.prio
  <2>1. rotateLeft(t) = up
    BY <1>4, RotateLeftCell
  <2>2. fix(up) = up
    BY FixedCell DEF Node
  <2>3. m.prio <= c.prio
    BY <1>1, <1>4, <1>7
  <2>4. TreapAt(up) /\ Keys(up) = {<<m.id, m.score>>} \cup Keys(m.left) \cup Keys(c)
    <3>1. /\ TreapAt(m.left) /\ TreapAt(c) /\ c # Nil /\ m.id \in Talents
          /\ m.score \in Int /\ m.prio \in Int
          /\ AllBefore(Keys(m.left), m.id, m.score) /\ AllAfter(Keys(c), m.id, m.score)
          /\ Under(m.left, m.prio) /\ Under(c.left, m.prio) /\ m.prio <= c.prio
      BY <1>1, <1>3, <1>6, <2>3
    <3> QED  BY <3>1, RotatedLeft
  <2>5. /\ up # Nil /\ up.right = c.right
        /\ up.left = Node(m.id, m.score, m.prio, m.left, c.left)
        /\ up.left.prio = m.prio
    BY NodeFields
  <2> HIDE DEF up
  <2>6. Keys(up) = {<<i, s>>} \cup Keys(m)
    BY <1>1, <1>3, <2>4
  <2>7. ASSUME NEW p \in Int, Under(m, p) PROVE Under(up.left, p) /\ Under(up.right, p)
    <3>1. Under(m.right, p) /\ m.prio <= p
      BY <1>1, <2>7, UnderMore DEF Under
    <3>2. Under(c.right, p)
      BY <3>1 DEF Inserted
    <3> QED  BY <2>5, <3>1, <3>2 DEF Under
  <2>8. Inserted(up, m, i, s)
    BY <2>4, <2>5, <2>6, <2>7 DEF Inserted
  <2> HIDE DEF t
  <2> QED  BY <1>2, <1>5, <1>7, <2>1, <2>2, <2>8
<1>8. CASE ~(c.prio > m.prio)
  <2>1. fix(t) = stay
    BY FixedCell
  <2>2. Under(c, m.prio)
    BY <1>1, <1>4, <1>8 DEF Under
  <2>3. TreapAt(stay)
    BY <1>1, <1>3, <1>6, <2>2, NodeTreap
  <2>4. Keys(stay) = {<<m.id, m.score>>} \cup Keys(m.left) \cup Keys(c)
    BY <1>1, <1>3, NodeKeys DEF TreapAt
  <2>5. stay # Nil /\ stay.left = m.left /\ stay.right = c
    BY NodeFields
  <2> HIDE DEF stay
  <2>6. Keys(stay) = {<<i, s>>} \cup Keys(m)
    BY <1>1, <1>3, <2>4
  <2>7. ASSUME NEW p \in Int, Under(m, p) PROVE Under(stay.left, p) /\ Under(stay.right, p)
    <3>1. m.prio <= p
      BY <2>7 DEF Under
    <3>2. Under(c, p)
      BY <1>1, <1>3, <2>2, <3>1, UnderMore
    <3>3. Under(m.left, p)
      BY <1>1, <3>1, UnderMore
    <3> QED  BY <2>5, <3>2, <3>3
  <2>8. Inserted(stay, m, i, s)
    BY <2>3, <2>5, <2>6, <2>7 DEF Inserted
  <2> HIDE DEF t
  <2> QED  BY <1>2, <1>5, <1>8, <2>1, <2>8
<1> HIDE DEF t
<1> QED  BY <1>7, <1>8

\* insert, on a key the treap does not hold: the result is a treap that holds
\* that key as well, whatever the priorities and however they have wrapped.
THEOREM InsertKeepsTreap ==
  ASSUME NEW n, TreapAt(n), NEW i \in Talents, NEW s \in Int, <<i, s>> \notin Keys(n)
  PROVE  TreapAt(insert(n, i, s)) /\ Keys(insert(n, i, s)) = {<<i, s>>} \cup Keys(n)
<1>1. Tree(n) /\ nsize(n) \in Nat /\ n \in Subtrees(n)
  BY TreeShape DEF TreapAt, Tree
<1>2. PICK ins : /\ insert(n, i, s) = ins[n]
                 /\ \A m \in Subtrees(n) : ins[m] = InsertStep(ins, m, i, s)
  BY <1>1, InsertRecursion
<1> DEFINE Right(m) == <<i, s>> \notin Keys(m) => Inserted(ins[m], m, i, s)
           K == {k \in Nat : \A m \in Subtrees(n) : nsize(m) < k => Right(m)}
<1>3. 0 \in K
  BY <1>1, TreapBelow
<1>4. ASSUME NEW k \in K PROVE k + 1 \in K
  <2> SUFFICES ASSUME NEW m \in Subtrees(n), nsize(m) < k + 1, <<i, s>> \notin Keys(m)
               PROVE  Inserted(ins[m], m, i, s)
    OBVIOUS
  <2>1. ins[m] = InsertStep(ins, m, i, s) /\ TreapAt(m)
    BY <1>2, TreapBelow
  <2>2. CASE m = Nil
    BY <2>1, <2>2, InsertedLeaf DEF InsertStep
  <2>3. CASE m # Nil
    <3>1. /\ Keys(m) = {<<m.id, m.score>>} \cup Keys(m.left) \cup Keys(m.right)
          /\ m.id \in Talents /\ m.score \in Int
      BY <2>1, <2>3, TreapParts
    <3>2. /\ m.left \in Subtrees(n) /\ nsize(m.left) < k
          /\ m.right \in Subtrees(n) /\ nsize(m.right) < k
      <4>1. IsNode(m) /\ m.left \in Subtrees(n) /\ m.right \in Subtrees(n)
        BY <1>1, <2>3 DEF Tree, Whole
      <4>2. nsize(m.left) < nsize(m) /\ nsize(m.right) < nsize(m)
        BY <4>1, NodesHaveSizes
      <4>3. nsize(m) \in Nat /\ nsize(m.left) \in Nat /\ nsize(m.right) \in Nat /\ k \in Nat
        BY <4>1, NodesHaveSizes DEF IsNode
      <4> QED  BY <4>1, <4>2, <4>3
    <3>3. Inserted(ins[m.left], m.left, i, s) /\ Inserted(ins[m.right], m.right, i, s)
      BY <3>1, <3>2
    <3>4. CASE less(s, i, m.score, m.id)
      BY <2>1, <2>3, <3>3, <3>4, InsertedLeft, Zenon DEF InsertStep
    <3>5. CASE ~less(s, i, m.score, m.id)
      <4>1. less(m.score, m.id, s, i)
        BY <3>1, <3>5, LessIsAnOrder
      <4> QED  BY <2>1, <2>3, <3>3, <3>5, <4>1, InsertedRight, Zenon DEF InsertStep
    <3> QED  BY <3>4, <3>5
  <2> QED  BY <2>2, <2>3
<1>5. K = Nat
  <2> HIDE DEF K
  <2>1. K \in SUBSET Nat
    BY DEF K
  <2> QED  BY <1>3, <1>4, <2>1, CountingUp
<1>6. Right(n)
  <2>1. nsize(n) + 1 \in K
    BY <1>1, <1>5
  <2> QED  BY <1>1, <2>1
<1> QED  BY <1>2, <1>6 DEF Inserted

-----------------------------------------------------------------------------
(* deleteNode *)

\* What deleteNode makes of the node m, given by f what it makes of the nodes it
\* goes on with.
DeleteStep(f, m, i, s) ==
  IF m = Nil THEN Nil
  ELSE IF s = m.score /\ i = m.id
  THEN IF m.left = Nil THEN m.right
       ELSE IF m.right = Nil THEN m.left
       ELSE IF m.left.prio > m.right.prio
       THEN LET t == rotateRight(m) IN fix([t EXCEPT !.right = f[t.right]])
       ELSE LET t == rotateLeft(m) IN fix([t EXCEPT !.left = f[t.left]])
  ELSE IF less(s, i, m.score, m.id)
  THEN fix([m EXCEPT !.left = f[m.left]])
  ELSE fix([m EXCEPT !.right = f[m.right]])

\* The nodes deleteNode may go on with.
GoesOnWith(m) ==
  IF m = Nil THEN {}
  ELSE {m.left, m.right} \cup
       (IF m.left # Nil /\ m.right # Nil THEN {rotateRight(m).right, rotateLeft(m).left} ELSE {})

LEMMA DeleteStepLooksBelow ==
  ASSUME NEW f, NEW g, NEW m, NEW i, NEW s, \A q \in GoesOnWith(m) : f[q] = g[q]
  PROVE  DeleteStep(f, m, i, s) = DeleteStep(g, m, i, s)
<1>1. CASE m = Nil
  BY <1>1, Zenon DEF DeleteStep
<1>2. CASE m # Nil
  <2>1. f[m.left] = g[m.left] /\ f[m.right] = g[m.right]
    BY <1>2 DEF GoesOnWith
  <2>2. m.left # Nil /\ m.right # Nil => /\ f[rotateRight(m).right] = g[rotateRight(m).right]
                                        /\ f[rotateLeft(m).left] = g[rotateLeft(m).left]
    BY <1>2 DEF GoesOnWith
  <2> QED  BY <1>2, <2>1, <2>2, Zenon DEF DeleteStep
<1> QED  BY <1>1, <1>2

\* A node of Sinking(n) is made of the id, score and priority of one node and of
\* two subtrees.
LEMMA SinkingNode ==
  ASSUME NEW n, Tree(n), NEW q \in Subtrees(n) \ {Nil}, NEW a, NEW b
  PROVE  fix([[q EXCEPT !.left = a] EXCEPT !.right = b]) = Node(q.id, q.score, q.prio, a, b)
<1> DEFINE z == 1 + nsize(q.left) + nsize(q.right)
           c == Cell(q.id, q.score, q.prio, q.left, q.right, z)
<1>1. q = c
  BY DEF Tree, Whole, IsNode, Node
<1>2. [q EXCEPT !.left = a] = Cell(q.id, q.score, q.prio, a, q.right, z)
  <2>1. [c EXCEPT !.left = a] = Cell(q.id, q.score, q.prio, a, q.right, z)
    BY CellWithLeft
  <2> HIDE DEF c, z
  <2> QED  BY <1>1, <2>1, Zenon
<1>3. [[q EXCEPT !.left = a] EXCEPT !.right = b] = Cell(q.id, q.score, q.prio, a, b, z)
  <2>1. [Cell(q.id, q.score, q.prio, a, q.right, z) EXCEPT !.right = b]
          = Cell(q.id, q.score, q.prio, a, b, z)
    BY CellWithRight
  <2> HIDE DEF z
  <2> QED  BY <1>2, <2>1, Zenon
<1> QED  BY <1>3, FixedCell

LEMMA SinkingNodes ==
  ASSUME NEW n, Tree(n)
  PROVE  /\ \A q \in Subtrees(n) \ {Nil}, a, b \in Subtrees(n) :
              Node(q.id, q.score, q.prio, a, b) \in Sinking(n)
         /\ \A m \in Sinking(n) \ {Nil} : \E q \in Subtrees(n) \ {Nil}, a, b \in Subtrees(n) :
              m = Node(q.id, q.score, q.prio, a, b)
         /\ Subtrees(n) \subseteq Sinking(n)
<1> DEFINE Made(q, a, b) == fix([[q EXCEPT !.left = a] EXCEPT !.right = b])
<1>1. \A q \in Subtrees(n) \ {Nil}, a, b \in Subtrees(n) :
        Made(q, a, b) = Node(q.id, q.score, q.prio, a, b)
  BY SinkingNode
<1>2. Sinking(n) = {Nil} \cup {Made(m, a, b) :
                               m \in Subtrees(n) \ {Nil}, a \in Subtrees(n), b \in Subtrees(n)}
  BY DEF Sinking
<1> HIDE DEF Made
<1>3. ASSUME NEW q \in Subtrees(n) \ {Nil}, NEW a \in Subtrees(n), NEW b \in Subtrees(n)
      PROVE  Node(q.id, q.score, q.prio, a, b) \in Sinking(n)
  <2>1. Made(q, a, b) \in Sinking(n)
    BY <1>2
  <2> QED  BY <1>1, <2>1
<1>4. ASSUME NEW m \in Sinking(n) \ {Nil}
      PROVE  \E q \in Subtrees(n) \ {Nil}, a, b \in Subtrees(n) :
               m = Node(q.id, q.score, q.prio, a, b)
  <2>1. PICK q \in Subtrees(n) \ {Nil}, a \in Subtrees(n), b \in Subtrees(n) :
               m = Made(q, a, b)
    BY <1>2
  <2>2. m = Node(q.id, q.score, q.prio, a, b)
    BY <1>1, <2>1
  <2> QED  BY <2>2
<1>5. ASSUME NEW m \in Subtrees(n), m # Nil PROVE m \in Sinking(n)
  <2>1. m = Node(m.id, m.score, m.prio, m.left, m.right)
    BY <1>5 DEF Tree, Whole, IsNode
  <2>2. m.left \in Subtrees(n) /\ m.right \in Subtrees(n)
    BY <1>5 DEF Tree, Whole
  <2>3. Node(m.id, m.score, m.prio, m.left, m.right) \in Sinking(n)
    BY <1>3, <1>5, <2>2
  <2> QED  BY <2>1, <2>3, Zenon
<1>6. Nil \in Sinking(n)
  BY DEF Sinking
<1> QED  BY <1>3, <1>4, <1>5, <1>6

\* deleteNode goes on with smaller nodes of Sinking(n) only.
LEMMA SinkingShrinks ==
  ASSUME NEW n, Tree(n), NEW m \in Sinking(n)
  PROVE  /\ nsize(m) \in Nat /\ nsize(m) <= 1 + nsize(n) + nsize(n)
         /\ m # Nil => IsNode(m)
         /\ \A c \in GoesOnWith(m) : c \in Sinking(n) /\ nsize(c) < nsize(m)
<1>1. nsize(n) \in Nat
  BY TreeShape
<1>2. CASE m = Nil
  BY <1>1, <1>2, NilSize DEF GoesOnWith
<1>3. CASE m # Nil
  <2>1. PICK q \in Subtrees(n) \ {Nil}, a \in Subtrees(n), b \in Subtrees(n) :
               m = Node(q.id, q.score, q.prio, a, b)
    BY <1>3, SinkingNodes
  <2>2. /\ nsize(a) \in Nat /\ nsize(a) <= nsize(n) /\ (a # Nil => IsNode(a))
        /\ nsize(b) \in Nat /\ nsize(b) <= nsize(n) /\ (b # Nil => IsNode(b))
        /\ IsNode(q)
    BY TreeShape DEF Tree, Whole
  <2>3. /\ m.left = a /\ m.right = b /\ nsize(m) = 1 + nsize(a) + nsize(b)
        /\ m.id = q.id /\ m.score = q.score /\ m.prio = q.prio
    BY <2>1, NodeFields
  <2>4. IsNode(m)
    BY <2>1, <2>2, <2>3 DEF IsNode
  <2>5. a \in Sinking(n) /\ b \in Sinking(n) /\ nsize(a) < nsize(m) /\ nsize(b) < nsize(m)
    BY <2>2, <2>3, SinkingNodes
  <2>6. ASSUME a # Nil, b # Nil
        PROVE  /\ rotateRight(m).right \in Sinking(n) /\ nsize(rotateRight(m).right) < nsize(m)
               /\ rotateLeft(m).left \in Sinking(n) /\ nsize(rotateLeft(m).left) < nsize(m)
    <3> DEFINE low  == Node(m.id, m.score, m.prio, a.right, b)
               high == Node(m.id, m.score, m.prio, a, b.left)
    <3>1. a = Node(a.id, a.score, a.prio, a.left, a.right)
          /\ b = Node(b.id, b.score, b.prio, b.left, b.right)
      BY <2>2, <2>6 DEF IsNode
    <3>2. m = Cell(m.id, m.score, m.prio, a, b, 1 + nsize(a) + nsize(b))
      BY <2>1, <2>3 DEF Node
    <3>3. rotateRight(m) = Node(a.id, a.score, a.prio, a.left, low)
      BY <3>1, <3>2, RotateRightCell
    <3>4. rotateLeft(m) = Node(b.id, b.score, b.prio, high, b.right)
      BY <3>1, <3>2, RotateLeftCell
    <3>5. rotateRight(m).right = low /\ rotateLeft(m).left = high
      BY <3>3, <3>4, NodeFields
    <3>6. a.right \in Subtrees(n) /\ b.left \in Subtrees(n)
      BY <2>6 DEF Tree, Whole
    <3>7. low \in Sinking(n) /\ high \in Sinking(n)
      BY <2>3, <3>6, SinkingNodes
    <3>8. nsize(low) = 1 + nsize(a.right) + nsize(b) /\ nsize(high) = 1 + nsize(a) + nsize(b.left)
      BY NodeFields
    <3>9. /\ nsize(a.right) < nsize(a) /\ nsize(a.right) \in Nat
          /\ nsize(b.left) < nsize(b) /\ nsize(b.left) \in Nat
      BY <2>2, <2>6, NodesHaveSizes DEF IsNode
    <3> HIDE DEF low, high
    <3>10. nsize(low) < nsize(m) /\ nsize(high) < nsize(m)
      BY <2>2, <2>3, <3>8, <3>9
    <3> QED  BY <3>5, <3>7, <3>10
  <2>7. \A c \in GoesOnWith(m) : c \in Sinking(n) /\ nsize(c) < nsize(m)
    BY <1>3, <2>3, <2>5, <2>6 DEF GoesOnWith
  <2>8. nsize(m) \in Nat /\ nsize(m) <= 1 + nsize(n) + nsize(n)
    BY <1>1, <2>2, <2>3
  <2> QED  BY <2>4, <2>7, <2>8
<1> QED  BY <1>2, <1>3

\* deleteNode satisfies the equation of the recursive function in its definition.
LEMMA DeleteRecursion ==
  ASSUME NEW n, Tree(n), NEW i, NEW s
  PROVE  \E del : /\ deleteNode(n, i, s) = del[n]
                  /\ \A m \in Sinking(n) : del[m] = DeleteStep(del, m, i, s)
<1> DEFINE D == Sinking(n)
           B == 1 + nsize(n) + nsize(n)
           Solves(g, k) == \A m \in D : nsize(m) < k => g[m] = DeleteStep(g, m, i, s)
           K == {k \in Nat : \E g : Solves(g, k)}
           Follows(f) == f = [m \in D |-> DeleteStep(f, m, i, s)]
<1>1. /\ B \in Nat /\ n \in D
      /\ \A m \in D : nsize(m) \in Nat /\ nsize(m) <= B
  BY TreeShape, SinkingShrinks, SinkingNodes DEF Tree
<1>2. ASSUME NEW m \in D PROVE \A c \in GoesOnWith(m) : c \in D /\ nsize(c) < nsize(m)
  BY SinkingShrinks
<1> HIDE DEF D, B
<1>3. ASSUME NEW g, NEW k \in Nat, Solves(g, k), NEW m \in D, nsize(m) <= k
      PROVE  LET f == [q \in D |-> DeleteStep(g, q, i, s)]
             IN  DeleteStep(g, m, i, s) = DeleteStep(f, m, i, s)
  <2> DEFINE f == [q \in D |-> DeleteStep(g, q, i, s)]
  <2>1. ASSUME NEW q \in D, nsize(q) < k PROVE f[q] = g[q]
    BY <1>3, <2>1
  <2> HIDE DEF f
  <2>2. ASSUME NEW c \in GoesOnWith(m) PROVE f[c] = g[c]
    <3>1. c \in D /\ nsize(c) < nsize(m)
      BY <1>2
    <3>2. nsize(c) < k
      BY <1>1, <1>3, <3>1
    <3> QED  BY <2>1, <3>1, <3>2
  <2>3. DeleteStep(f, m, i, s) = DeleteStep(g, m, i, s)
    BY <2>2, DeleteStepLooksBelow
  <2> QED  BY <2>3 DEF f
<1>4. 0 \in K
  <2>1. Solves(<<>>, 0)
    BY <1>1
  <2> HIDE DEF Solves
  <2> QED  BY <2>1
<1>5. ASSUME NEW k \in K PROVE k + 1 \in K
  <2>1. PICK g : Solves(g, k)
    OBVIOUS
  <2> DEFINE f == [m \in D |-> DeleteStep(g, m, i, s)]
  <2>2. ASSUME NEW m \in D, nsize(m) < k + 1 PROVE f[m] = DeleteStep(f, m, i, s)
    <3>1. nsize(m) <= k /\ k \in Nat
      BY <1>1, <2>2
    <3>2. DeleteStep(g, m, i, s) = DeleteStep(f, m, i, s)
      BY <1>3, <2>1, <3>1
    <3>3. f[m] = DeleteStep(g, m, i, s)
      OBVIOUS
    <3> QED  BY <3>2, <3>3, Zenon
  <2>3. Solves(f, k + 1)
    BY <2>2
  <2> HIDE DEF f, Solves
  <2> QED  BY <2>3
<1>6. K = Nat
  <2> HIDE DEF K
  <2>1. K \in SUBSET Nat
    BY DEF K
  <2> QED  BY <1>4, <1>5, <2>1, CountingUp
<1>7. PICK g : Solves(g, B)
  BY <1>1, <1>6
<1> DEFINE f == [m \in D |-> DeleteStep(g, m, i, s)]
<1>8. Follows(f)
  <2>1. ASSUME NEW m \in D PROVE DeleteStep(g, m, i, s) = DeleteStep(f, m, i, s)
    BY <1>1, <1>3, <1>7
  <2>2. f = [m \in D |-> DeleteStep(f, m, i, s)]
    BY <2>1
  <2> QED  BY <2>2
<1> DEFINE del == CHOOSE e : Follows(e)
<1>9. Follows(del)
  <2> HIDE DEF Follows, f
  <2> QED  BY <1>8
<1>10. deleteNode(n, i, s) = del[n]
  BY Zenon DEF deleteNode, DeleteStep, D
<1>11. \A m \in D : del[m] = DeleteStep(del, m, i, s)
  <2> HIDE DEF del
  <2> QED  BY <1>9
<1> HIDE DEF del
<1> QED  BY <1>10, <1>11 DEF D

\* m as deleteNode meets it: a treap, but for a priority too low at the node to
\* be deleted, which has sunk below others.
Sunk(m, i, s) ==
  m # Nil => /\ IsNode(m) /\ TreapAt(m.left) /\ TreapAt(m.right)
             /\ Ordered(m)
             /\ (s = m.score /\ i = m.id) \/ Heaped(m)

\* Where m may stand once the key has gone.
FitsUnder(m, i, s, p) ==
  m # Nil => IF s = m.score /\ i = m.id
             THEN Under(m.left, p) /\ Under(m.right, p)
             ELSE m.prio <= p

\* t is the treap m without the key, and may stand where m may.
Deleted(t, m, i, s) ==
  /\ TreapAt(t)
  /\ Keys(t) = Keys(m) \ {<<i, s>>}
  /\ \A p \in Int : FitsUnder(m, i, s, p) => Under(t, p)

LEMMA TreapIsSunk ==
  ASSUME NEW m, TreapAt(m), NEW i, NEW s
  PROVE  Sunk(m, i, s) /\ \A p \in Int : Under(m, p) => FitsUnder(m, i, s, p)
<1>1. CASE m = Nil
  BY <1>1 DEF Sunk, FitsUnder
<1>2. CASE m # Nil
  <2>1. IsNode(m) /\ Ordered(m) /\ Heaped(m)
    BY <1>2, TreeParts DEF TreapAt, NodesOf, Tree
  <2>2. TreapAt(m.left) /\ TreapAt(m.right) /\ m.prio \in Int
    BY <1>2, TreapParts
  <2>3. ASSUME NEW p \in Int, Under(m, p) PROVE FitsUnder(m, i, s, p)
    <3>1. m.prio <= p
      BY <1>2, <2>3 DEF Under
    <3>2. Under(m.left, p) /\ Under(m.right, p)
      BY <2>1, <2>2, <3>1, UnderMore DEF Heaped
    <3> QED  BY <3>1, <3>2 DEF FitsUnder
  <2> QED  BY <2>1, <2>2, <2>3 DEF Sunk
<1> QED  BY <1>1, <1>2

\* The pieces of such a node.
LEMMA SunkParts ==
  ASSUME NEW m, m # Nil, NEW i, NEW s, Sunk(m, i, s)
  PROVE  /\ m = Node(m.id, m.score, m.prio, m.left, m.right)
         /\ m.id \in Talents /\ m.score \in Int /\ m.prio \in Int
         /\ TreapAt(m.left) /\ TreapAt(m.right)
         /\ AllBefore(Keys(m.left), m.id, m.score) /\ AllAfter(Keys(m.right), m.id, m.score)
         /\ Keys(m) = {<<m.id, m.score>>} \cup Keys(m.left) \cup Keys(m.right)
         /\ Keys(m.left) \subseteq Talents \X Int /\ Keys(m.right) \subseteq Talents \X Int
<1>1. /\ m = Node(m.id, m.score, m.prio, m.left, m.right)
      /\ m.id \in Talents /\ m.score \in Int /\ m.prio \in Int
      /\ TreapAt(m.left) /\ TreapAt(m.right)
      /\ AllBefore(Keys(m.left), m.id, m.score) /\ AllAfter(Keys(m.right), m.id, m.score)
  BY DEF Sunk, Ordered, IsNode
<1>2. Keys(Node(m.id, m.score, m.prio, m.left, m.right))
        = {<<m.id, m.score>>} \cup Keys(m.left) \cup Keys(m.right)
  BY <1>1, NodeKeys DEF TreapAt
<1>3. Keys(m.left) \subseteq Talents \X Int /\ Keys(m.right) \subseteq Talents \X Int
  BY <1>1, KeysAreKeys DEF TreapAt
<1> QED  BY <1>1, <1>2, <1>3, Zenon

\* At the node itself, with a child missing.
LEMMA DeletedOneChild ==
  ASSUME NEW m, m # Nil, NEW i, NEW s, Sunk(m, i, s), s = m.score, i = m.id
  PROVE  /\ m.left = Nil => Deleted(m.right, m, i, s)
         /\ m.right = Nil => Deleted(m.left, m, i, s)
<1>1. /\ m.id \in Talents /\ m.score \in Int
      /\ TreapAt(m.left) /\ TreapAt(m.right)
      /\ AllBefore(Keys(m.left), m.id, m.score) /\ AllAfter(Keys(m.right), m.id, m.score)
      /\ Keys(m) = {<<m.id, m.score>>} \cup Keys(m.left) \cup Keys(m.right)
  BY SunkParts
<1>2. <<i, s>> \notin Keys(m.left) /\ <<i, s>> \notin Keys(m.right)
  BY <1>1, LessIsAnOrder DEF AllBefore, AllAfter
<1>3. Keys(m) \ {<<i, s>>} = Keys(m.left) \cup Keys(m.right)
  BY <1>1, <1>2
<1>4. \A p \in Int : FitsUnder(m, i, s, p) => Under(m.left, p) /\ Under(m.right, p)
  BY DEF FitsUnder
<1> QED  BY <1>1, <1>3, <1>4, NilTreap DEF Deleted

\* Searching on the left, and on the right.
LEMMA DeletedLeft ==
  ASSUME NEW m, m # Nil, NEW i \in Talents, NEW s \in Int, Sunk(m, i, s),
         ~(s = m.score /\ i = m.id), less(s, i, m.score, m.id),
         NEW c, Deleted(c, m.left, i, s)
  PROVE  Deleted(fix([m EXCEPT !.left = c]), m, i, s)
<1> DEFINE z == 1 + nsize(m.left) + nsize(m.right)
           t == Node(m.id, m.score, m.prio, c, m.right)
<1>1. /\ m = Node(m.id, m.score, m.prio, m.left, m.right)
      /\ m.id \in Talents /\ m.score \in Int /\ m.prio \in Int
      /\ TreapAt(m.left) /\ TreapAt(m.right)
      /\ AllBefore(Keys(m.left), m.id, m.score) /\ AllAfter(Keys(m.right), m.id, m.score)
      /\ Keys(m) = {<<m.id, m.score>>} \cup Keys(m.left) \cup Keys(m.right)
  BY SunkParts
<1>2. fix([m EXCEPT !.left = c]) = t
  <2>1. m = Cell(m.id, m.score, m.prio, m.left, m.right, z)
    BY <1>1 DEF Node
  <2>2. [Cell(m.id, m.score, m.prio, m.left, m.right, z) EXCEPT !.left = c]
          = Cell(m.id, m.score, m.prio, c, m.right, z)
    BY CellWithLeft
  <2> HIDE DEF z
  <2>3. [m EXCEPT !.left = c] = Cell(m.id, m.score, m.prio, c, m.right, z)
    BY <2>1, <2>2, Zenon
  <2> QED  BY <2>3, FixedCell
<1>3. Under(m.left, m.prio) /\ Under(m.right, m.prio)
  BY DEF Sunk, Heaped
<1>4. TreapAt(c) /\ Keys(c) = Keys(m.left) \ {<<i, s>>} /\ Under(c, m.prio)
  BY <1>1, <1>3, TreapIsSunk DEF Deleted
<1>5. AllBefore(Keys(c), m.id, m.score)
  BY <1>1, <1>4 DEF AllBefore
<1>6. TreapAt(t) /\ Keys(t) = {<<m.id, m.score>>} \cup Keys(c) \cup Keys(m.right)
  <2>1. TreapAt(t)
    BY <1>1, <1>3, <1>4, <1>5, NodeTreap
  <2> QED  BY <1>1, <1>4, <2>1, NodeKeys DEF TreapAt
<1>7. t # Nil /\ t.prio = m.prio
  BY NodeFields
<1> HIDE DEF t
<1>8. <<i, s>> \notin Keys(m.right)
  <2>1. ~less(m.score, m.id, s, i)
    BY <1>1, LessIsAnOrder
  <2> QED  BY <1>1, <2>1 DEF AllAfter
<1>9. Keys(t) = Keys(m) \ {<<i, s>>}
  BY <1>1, <1>4, <1>6, <1>8
<1>10. \A p \in Int : FitsUnder(m, i, s, p) => Under(t, p)
  BY <1>7 DEF FitsUnder, Under
<1> QED  BY <1>2, <1>6, <1>9, <1>10 DEF Deleted

LEMMA DeletedRight ==
  ASSUME NEW m, m # Nil, NEW i \in Talents, NEW s \in Int, Sunk(m, i, s),
         ~(s = m.score /\ i = m.id), ~less(s, i, m.score, m.id),
         NEW c, Deleted(c, m.right, i, s)
  PROVE  Deleted(fix([m EXCEPT !.right = c]), m, i, s)
<1> DEFINE z == 1 + nsize(m.left) + nsize(m.right)
           t == Node(m.id, m.score, m.prio, m.left, c)
<1>1. /\ m = Node(m.id, m.score, m.prio, m.left, m.right)
      /\ m.id \in Talents /\ m.score \in Int /\ m.prio \in Int
      /\ TreapAt(m.left) /\ TreapAt(m.right)
      /\ AllBefore(Keys(m.left), m.id, m.score) /\ AllAfter(Keys(m.right), m.id, m.score)
      /\ Keys(m) = {<<m.id, m.score>>} \cup Keys(m.left) \cup Keys(m.right)
  BY SunkParts
<1>2. fix([m EXCEPT !.right = c]) = t
  <2>1. m = Cell(m.id, m.score, m.prio, m.left, m.right, z)
    BY <1>1 DEF Node
  <2>2. [Cell(m.id, m.score, m.prio, m.left, m.right, z) EXCEPT !.right = c]
          = Cell(m.id, m.score, m.prio, m.left, c, z)
    BY CellWithRight
  <2> HIDE DEF z
  <2>3. [m EXCEPT !.right = c] = Cell(m.id, m.score, m.prio, m.left, c, z)
    BY <2>1, <2>2, Zenon
  <2> QED  BY <2>3, FixedCell
<1>3. Under(m.left, m.prio) /\ Under(m.right, m.prio)
  BY DEF Sunk, Heaped
<1>4. TreapAt(c) /\ Keys(c) = Keys(m.right) \ {<<i, s>>} /\ Under(c, m.prio)
  BY <1>1, <1>3, TreapIsSunk DEF Deleted
<1>5. AllAfter(Keys(c), m.id, m.score)
  BY <1>1, <1>4 DEF AllAfter
<1>6. TreapAt(t) /\ Keys(t) = {<<m.id, m.score>>} \cup Keys(m.left) \cup Keys(c)
  <2>1. TreapAt(t)
    BY <1>1, <1>3, <1>4, <1>5, NodeTreap
  <2> QED  BY <1>1, <1>4, <2>1, NodeKeys DEF TreapAt
<1>7. t # Nil /\ t.prio = m.prio
  BY NodeFields
<1> HIDE DEF t
<1>8. <<i, s>> \notin Keys(m.left)
  BY <1>1 DEF AllBefore
<1>9. Keys(t) = Keys(m) \ {<<i, s>>}
  BY <1>1, <1>4, <1>6, <1>8
<1>10. \A p \in Int : FitsUnder(m, i, s, p) => Under(t, p)
  BY <1>7 DEF FitsUnder, Under
<1> QED  BY <1>2, <1>6, <1>9, <1>10 DEF Deleted

\* The left child has the higher priority: it rises, and the node sinks on its
\* right, from where it is deleted.
LEMMA LeftChildRises ==
  ASSUME NEW m, m # Nil, NEW i \in Talents, NEW s \in Int, Sunk(m, i, s),
         s = m.score, i = m.id, m.left # Nil, m.right # Nil,
         m.left.prio > m.right.prio,
         NEW c, Sunk(rotateRight(m).right, i, s) => Deleted(c, rotateRight(m).right, i, s)
  PROVE  Deleted(fix([rotateRight(m) EXCEPT !.right = c]), m, i, s)
<1> DEFINE u == m.left
           low == Node(m.id, m.score, m.prio, u.right, m.right)
           up == Node(u.id, u.score, u.prio, u.left, low)
           t == Node(u.id, u.score, u.prio, u.left, c)
           y == 1 + nsize(m.left) + nsize(m.right)
           z == 1 + nsize(u.left) + nsize(low)
<1>1. /\ m = Node(m.id, m.score, m.prio, m.left, m.right)
      /\ m.id \in Talents /\ m.score \in Int /\ m.prio \in Int
      /\ TreapAt(m.left) /\ TreapAt(m.right)
      /\ AllBefore(Keys(m.left), m.id, m.score) /\ AllAfter(Keys(m.right), m.id, m.score)
      /\ Keys(m) = {<<m.id, m.score>>} \cup Keys(m.left) \cup Keys(m.right)
      /\ Keys(m.left) \subseteq Talents \X Int /\ Keys(m.right) \subseteq Talents \X Int
  BY SunkParts
<1>2. /\ u = Node(u.id, u.score, u.prio, u.left, u.right)
      /\ u.id \in Talents /\ u.score \in Int /\ u.prio \in Int
      /\ TreapAt(u.left) /\ TreapAt(u.right)
      /\ AllBefore(Keys(u.left), u.id, u.score) /\ AllAfter(Keys(u.right), u.id, u.score)
      /\ Under(u.left, u.prio) /\ Under(u.right, u.prio)
      /\ Keys(u) = {<<u.id, u.score>>} \cup Keys(u.left) \cup Keys(u.right)
  BY <1>1, TreapParts
<1>3. m.right.prio \in Int /\ m.right.prio <= u.prio
  BY <1>1, <1>2, TreapParts
<1>4. rotateRight(m) = up
  <2>1. m = Cell(m.id, m.score, m.prio, m.left, m.right, y)
    BY <1>1 DEF Node
  <2>2. rotateRight(Cell(m.id, m.score, m.prio, m.left, m.right, y)) = up
    <3> HIDE DEF y
    <3> QED  BY <1>2, RotateRightCell
  <2> HIDE DEF y, up
  <2> QED  BY <2>1, <2>2, Zenon
<1>5. rotateRight(m).right = low
  BY <1>4, NodeFields
<1>6. fix([rotateRight(m) EXCEPT !.right = c]) = t
  <2>1. up = Cell(u.id, u.score, u.prio, u.left, low, z)
    BY DEF Node
  <2>2. [Cell(u.id, u.score, u.prio, u.left, low, z) EXCEPT !.right = c]
          = Cell(u.id, u.score, u.prio, u.left, c, z)
    BY CellWithRight
  <2> HIDE DEF z, low, up
  <2>3. [rotateRight(m) EXCEPT !.right = c] = Cell(u.id, u.score, u.prio, u.left, c, z)
    BY <1>4, <2>1, <2>2, Zenon
  <2> QED  BY <2>3, FixedCell
<1>7. AllBefore(Keys(u.right), m.id, m.score)
  BY <1>1, <1>2 DEF AllBefore
<1>8. /\ low # Nil /\ low.id = m.id /\ low.score = m.score
      /\ low.left = u.right /\ low.right = m.right
  BY NodeFields
<1>9. IsNode(low) /\ Keys(low) = {<<m.id, m.score>>} \cup Keys(u.right) \cup Keys(m.right)
  <2>1. IsNode(low)
    BY <1>1, <1>2, NodeTree DEF TreapAt
  <2> QED  BY <1>1, <1>2, <2>1, NodeKeys DEF TreapAt
<1> HIDE DEF low
<1>10. Sunk(low, i, s)
  BY <1>1, <1>2, <1>7, <1>8, <1>9 DEF Sunk, Ordered
<1>11. FitsUnder(low, i, s, u.prio)
  BY <1>2, <1>3, <1>8 DEF FitsUnder, Under
<1>12. TreapAt(c) /\ Keys(c) = Keys(low) \ {<<i, s>>} /\ Under(c, u.prio)
  BY <1>2, <1>5, <1>10, <1>11 DEF Deleted
<1>13. less(u.score, u.id, m.score, m.id)
  <2>1. <<u.id, u.score>> \in Keys(u)
    BY <1>2
  <2> QED  BY <1>1, <2>1 DEF AllBefore
<1>14. AllAfter(Keys(c), u.id, u.score)
  <2>1. ASSUME NEW k \in Keys(m.right) PROVE less(u.score, u.id, k[2], k[1])
    <3>1. k[1] \in Talents /\ k[2] \in Int
      BY <1>1
    <3>2. less(m.score, m.id, k[2], k[1])
      BY <1>1 DEF AllAfter
    <3> QED  BY <1>1, <1>2, <1>13, <3>1, <3>2, LessIsTransitive
  <2>2. Keys(c) \subseteq Keys(u.right) \cup Keys(m.right)
    BY <1>9, <1>12
  <2> QED  BY <1>2, <2>1, <2>2 DEF AllAfter
<1>15. TreapAt(t) /\ Keys(t) = {<<u.id, u.score>>} \cup Keys(u.left) \cup Keys(c)
  <2>1. TreapAt(t)
    BY <1>2, <1>12, <1>14, NodeTreap
  <2> QED  BY <1>2, <1>12, <2>1, NodeKeys DEF TreapAt
<1>16. t # Nil /\ t.prio = u.prio
  BY NodeFields
<1> HIDE DEF t
<1>17. <<i, s>> \notin Keys(u)
  BY <1>1, LessIsAnOrder DEF AllBefore
<1>18. Keys(t) = Keys(m) \ {<<i, s>>}
  <2>1. <<i, s>> \notin Keys(m.right)
    BY <1>1, LessIsAnOrder DEF AllAfter
  <2> QED  BY <1>1, <1>2, <1>9, <1>12, <1>15, <1>17, <2>1
<1>19. \A p \in Int : FitsUnder(m, i, s, p) => Under(t, p)
  BY <1>16 DEF FitsUnder, Under
<1> QED  BY <1>6, <1>15, <1>18, <1>19 DEF Deleted

\* The right child has at least the priority of the left.
LEMMA RightChildRises ==
  ASSUME NEW m, m # Nil, NEW i \in Talents, NEW s \in Int, Sunk(m, i, s),
         s = m.score, i = m.id, m.left # Nil, m.right # Nil,
         ~(m.left.prio > m.right.prio),
         NEW c, Sunk(rotateLeft(m).left, i, s) => Deleted(c, rotateLeft(m).left, i, s)
  PROVE  Deleted(fix([rotateLeft(m) EXCEPT !.left = c]), m, i, s)
<1> DEFINE u == m.right
           low == Node(m.id, m.score, m.prio, m.left, u.left)
           up == Node(u.id, u.score, u.prio, low, u.right)
           t == Node(u.id, u.score, u.prio, c, u.right)
           y == 1 + nsize(m.left) + nsize(m.right)
           z == 1 + nsize(low) + nsize(u.right)
<1>1. /\ m = Node(m.id, m.score, m.prio, m.left, m.right)
      /\ m.id \in Talents /\ m.score \in Int /\ m.prio \in Int
      /\ TreapAt(m.left) /\ TreapAt(m.right)
      /\ AllBefore(Keys(m.left), m.id, m.score) /\ AllAfter(Keys(m.right), m.id, m.score)
      /\ Keys(m) = {<<m.id, m.score>>} \cup Keys(m.left) \cup Keys(m.right)
      /\ Keys(m.left) \subseteq Talents \X Int /\ Keys(m.right) \subseteq Talents \X Int
  BY SunkParts
<1>2. /\ u = Node(u.id, u.score, u.prio, u.left, u.right)
      /\ u.id \in Talents /\ u.score \in Int /\ u.prio \in Int
      /\ TreapAt(u.left) /\ TreapAt(u.right)
      /\ AllBefore(Keys(u.left), u.id, u.score) /\ AllAfter(Keys(u.right), u.id, u.score)
      /\ Under(u.left, u.prio) /\ Under(u.right, u.prio)
      /\ Keys(u) = {<<u.id, u.score>>} \cup Keys(u.left) \cup Keys(u.right)
  BY <1>1, TreapParts
<1>3. m.left.prio \in Int /\ m.left.prio <= u.prio
  BY <1>1, <1>2, TreapParts
<1>4. rotateLeft(m) = up
  <2>1. m = Cell(m.id, m.score, m.prio, m.left, m.right, y)
    BY <1>1 DEF Node
  <2>2. rotateLeft(Cell(m.id, m.score, m.prio, m.left, m.right, y)) = up
    <3> HIDE DEF y
    <3> QED  BY <1>2, RotateLeftCell
  <2> HIDE DEF y, up
  <2> QED  BY <2>1, <2>2, Zenon
<1>5. rotateLeft(m).left = low
  BY <1>4, NodeFields
<1>6. fix([rotateLeft(m) EXCEPT !.left = c]) = t
  <2>1. up = Cell(u.id, u.score, u.prio, low, u.right, z)
    BY DEF Node
  <2>2. [Cell(u.id, u.score, u.prio, low, u.right, z) EXCEPT !.left = c]
          = Cell(u.id, u.score, u.prio, c, u.right, z)
    BY CellWithLeft
  <2> HIDE DEF z, low, up
  <2>3. [rotateLeft(m) EXCEPT !.left = c] = Cell(u.id, u.score, u.prio, c, u.right, z)
    BY <1>4, <2>1, <2>2, Zenon
  <2> QED  BY <2>3, FixedCell
<1>7. AllAfter(Keys(u.left), m.id, m.score)
  BY <1>1, <1>2 DEF AllAfter
<1>8. /\ low # Nil /\ low.id = m.id /\ low.score = m.score
      /\ low.left = m.left /\ low.right = u.left
  BY NodeFields
<1>9. IsNode(low) /\ Keys(low) = {<<m.id, m.score>>} \cup Keys(m.left) \cup Keys(u.left)
  <2>1. IsNode(low)
    BY <1>1, <1>2, NodeTree DEF TreapAt
  <2> QED  BY <1>1, <1>2, <2>1, NodeKeys DEF TreapAt
<1> HIDE DEF low
<1>10. Sunk(low, i, s)
  BY <1>1, <1>2, <1>7, <1>8, <1>9 DEF Sunk, Ordered
<1>11. FitsUnder(low, i, s, u.prio)
  BY <1>2, <1>3, <1>8 DEF FitsUnder, Under
<1>12. TreapAt(c) /\ Keys(c) = Keys(low) \ {<<i, s>>} /\ Under(c, u.prio)
  BY <1>2, <1>5, <1>10, <1>11 DEF Deleted
<1>13. less(m.score, m.id, u.score, u.id)
  <2>1. <<u.id, u.score>> \in Keys(u)
    BY <1>2
  <2> QED  BY <1>1, <2>1 DEF AllAfter
<1>14. AllBefore(Keys(c), u.id, u.score)
  <2>1. ASSUME NEW k \in Keys(m.left) PROVE less(k[2], k[1], u.score, u.id)
    <3>1. k[1] \in Talents /\ k[2] \in Int
      BY <1>1
    <3>2. less(k[2], k[1], m.score, m.id)
      BY <1>1 DEF AllBefore
    <3> QED  BY <1>1, <1>2, <1>13, <3>1, <3>2, LessIsTransitive
  <2>2. Keys(c) \subseteq Keys(m.left) \cup Keys(u.left)
    BY <1>9, <1>12
  <2> QED  BY <1>2, <2>1, <2>2 DEF AllBefore
<1>15. TreapAt(t) /\ Keys(t) = {<<u.id, u.score>>} \cup Keys(c) \cup Keys(u.right)
  <2>1. TreapAt(t)
    BY <1>2, <1>12, <1>14, NodeTreap
  <2> QED  BY <1>2, <1>12, <2>1, NodeKeys DEF TreapAt
<1>16. t # Nil /\ t.prio = u.prio
  BY NodeFields
<1> HIDE DEF t
<1>17. <<i, s>> \notin Keys(u)
  BY <1>1, LessIsAnOrder DEF AllAfter
<1>18. Keys(t) = Keys(m) \ {<<i, s>>}
  <2>1. <<i, s>> \notin Keys(m.left)
    BY <1>1, LessIsAnOrder DEF AllBefore
  <2> QED  BY <1>1, <1>2, <1>9, <1>12, <1>15, <1>17, <2>1
<1>19. \A p \in Int : FitsUnder(m, i, s, p) => Under(t, p)
  BY <1>16 DEF FitsUnder, Under
<1> QED  BY <1>6, <1>15, <1>18, <1>19 DEF Deleted

\* deleteNode: the result is a treap that holds the other keys.
THEOREM DeleteKeepsTreap ==
  ASSUME NEW n, TreapAt(n), NEW i \in Talents, NEW s \in Int
  PROVE  TreapAt(deleteNode(n, i, s)) /\ Keys(deleteNode(n, i, s)) = Keys(n) \ {<<i, s>>}
<1>1. Tree(n) /\ nsize(n) \in Nat /\ n \in Sinking(n)
  BY TreeShape, SinkingNodes DEF TreapAt, Tree
<1>2. PICK del : /\ deleteNode(n, i, s) = del[n]
                 /\ \A m \in Sinking(n) : del[m] = DeleteStep(del, m, i, s)
  BY <1>1, DeleteRecursion
<1> DEFINE Right(m) == Sunk(m, i, s) => Deleted(del[m], m, i, s)
           K == {k \in Nat : \A m \in Sinking(n) : nsize(m) < k => Right(m)}
<1>3. 0 \in K
  BY <1>1, SinkingShrinks
<1>4. ASSUME NEW k \in K PROVE k + 1 \in K
  <2> SUFFICES ASSUME NEW m \in Sinking(n), nsize(m) < k + 1, Sunk(m, i, s)
               PROVE  Deleted(del[m], m, i, s)
    OBVIOUS
  <2>1. del[m] = DeleteStep(del, m, i, s)
    BY <1>2
  <2>2. ASSUME NEW c \in GoesOnWith(m), Sunk(c, i, s) PROVE Deleted(del[c], c, i, s)
    <3>1. c \in Sinking(n) /\ nsize(c) < nsize(m) /\ nsize(m) \in Nat
      BY <1>1, SinkingShrinks
    <3>2. nsize(c) \in Nat /\ k \in Nat
      BY <1>1, <3>1, SinkingShrinks
    <3>3. nsize(c) < k
      BY <3>1, <3>2
    <3> QED  BY <2>2, <3>1, <3>3
  <2>3. CASE m = Nil
    BY <2>1, <2>3, NilTreap, Zenon DEF DeleteStep, Deleted, Under
  <2>4. CASE m # Nil /\ s = m.score /\ i = m.id
    <3>1. CASE m.left = Nil
      BY <2>1, <2>4, <3>1, DeletedOneChild, Zenon DEF DeleteStep
    <3>2. CASE m.left # Nil /\ m.right = Nil
      BY <2>1, <2>4, <3>2, DeletedOneChild, Zenon DEF DeleteStep
    <3>3. CASE m.left # Nil /\ m.right # Nil
      <4> DEFINE low  == rotateRight(m).right
                 high == rotateLeft(m).left
      <4>1. low \in GoesOnWith(m) /\ high \in GoesOnWith(m)
        BY <2>4, <3>3 DEF GoesOnWith
      <4>2. Sunk(low, i, s) => Deleted(del[low], low, i, s)
        BY <2>2, <4>1
      <4>3. Sunk(high, i, s) => Deleted(del[high], high, i, s)
        BY <2>2, <4>1
      <4>4. CASE m.left.prio > m.right.prio
        <5>1. del[m] = fix([rotateRight(m) EXCEPT !.right = del[low]])
          BY <2>1, <2>4, <3>3, <4>4, Zenon DEF DeleteStep
        <5>2. Deleted(fix([rotateRight(m) EXCEPT !.right = del[low]]), m, i, s)
          BY <2>4, <3>3, <4>2, <4>4, LeftChildRises
        <5> QED  BY <5>1, <5>2, Zenon
      <4>5. CASE ~(m.left.prio > m.right.prio)
        <5>1. del[m] = fix([rotateLeft(m) EXCEPT !.left = del[high]])
          BY <2>1, <2>4, <3>3, <4>5, Zenon DEF DeleteStep
        <5>2. Deleted(fix([rotateLeft(m) EXCEPT !.left = del[high]]), m, i, s)
          BY <2>4, <3>3, <4>3, <4>5, RightChildRises
        <5> QED  BY <5>1, <5>2, Zenon
      <4> QED  BY <4>4, <4>5
    <3> QED  BY <3>1, <3>2, <3>3
  <2>5. CASE m # Nil /\ ~(s = m.score /\ i = m.id)
    <3>1. TreapAt(m.left) /\ TreapAt(m.right)
      BY <2>5 DEF Sunk
    <3>2. m.left \in GoesOnWith(m) /\ m.right \in GoesOnWith(m)
      BY <2>5 DEF GoesOnWith
    <3>3. Deleted(del[m.left], m.left, i, s) /\ Deleted(del[m.right], m.right, i, s)
      BY <2>2, <3>1, <3>2, TreapIsSunk
    <3>4. CASE less(s, i, m.score, m.id)
      <4>1. del[m] = fix([m EXCEPT !.left = del[m.left]])
        BY <2>1, <2>5, <3>4, Zenon DEF DeleteStep
      <4>2. Deleted(fix([m EXCEPT !.left = del[m.left]]), m, i, s)
        BY <2>5, <3>3, <3>4, DeletedLeft
      <4> QED  BY <4>1, <4>2, Zenon
    <3>5. CASE ~less(s, i, m.score, m.id)
      <4>1. del[m] = fix([m EXCEPT !.right = del[m.right]])
        BY <2>1, <2>5, <3>5, Zenon DEF DeleteStep
      <4>2. Deleted(fix([m EXCEPT !.right = del[m.right]]), m, i, s)
        BY <2>5, <3>3, <3>5, DeletedRight
      <4> QED  BY <4>1, <4>2, Zenon
    <3> QED  BY <3>4, <3>5
  <2> QED  BY <2>3, <2>4, <2>5
<1>5. K = Nat
  <2> HIDE DEF K
  <2>1. K \in SUBSET Nat
    BY DEF K
  <2> QED  BY <1>3, <1>4, <2>1, CountingUp
<1>6. Right(n)
  <2>1. nsize(n) + 1 \in K
    BY <1>1, <1>5
  <2> QED  BY <1>1, <2>1
<1> QED  BY <1>2, <1>6, TreapIsSunk DEF Deleted

-----------------------------------------------------------------------------
(* Sizes *)

\* The size of a set made of one element and two sets, all apart.
LEMMA NodeAndTwoSets ==
  ASSUME NEW L, NEW R, NEW x, IsFiniteSet(L), IsFiniteSet(R),
         x \notin L, x \notin R, \A y \in L : y \notin R
  PROVE  /\ IsFiniteSet({x} \cup L \cup R)
         /\ Cardinality({x} \cup L \cup R) = 1 + Cardinality(L) + Cardinality(R)
<1>1. L \cap R = {}
  OBVIOUS
<1>2. IsFiniteSet(L \cup R) /\ Cardinality(L \cup R) = Cardinality(L) + Cardinality(R)
  <2>1. /\ IsFiniteSet(L \cup R)
        /\ Cardinality(L \cup R) = Cardinality(L) + Cardinality(R) - Cardinality(L \cap R)
    BY FS_Union
  <2>2. Cardinality(L \cap R) = 0
    BY <1>1, FS_EmptySet
  <2>3. Cardinality(L) \in Nat /\ Cardinality(R) \in Nat
    BY FS_CardinalityType
  <2> QED  BY <2>1, <2>2, <2>3
<1>3. x \notin L \cup R /\ {x} \cup L \cup R = (L \cup R) \cup {x}
  OBVIOUS
<1>4. /\ IsFiniteSet((L \cup R) \cup {x})
      /\ Cardinality((L \cup R) \cup {x}) = Cardinality(L \cup R) + 1
  BY <1>2, <1>3, FS_AddElement
<1>5. Cardinality(L) \in Nat /\ Cardinality(R) \in Nat
  BY FS_CardinalityType
<1> QED  BY <1>2, <1>3, <1>4, <1>5

\* The key of a node is not below it, and no key is on both sides.
LEMMA KeysApart ==
  ASSUME NEW m, TreapAt(m), m # Nil
  PROVE  /\ <<m.id, m.score>> \notin Keys(m.left) /\ <<m.id, m.score>> \notin Keys(m.right)
         /\ \A k \in Keys(m.left) : k \notin Keys(m.right)
<1>1. /\ m.id \in Talents /\ m.score \in Int /\ TreapAt(m.left) /\ TreapAt(m.right)
      /\ AllBefore(Keys(m.left), m.id, m.score) /\ AllAfter(Keys(m.right), m.id, m.score)
  BY TreapParts
<1>2. <<m.id, m.score>> \notin Keys(m.left) /\ <<m.id, m.score>> \notin Keys(m.right)
  BY <1>1, LessIsAnOrder DEF AllBefore, AllAfter
<1>3. ASSUME NEW x \in Keys(m.left), x \in Keys(m.right) PROVE FALSE
  <2>1. x[1] \in Talents /\ x[2] \in Int
    BY <1>1, KeysAreKeys DEF TreapAt
  <2>2. less(x[2], x[1], m.score, m.id)
    BY <1>1 DEF AllBefore
  <2>3. less(m.score, m.id, x[2], x[1])
    BY <1>1, <1>3 DEF AllAfter
  <2>4. ~less(m.score, m.id, x[2], x[1])
    BY <1>1, <2>1, <2>2, LessIsStrict
  <2> QED  BY <2>3, <2>4
<1> QED  BY <1>2, <1>3

\* The sizes are right: a treap holds as many nodes as its root's size says, and
\* as many keys.
LEMMA SizeCounts ==
  ASSUME NEW n, TreapAt(n)
  PROVE  /\ IsFiniteSet(NodesOf(n)) /\ Cardinality(NodesOf(n)) = nsize(n)
         /\ IsFiniteSet(Keys(n)) /\ Cardinality(Keys(n)) = nsize(n)
<1> DEFINE Counted(S, m) == IsFiniteSet(S) /\ Cardinality(S) = nsize(m)
           Right(m) == Counted(NodesOf(m), m) /\ Counted(Keys(m), m)
           K == {k \in Nat : \A m \in Subtrees(n) : nsize(m) < k => Right(m)}
<1>1. Tree(n) /\ nsize(n) \in Nat /\ n \in Subtrees(n)
  BY TreeShape DEF TreapAt, Tree
<1>2. 0 \in K
  BY <1>1, TreapBelow
<1>3. ASSUME NEW k \in K PROVE k + 1 \in K
  <2> SUFFICES ASSUME NEW m \in Subtrees(n), nsize(m) < k + 1 PROVE Right(m)
    OBVIOUS
  <2>1. CASE m = Nil
    BY <2>1, NilTree, NilTreap, NilSize, FS_EmptySet DEF NodesOf
  <2>2. CASE m # Nil
    <3> DEFINE l == m.left
               r == m.right
               key == <<m.id, m.score>>
    <3>1. /\ IsNode(m) /\ l \in Subtrees(n) /\ r \in Subtrees(n) /\ TreapAt(m)
          /\ nsize(l) \in Nat /\ nsize(r) \in Nat /\ k \in Nat
          /\ nsize(m) = 1 + nsize(l) + nsize(r)
      BY <1>1, <2>2, TreapBelow, NodesHaveSizes DEF Tree, Whole
    <3>2. nsize(l) < k /\ nsize(r) < k
      BY <3>1
    <3>3. /\ Counted(NodesOf(l), l) /\ Counted(Keys(l), l)
          /\ Counted(NodesOf(r), r) /\ Counted(Keys(r), r)
      BY <3>1, <3>2
    <3>4. /\ Keys(m) = {key} \cup Keys(l) \cup Keys(r)
          /\ AllBefore(Keys(l), m.id, m.score) /\ AllAfter(Keys(r), m.id, m.score)
          /\ m.id \in Talents /\ m.score \in Int
          /\ TreapAt(l) /\ TreapAt(r)
      BY <2>2, <3>1, TreapParts
    <3>5. NodesOf(m) = {m} \cup NodesOf(l) \cup NodesOf(r)
      BY <2>2, <3>1, TreeParts DEF NodesOf, TreapAt
    <3>6. key \notin Keys(l) /\ key \notin Keys(r)
      BY <2>2, <3>1, KeysApart
    <3>7. \A x \in Keys(l) : x \notin Keys(r)
      BY <2>2, <3>1, KeysApart
    <3>8. Counted(Keys(m), m)
      BY <3>1, <3>3, <3>4, <3>6, <3>7, NodeAndTwoSets
    <3>9. /\ m \notin NodesOf(l) /\ m \notin NodesOf(r)
          /\ \A x \in NodesOf(l) : x \notin NodesOf(r)
      BY <3>6, <3>7 DEF Keys
    <3>10. Counted(NodesOf(m), m)
      BY <3>1, <3>3, <3>5, <3>9, NodeAndTwoSets
    <3> QED  BY <3>8, <3>10
  <2> QED  BY <2>1, <2>2
<1>4. K = Nat
  <2> HIDE DEF K
  <2>1. K \in SUBSET Nat
    BY DEF K
  <2> QED  BY <1>2, <1>3, <2>1, CountingUp
<1>5. Right(n)
  <2>1. nsize(n) + 1 \in K
    BY <1>1, <1>4
  <2> QED  BY <1>1, <2>1
<1> QED  BY <1>5

-----------------------------------------------------------------------------
(* The tree and the map *)

\* The pairs of talent and score of the map.
Board(records) == {<<t, records[t]>> : t \in DOMAIN records}

Records ==
  /\ byID = [t \in DOMAIN byID |-> byID[t]]
  /\ DOMAIN byID \subseteq Talents /\ \A t \in DOMAIN byID : byID[t] \in Int

\* The inductive invariant: a treap, whose keys are the pairs of the map.
RootInv == TreapAt(root) /\ Records /\ Keys(root) = Board(byID)

LEMMA FixedPointIsNumber ==
  ASSUME NEW x, IsFloat(x)
  PROVE  toFixedPoint(x) \in Int
<1>1. MaxFP \in Int /\ MinFP \in Int /\ MaxScoreValue \in Int /\ ScoreScale \in Int
  BY TreapAssumption DEF MaxFP, MinFP
<1>2. CASE x[1] \in {"nan", "+inf", "-inf"}
  BY <1>1, <1>2 DEF toFixedPoint
<1>3. CASE x[1] = "num" /\ x[2] \in Int
  <2> DEFINE clamped == IF x[2] > MaxScoreValue THEN MaxScoreValue
                        ELSE IF x[2] < -MaxScoreValue THEN -MaxScoreValue ELSE x[2]
             scaled  == clamped * ScoreScale
  <2>1. clamped \in Int
    BY <1>1, <1>3
  <2> HIDE DEF clamped
  <2>2. scaled \in Int
    BY <1>1, <2>1
  <2> HIDE DEF scaled
  <2>3. toFixedPoint(x)
          = IF scaled >= MaxFP THEN MaxFP ELSE IF scaled <= MinFP THEN MinFP ELSE scaled
    BY <1>3 DEF toFixedPoint, scaled, clamped
  <2> QED  BY <1>1, <2>2, <2>3
<1> QED  BY <1>2, <1>3 DEF IsFloat

LEMMA RootInvInit == Init => RootInv
<1> SUFFICES ASSUME Init PROVE RootInv
  OBVIOUS
<1>1. Records /\ Board(byID) = {}
  BY DEF Init, Records, Board
<1>2. TreapAt(root) /\ Keys(root) = {}
  BY NilTreap DEF Init
<1> QED  BY <1>1, <1>2 DEF RootInv

LEMMA RootInvNewTalent ==
  ASSUME RootInv, NEW t \in Talents, NEW ns \in Int, NewTalent(t, ns)
  PROVE  RootInv'
<1>1. /\ t \notin DOMAIN byID /\ root' = insert(root, t, ns)
      /\ byID' = [u \in DOMAIN byID \cup {t} |-> IF u = t THEN ns ELSE byID[u]]
  BY DEF NewTalent
<1>2. <<t, ns>> \notin Keys(root)
  BY <1>1 DEF RootInv, Board
<1>3. TreapAt(root') /\ Keys(root') = {<<t, ns>>} \cup Keys(root)
  BY <1>1, <1>2, InsertKeepsTreap DEF RootInv
<1>4. Records'
  BY <1>1 DEF RootInv, Records
<1>5. Board(byID') = {<<t, ns>>} \cup Board(byID)
  <2>1. ASSUME NEW k \in Board(byID') PROVE k \in {<<t, ns>>} \cup Board(byID)
    BY <1>1 DEF Board
  <2>2. ASSUME NEW k \in Board(byID) PROVE k \in Board(byID')
    BY <1>1 DEF Board
  <2>3. <<t, ns>> \in Board(byID')
    BY <1>1 DEF Board
  <2> QED  BY <2>1, <2>2, <2>3
<1>6. Keys(root') = Board(byID')
  BY <1>3, <1>5 DEF RootInv
<1> QED  BY <1>3, <1>4, <1>6 DEF RootInv, TreapAt, Keys, Board

LEMMA RootInvImprovement ==
  ASSUME RootInv, NEW t \in Talents, NEW ns \in Int, Improvement(t, ns)
  PROVE  RootInv'
<1> DEFINE old == byID[t]
           cut == deleteNode(root, t, old)
<1>1. /\ t \in DOMAIN byID /\ root' = insert(cut, t, ns)
      /\ byID' = [byID EXCEPT ![t] = ns] /\ old \in Int
  BY DEF Improvement, RootInv, Records
<1>2. TreapAt(cut) /\ Keys(cut) = Board(byID) \ {<<t, old>>}
  BY <1>1, DeleteKeepsTreap DEF RootInv
<1> HIDE DEF cut
<1>3. <<t, ns>> \notin Keys(cut)
  BY <1>2 DEF Board
<1>4. TreapAt(root') /\ Keys(root') = {<<t, ns>>} \cup Keys(cut)
  BY <1>1, <1>2, <1>3, InsertKeepsTreap
<1>5. /\ DOMAIN byID' = DOMAIN byID /\ byID'[t] = ns
      /\ \A u \in DOMAIN byID : u # t => byID'[u] = byID[u]
  BY <1>1 DEF RootInv, Records
<1>6. Records'
  BY <1>1, <1>5 DEF RootInv, Records
<1>7. Board(byID') = {<<t, ns>>} \cup (Board(byID) \ {<<t, old>>})
  <2>1. ASSUME NEW k \in Board(byID') PROVE k \in {<<t, ns>>} \cup (Board(byID) \ {<<t, old>>})
    BY <1>5 DEF Board
  <2>2. ASSUME NEW k \in Board(byID), k # <<t, old>> PROVE k \in Board(byID')
    BY <1>5, <2>2 DEF Board
  <2>3. <<t, ns>> \in Board(byID')
    BY <1>1, <1>5 DEF Board
  <2> QED  BY <2>1, <2>2, <2>3
<1>8. Keys(root') = Board(byID')
  BY <1>2, <1>4, <1>7
<1> QED  BY <1>4, <1>6, <1>8 DEF RootInv

THEOREM RootInvariant == Spec => []RootInv
<1>1. Init => RootInv
  BY RootInvInit
<1>2. RootInv /\ [Next]_vars => RootInv'
  <2> SUFFICES ASSUME RootInv, [Next]_vars PROVE RootInv'
    OBVIOUS
  <2>1. ASSUME NEW t \in Talents, NEW x \in Floats, UpdateBestWithMeta(t, x) PROVE RootInv'
    <3> DEFINE ns == toFixedPoint(x)
    <3>1. ns \in Int
      BY FixedPointIsNumber, FloatsAssumption
    <3>2. CASE NewTalent(t, ns)
      <4> HIDE DEF ns
      <4> QED  BY <3>1, <3>2, RootInvNewTalent
    <3>3. CASE Improvement(t, ns)
      <4> HIDE DEF ns
      <4> QED  BY <3>1, <3>3, RootInvImprovement
    <3>4. CASE NotAnImprovement(t, ns)
      BY <3>4 DEF NotAnImprovement, vars, RootInv, Records, TreapAt, Keys, Board
    <3> QED  BY <2>1, <3>2, <3>3, <3>4 DEF UpdateBestWithMeta
  <2>2. CASE UNCHANGED vars
    BY <2>2 DEF vars, RootInv, Records
  <2> QED  BY <2>1, <2>2 DEF Next
<1> QED  BY <1>1, <1>2, PTL DEF Spec

-----------------------------------------------------------------------------
(* The properties *)

\* The priority at the top of a treap is the highest.
LEMMA HighestOnTop ==
  ASSUME NEW n, TreapAt(n), NEW p \in Int, Under(n, p)
  PROVE  \A x \in NodesOf(n) : x.prio <= p
<1> DEFINE S == {x \in Subtrees(n) : Under(x, p)}
<1>1. Tree(n) /\ n \in S
  BY DEF TreapAt, Tree
<1>2. ASSUME NEW x \in S \ {Nil} PROVE x.left \in S /\ x.right \in S
  <2>1. x \in Subtrees(n) /\ TreapAt(x) /\ x.left \in Subtrees(n) /\ x.right \in Subtrees(n)
    BY <1>1, TreapBelow DEF Tree, Whole
  <2>2. /\ TreapAt(x.left) /\ TreapAt(x.right) /\ x.prio \in Int
        /\ Under(x.left, x.prio) /\ Under(x.right, x.prio)
    BY <2>1, TreapParts
  <2>3. x.prio <= p
    BY DEF Under
  <2>4. Under(x.left, p) /\ Under(x.right, p)
    BY <2>2, <2>3, UnderMore
  <2> QED  BY <2>1, <2>4
<1>3. S = Subtrees(n)
  <2> HIDE DEF S
  <2>1. S \subseteq Subtrees(n)
    BY DEF S
  <2> QED  BY <1>1, <1>2, <2>1, TreeInduction
<1> QED  BY <1>3 DEF NodesOf, Under

\* The tree is a treap after every sequence of updates: at every node, all of
\* the left subtree ranks higher, all of the right one lower, none has a higher
\* priority, and the size is right.
THEOREM TreapIsWellFormed == Spec => []WellFormed
<1>1. RootInv => WellFormed
  <2> SUFFICES ASSUME RootInv, NEW n \in NodesOf(root)
               PROVE  /\ \A l \in NodesOf(n.left) :
                            less(l.score, l.id, n.score, n.id) /\ l.prio <= n.prio
                      /\ \A r \in NodesOf(n.right) :
                            less(n.score, n.id, r.score, r.id) /\ r.prio <= n.prio
                      /\ n.size = Cardinality(NodesOf(n))
    BY DEF WellFormed
  <2>1. TreapAt(n) /\ n # Nil
    BY TreapBelow DEF RootInv, NodesOf
  <2>2. /\ TreapAt(n.left) /\ TreapAt(n.right) /\ n.prio \in Int
        /\ AllBefore(Keys(n.left), n.id, n.score) /\ AllAfter(Keys(n.right), n.id, n.score)
        /\ Under(n.left, n.prio) /\ Under(n.right, n.prio)
    BY <2>1, TreapParts
  <2>3. ASSUME NEW l \in NodesOf(n.left)
        PROVE  less(l.score, l.id, n.score, n.id) /\ l.prio <= n.prio
    <3>1. <<l.id, l.score>> \in Keys(n.left)
      BY DEF Keys
    <3>2. less(l.score, l.id, n.score, n.id)
      BY <2>2, <3>1 DEF AllBefore
    <3> QED  BY <2>2, <3>2, HighestOnTop
  <2>4. ASSUME NEW r \in NodesOf(n.right)
        PROVE  less(n.score, n.id, r.score, r.id) /\ r.prio <= n.prio
    <3>1. <<r.id, r.score>> \in Keys(n.right)
      BY DEF Keys
    <3>2. less(n.score, n.id, r.score, r.id)
      BY <2>2, <3>1 DEF AllAfter
    <3> QED  BY <2>2, <3>2, HighestOnTop
  <2>5. n.size = Cardinality(NodesOf(n))
    BY <2>1, SizeCounts DEF nsize
  <2> QED  BY <2>3, <2>4, <2>5
<1> QED  BY <1>1, RootInvariant, PTL

\* No update loses a node, leaves a stale one behind or inserts one twice: the
\* tree holds what the map holds, and as much of it.
THEOREM TreeHoldsTheMap == Spec => []TreeMatchesMap
<1>1. RootInv => TreeMatchesMap
  <2> SUFFICES ASSUME RootInv PROVE TreeMatchesMap
    OBVIOUS
  <2>1. {<<n.id, n.score>> : n \in NodesOf(root)} = {<<t, byID[t]>> : t \in DOMAIN byID}
    BY DEF RootInv, Keys, Board
  <2>2. IsFiniteSet(Board(byID)) /\ Cardinality(Board(byID)) = nsize(root)
    BY SizeCounts DEF RootInv
  <2> DEFINE f == [k \in Board(byID) |-> k[1]]
  <2>3. f \in Bijection(Board(byID), DOMAIN byID)
    <3>1. ASSUME NEW k \in Board(byID) PROVE k[1] \in DOMAIN byID /\ k = <<k[1], byID[k[1]]>>
      BY DEF Board
    <3>2. ASSUME NEW t \in DOMAIN byID PROVE <<t, byID[t]>> \in Board(byID)
      BY DEF Board
    <3>3. f \in [Board(byID) -> DOMAIN byID]
      BY <3>1
    <3>4. \A a, b \in Board(byID) : f[a] = f[b] => a = b
      BY <3>1
    <3>5. \A t \in DOMAIN byID : \E k \in Board(byID) : f[k] = t
      BY <3>2
    <3> HIDE DEF f
    <3> QED  BY <3>3, <3>4, <3>5 DEF Bijection, Injection, Surjection, IsInjective
  <2>4. Cardinality(DOMAIN byID) = Cardinality(Board(byID))
    <3> HIDE DEF f
    <3> QED  BY <2>2, <2>3, FS_Bijection DEF ExistsBijection
  <2> QED  BY <2>1, <2>2, <2>4 DEF TreeMatchesMap
<1> QED  BY <1>1, RootInvariant, PTL

-----------------------------------------------------------------------------
(* Lists in the order of the leaderboard *)

Item == [id : Talents, score : Int]

KeyOf(x) == <<x.id, x.score>>

\* e lists the keys K, the first of the leaderboard first.
InOrder(e, K) ==
  /\ e \in Seq(Item)
  /\ {KeyOf(e[i]) : i \in 1..Len(e)} = K
  /\ \A i, j \in 1..Len(e) : i < j => less(e[i].score, e[i].id, e[j].score, e[j].id)

LEMMA EmptyInOrder == InOrder(<<>>, {})
BY DEF InOrder

\* The elements of two lists with one element between them.
LEMMA MiddleElements ==
  ASSUME NEW S, NEW a \in Seq(S), NEW b \in Seq(S), NEW x \in S
  PROVE  LET e == a \o <<x>> \o b
         IN  /\ e \in Seq(S) /\ Len(e) = Len(a) + 1 + Len(b)
             /\ \A i \in 1..Len(a) : e[i] = a[i]
             /\ e[Len(a) + 1] = x
             /\ \A i \in 1..Len(b) : e[Len(a) + 1 + i] = b[i]
<1> DEFINE c == a \o <<x>>
           e == c \o b
<1>1. c \in Seq(S) /\ Len(c) = Len(a) + 1 /\ c[Len(a) + 1] = x
      /\ \A i \in 1..Len(a) : c[i] = a[i]
  OBVIOUS
<1> HIDE DEF c
<1>2. e \in Seq(S) /\ Len(e) = Len(c) + Len(b)
      /\ (\A i \in 1..Len(c) : e[i] = c[i])
      /\ (\A i \in 1..Len(b) : e[Len(c) + i] = b[i])
  <2>1. Len(c) \in Nat /\ Len(b) \in Nat
    BY <1>1
  <2>2. /\ e \in Seq(S) /\ Len(e) = Len(c) + Len(b)
        /\ \A i \in 1..(Len(c) + Len(b)) : e[i] = IF i <= Len(c) THEN c[i] ELSE b[i - Len(c)]
    BY <1>1, ConcatProperties
  <2> HIDE DEF e
  <2>3. ASSUME NEW i \in 1..Len(c) PROVE e[i] = c[i]
    BY <2>1, <2>2
  <2>4. ASSUME NEW i \in 1..Len(b) PROVE e[Len(c) + i] = b[i]
    <3>1. /\ Len(c) + i \in 1..(Len(c) + Len(b))
          /\ ~(Len(c) + i <= Len(c)) /\ (Len(c) + i) - Len(c) = i
      BY <2>1
    <3> QED  BY <2>2, <3>1
  <2> QED  BY <2>2, <2>3, <2>4
<1> HIDE DEF e
<1>3. Len(a) \in Nat /\ Len(b) \in Nat
  OBVIOUS
<1>4. Len(e) = Len(a) + 1 + Len(b)
  BY <1>1, <1>2
<1>5. ASSUME NEW i \in 1..Len(a) PROVE e[i] = a[i]
  BY <1>1, <1>2, <1>3
<1>6. e[Len(a) + 1] = x
  BY <1>1, <1>2, <1>3
<1>7. ASSUME NEW i \in 1..Len(b) PROVE e[Len(a) + 1 + i] = b[i]
  BY <1>1, <1>2
<1> QED  BY <1>2, <1>4, <1>5, <1>6, <1>7 DEF e, c

\* The list of a node: that of what is left of it, the node, what is right.
LEMMA NodeInOrder ==
  ASSUME NEW a, NEW b, NEW L, NEW R, InOrder(a, L), InOrder(b, R),
         NEW x \in Item, AllBefore(L, x.id, x.score), AllAfter(R, x.id, x.score)
  PROVE  InOrder(a \o <<x>> \o b, {KeyOf(x)} \cup L \cup R)
<1> DEFINE e == a \o <<x>> \o b
           n == Len(a) + 1
<1>1. a \in Seq(Item) /\ b \in Seq(Item) /\ Len(a) \in Nat /\ Len(b) \in Nat /\ n \in Nat
  BY DEF InOrder
<1>2. /\ e \in Seq(Item) /\ Len(e) = n + Len(b)
      /\ \A i \in 1..Len(a) : e[i] = a[i]
      /\ e[n] = x
      /\ \A i \in 1..Len(b) : e[n + i] = b[i]
  BY <1>1, MiddleElements
<1> HIDE DEF e
<1>3. ASSUME NEW i \in 1..Len(e)
      PROVE  i \in 1..Len(a) \/ i = n \/ (i > n /\ i - n \in 1..Len(b) /\ e[i] = b[i - n])
  <2>1. CASE i <= n
    BY <1>1, <1>2, <2>1
  <2>2. CASE i > n
    <3>1. i - n \in 1..Len(b) /\ n + (i - n) = i
      BY <1>1, <1>2, <2>2
    <3> QED  BY <1>2, <2>2, <3>1
  <2> QED  BY <1>1, <2>1, <2>2
<1>4. {KeyOf(e[i]) : i \in 1..Len(e)} = {KeyOf(x)} \cup L \cup R
  <2>1. ASSUME NEW i \in 1..Len(e) PROVE KeyOf(e[i]) \in {KeyOf(x)} \cup L \cup R
    BY <1>2, <1>3 DEF InOrder
  <2>2. ASSUME NEW k \in L PROVE \E i \in 1..Len(e) : k = KeyOf(e[i])
    <3>1. PICK i \in 1..Len(a) : k = KeyOf(a[i])
      BY DEF InOrder
    <3>2. i \in 1..Len(e)
      BY <1>1, <1>2
    <3> QED  BY <1>2, <3>1, <3>2
  <2>3. ASSUME NEW k \in R PROVE \E i \in 1..Len(e) : k = KeyOf(e[i])
    <3>1. PICK i \in 1..Len(b) : k = KeyOf(b[i])
      BY DEF InOrder
    <3>2. n + i \in 1..Len(e)
      BY <1>1, <1>2
    <3> QED  BY <1>2, <3>1, <3>2
  <2>4. n \in 1..Len(e) /\ KeyOf(x) = KeyOf(e[n])
    BY <1>1, <1>2
  <2> QED  BY <2>1, <2>2, <2>3, <2>4
<1>5. ASSUME NEW i \in 1..Len(a) PROVE less(a[i].score, a[i].id, x.score, x.id)
  <2>1. KeyOf(a[i]) \in L
    BY DEF InOrder
  <2> QED  BY <2>1 DEF AllBefore, KeyOf
<1>6. ASSUME NEW i \in 1..Len(b) PROVE less(x.score, x.id, b[i].score, b[i].id)
  <2>1. KeyOf(b[i]) \in R
    BY DEF InOrder
  <2> QED  BY <2>1 DEF AllAfter, KeyOf
<1>7. ASSUME NEW i \in 1..Len(a), NEW j \in 1..Len(b)
      PROVE  less(a[i].score, a[i].id, b[j].score, b[j].id)
  <2>1. a[i] \in Item /\ b[j] \in Item
    BY <1>1
  <2> QED  BY <1>5, <1>6, <2>1, LessIsTransitive DEF Item
<1>8. ASSUME NEW i \in 1..Len(e), NEW j \in 1..Len(e), i < j
      PROVE  less(e[i].score, e[i].id, e[j].score, e[j].id)
  <2> i \in Int /\ j \in Int
    OBVIOUS
  <2>1. CASE i \in 1..Len(a) /\ j \in 1..Len(a)
    <3>1. less(a[i].score, a[i].id, a[j].score, a[j].id)
      BY <1>8, <2>1 DEF InOrder
    <3> QED  BY <1>2, <2>1, <3>1
  <2>2. CASE i \in 1..Len(a) /\ j = n
    BY <1>2, <1>5, <2>2
  <2>3. CASE i \in 1..Len(a) /\ j > n
    <3>1. j - n \in 1..Len(b) /\ e[j] = b[j - n]
      BY <1>1, <1>3, <2>3
    <3>2. less(a[i].score, a[i].id, b[j - n].score, b[j - n].id)
      BY <1>7, <2>3, <3>1
    <3> QED  BY <1>2, <2>3, <3>1, <3>2
  <2>4. CASE i = n /\ j > n
    <3>1. j - n \in 1..Len(b) /\ e[j] = b[j - n]
      BY <1>1, <1>3, <2>4
    <3> QED  BY <1>2, <1>6, <2>4, <3>1
  <2>5. CASE i > n /\ j > n
    <3>1. i - n \in 1..Len(b) /\ e[i] = b[i - n]
      BY <1>1, <1>3, <2>5
    <3>2. j - n \in 1..Len(b) /\ e[j] = b[j - n]
      BY <1>1, <1>3, <2>5
    <3>3. i - n < j - n
      BY <1>1, <1>8
    <3>4. less(b[i - n].score, b[i - n].id, b[j - n].score, b[j - n].id)
      BY <3>1, <3>2, <3>3 DEF InOrder
    <3> QED  BY <3>1, <3>2, <3>4
  <2>6. (i \in 1..Len(a) \/ i = n \/ i > n) /\ (j \in 1..Len(a) \/ j = n \/ j > n)
    BY <1>1, <1>3
  <2>7. ASSUME i >= n PROVE j > n
    BY <1>1, <1>8, <2>7
  <2> QED  BY <1>1, <2>6, <2>7, <2>1, <2>2, <2>3, <2>4, <2>5
<1> QED  BY <1>2, <1>4, <1>8 DEF InOrder, e

LEMMA CountOfInterval ==
  ASSUME NEW k \in Nat
  PROVE  IsFiniteSet(1..k) /\ Cardinality(1..k) = k
<1>1. IsFiniteSet(1..k)
      /\ Cardinality(1..k) = IF 1 > k THEN 0 ELSE k - 1 + 1
  BY FS_Interval
<1> QED  BY <1>1

\* No key is listed twice.
LEMMA InOrderOnce ==
  ASSUME NEW e, NEW K, InOrder(e, K)
  PROVE  /\ \A i, j \in 1..Len(e) : KeyOf(e[i]) = KeyOf(e[j]) => i = j
         /\ \A i, j \in 1..Len(e) : less(e[i].score, e[i].id, e[j].score, e[j].id) <=> i < j
         /\ IsFiniteSet(K) /\ Cardinality(K) = Len(e)
<1>0. e \in Seq(Item) /\ Len(e) \in Nat
  BY DEF InOrder
<1>1. /\ Len(e) \in Nat /\ \A i \in 1..Len(e) : e[i].id \in Talents /\ e[i].score \in Int
      /\ \A i, j \in 1..Len(e) : i < j => less(e[i].score, e[i].id, e[j].score, e[j].id)
  <2>1. ASSUME NEW i \in 1..Len(e) PROVE e[i].id \in Talents /\ e[i].score \in Int
    <3>1. e[i] \in Item
      BY <1>0
    <3> QED  BY <3>1 DEF Item
  <2> QED  BY <1>0, <2>1 DEF InOrder
<1>2. ASSUME NEW i \in 1..Len(e), NEW j \in 1..Len(e), KeyOf(e[i]) = KeyOf(e[j]) PROVE i = j
  <2>1. e[i].id = e[j].id /\ e[i].score = e[j].score
    BY <1>2 DEF KeyOf
  <2>2. ~less(e[i].score, e[i].id, e[j].score, e[j].id)
    BY <1>1, <2>1, LessIsAnOrder
  <2>3. ~less(e[j].score, e[j].id, e[i].score, e[i].id)
    BY <1>1, <2>1, LessIsAnOrder
  <2> QED  BY <1>1, <2>2, <2>3
<1>3. ASSUME NEW i \in 1..Len(e), NEW j \in 1..Len(e)
      PROVE  less(e[i].score, e[i].id, e[j].score, e[j].id) <=> i < j
  <2>1. CASE i < j
    BY <1>1, <2>1
  <2>2. CASE i = j
    BY <1>1, <2>2, LessIsAnOrder
  <2>3. CASE j < i
    <3>1. less(e[j].score, e[j].id, e[i].score, e[i].id)
      BY <1>1, <2>3
    <3>2. /\ e[i].id \in Talents /\ e[i].score \in Int
          /\ e[j].id \in Talents /\ e[j].score \in Int
      BY <1>1
    <3>3. ~less(e[i].score, e[i].id, e[j].score, e[j].id)
      BY <3>1, <3>2, LessIsStrict
    <3> QED  BY <2>3, <3>3
  <2> QED  BY <2>1, <2>2, <2>3
<1> DEFINE f == [i \in 1..Len(e) |-> KeyOf(e[i])]
<1>4. f \in Bijection(1..Len(e), K)
  <2>1. f \in [1..Len(e) -> K]
    BY DEF InOrder
  <2>2. \A i, j \in 1..Len(e) : f[i] = f[j] => i = j
    BY <1>2
  <2>3. \A k \in K : \E i \in 1..Len(e) : f[i] = k
    BY DEF InOrder
  <2> HIDE DEF f
  <2> QED  BY <2>1, <2>2, <2>3 DEF Bijection, Injection, Surjection, IsInjective
<1>5. IsFiniteSet(1..Len(e)) /\ Cardinality(1..Len(e)) = Len(e)
  BY <1>1, CountOfInterval
<1>6. IsFiniteSet(K) /\ Cardinality(K) = Len(e)
  <2> HIDE DEF f
  <2> QED  BY <1>4, <1>5, FS_Bijection DEF ExistsBijection
<1> QED  BY <1>2, <1>3, <1>6

\* What holds of Nil, and of every node that both of its children have it, holds
\* of the whole tree.
LEMMA FromTheLeaves ==
  ASSUME NEW n, Tree(n), NEW S, S \subseteq Subtrees(n), Nil \in Subtrees(n) => Nil \in S,
         \A m \in Subtrees(n) \ {Nil} : m.left \in S /\ m.right \in S => m \in S
  PROVE  S = Subtrees(n)
<1> DEFINE D == Subtrees(n)
           K == {k \in Nat : \A m \in D : nsize(m) < k => m \in S}
<1>1. \A m \in D : nsize(m) \in Nat /\ nsize(m) <= nsize(n) /\ nsize(n) \in Nat
  BY TreeShape
<1>2. ASSUME NEW m \in D, m # Nil
      PROVE  /\ m.left \in D /\ nsize(m.left) < nsize(m)
             /\ m.right \in D /\ nsize(m.right) < nsize(m)
  <2>1. IsNode(m) /\ m.left \in D /\ m.right \in D
    BY <1>2 DEF Tree, Whole
  <2> QED  BY <2>1, NodesHaveSizes
<1>3. 0 \in K
  BY <1>1
<1>4. ASSUME NEW k \in K PROVE k + 1 \in K
  <2>1. ASSUME NEW m \in D, nsize(m) < k + 1 PROVE m \in S
    <3>1. CASE m = Nil
      BY <3>1
    <3>2. CASE m # Nil
      <4>1. nsize(m.left) < k /\ nsize(m.right) < k
        BY <1>1, <1>2, <2>1, <3>2
      <4>2. m.left \in S /\ m.right \in S
        BY <1>2, <3>2, <4>1
      <4> QED  BY <3>2, <4>2
    <3> QED  BY <3>1, <3>2
  <2> QED  BY <2>1
<1>5. K = Nat
  <2> HIDE DEF K
  <2>1. K \in SUBSET Nat
    BY DEF K
  <2> QED  BY <1>3, <1>4, <2>1, CountingUp
<1>6. ASSUME NEW m \in D PROVE m \in S
  <2>1. nsize(m) + 1 \in K /\ nsize(m) < nsize(m) + 1
    BY <1>1, <1>5
  <2> QED  BY <2>1
<1> QED  BY <1>6

-----------------------------------------------------------------------------
(* collectAllEntries *)

\* Every node has the score of its talent's record.
Agree(records, n) == \A x \in NodesOf(n) : records[x.id] = x.score

\* What the collection makes of the node m, given by f what it makes of the
\* children.
CollectStep(f, m, records) ==
  IF m = Nil THEN <<>> ELSE f[m.left] \o <<Entry(records, m)>> \o f[m.right]

LEMMA CollectStepLooksBelow ==
  ASSUME NEW f, NEW g, NEW m, NEW records,
         m # Nil => f[m.left] = g[m.left] /\ f[m.right] = g[m.right]
  PROVE  CollectStep(f, m, records) = CollectStep(g, m, records)
<1>1. CASE m = Nil
  BY <1>1, Zenon DEF CollectStep
<1>2. CASE m # Nil
  BY <1>2, Zenon DEF CollectStep
<1> QED  BY <1>1, <1>2

\* collectAllEntries satisfies the equation of the function in its definition.
LEMMA CollectRecursion ==
  ASSUME NEW n, Tree(n), NEW records
  PROVE  \E all : /\ collectAllEntries(records, n) = all[n]
                  /\ \A m \in Subtrees(n) : all[m] = CollectStep(all, m, records)
<1> DEFINE D == Subtrees(n)
           Solves(g, k) == \A m \in D : nsize(m) < k => g[m] = CollectStep(g, m, records)
           K == {k \in Nat : \E g : Solves(g, k)}
           Follows(f) == f = [m \in D |-> CollectStep(f, m, records)]
<1>1. \A m \in D : nsize(m) \in Nat /\ nsize(m) <= nsize(n) /\ nsize(n) \in Nat
  BY TreeShape
<1>2. ASSUME NEW m \in D, m # Nil
      PROVE  /\ m.left \in D /\ nsize(m.left) < nsize(m)
             /\ m.right \in D /\ nsize(m.right) < nsize(m)
  <2>1. IsNode(m) /\ m.left \in D /\ m.right \in D
    BY <1>2 DEF Tree, Whole
  <2> QED  BY <2>1, NodesHaveSizes
<1> HIDE DEF D
<1>3. ASSUME NEW g, NEW k \in Nat, Solves(g, k), NEW m \in D, nsize(m) <= k
      PROVE  LET f == [q \in D |-> CollectStep(g, q, records)]
             IN  CollectStep(g, m, records) = CollectStep(f, m, records)
  <2> DEFINE f == [q \in D |-> CollectStep(g, q, records)]
  <2>1. ASSUME NEW q \in D, nsize(q) < k PROVE f[q] = g[q]
    BY <1>3, <2>1
  <2> HIDE DEF f
  <2>2. m # Nil => f[m.left] = g[m.left] /\ f[m.right] = g[m.right]
    BY <1>1, <1>2, <1>3, <2>1
  <2>3. CollectStep(f, m, records) = CollectStep(g, m, records)
    BY <2>2, CollectStepLooksBelow
  <2> QED  BY <2>3 DEF f
<1>4. 0 \in K
  <2>1. Solves(<<>>, 0)
    BY <1>1
  <2> HIDE DEF Solves
  <2> QED  BY <2>1
<1>5. ASSUME NEW k \in K PROVE k + 1 \in K
  <2>1. PICK g : Solves(g, k)
    OBVIOUS
  <2> DEFINE f == [m \in D |-> CollectStep(g, m, records)]
  <2>2. ASSUME NEW m \in D, nsize(m) < k + 1 PROVE f[m] = CollectStep(f, m, records)
    <3>1. nsize(m) <= k /\ k \in Nat
      BY <1>1, <2>2
    <3>2. CollectStep(g, m, records) = CollectStep(f, m, records)
      BY <1>3, <2>1, <3>1
    <3>3. f[m] = CollectStep(g, m, records)
      OBVIOUS
    <3> QED  BY <3>2, <3>3, Zenon
  <2>3. Solves(f, k + 1)
    BY <2>2
  <2> HIDE DEF f, Solves
  <2> QED  BY <2>3
<1>6. K = Nat
  <2> HIDE DEF K
  <2>1. K \in SUBSET Nat
    BY DEF K
  <2> QED  BY <1>4, <1>5, <2>1, CountingUp
<1>7. n \in D /\ nsize(n) \in Nat /\ nsize(n) + 1 \in Nat
  BY <1>1 DEF Tree, D
<1>8. PICK g : Solves(g, nsize(n) + 1)
  BY <1>6, <1>7
<1> DEFINE f == [m \in D |-> CollectStep(g, m, records)]
<1>9. Follows(f)
  <2>1. ASSUME NEW m \in D PROVE CollectStep(g, m, records) = CollectStep(f, m, records)
    <3>1. nsize(m) <= nsize(n) + 1
      BY <1>1
    <3> QED  BY <1>3, <1>7, <1>8, <3>1
  <2> HIDE DEF D
  <2>2. f = [m \in D |-> CollectStep(f, m, records)]
    BY <2>1
  <2> QED  BY <2>2
<1> DEFINE all == CHOOSE e : Follows(e)
<1>10. Follows(all)
  <2> HIDE DEF Follows, f
  <2> QED  BY <1>9
<1>11. collectAllEntries(records, n) = all[n]
  BY Zenon DEF collectAllEntries, CollectStep, D
<1>12. \A m \in D : all[m] = CollectStep(all, m, records)
  <2> HIDE DEF all
  <2> QED  BY <1>10
<1> HIDE DEF all
<1> QED  BY <1>11, <1>12 DEF D

\* A tree's entries are its nodes.
LEMMA EntriesOfNodes ==
  ASSUME NEW n, Tree(n), NEW records, Agree(records, n), NEW x \in NodesOf(n)
  PROVE  /\ Entry(records, x) = [id |-> x.id, score |-> x.score]
         /\ Entry(records, x) \in Item /\ KeyOf(Entry(records, x)) = <<x.id, x.score>>
<1>1. x.id \in Talents /\ x.score \in Int
  BY DEF Tree, Whole, IsNode, NodesOf
<1>2. Entry(records, x) = [id |-> x.id, score |-> x.score]
  BY DEF Entry, Agree
<1> QED  BY <1>1, <1>2 DEF Item, KeyOf

\* The collection lists the tree's keys in the order of the leaderboard, and so
\* does the function it is made with for every subtree.
LEMMA CollectsInOrder ==
  ASSUME NEW n, TreapAt(n), NEW records, Agree(records, n), NEW all,
         \A m \in Subtrees(n) : all[m] = CollectStep(all, m, records)
  PROVE  \A m \in Subtrees(n) :
           InOrder(all[m], Keys(m)) /\ all[m] \in Lists(records, n)
<1> DEFINE E == {Entry(records, x) : x \in Subtrees(n) \ {Nil}}
           S == {m \in Subtrees(n) : InOrder(all[m], Keys(m)) /\ all[m] \in Seq(E)}
<1>1. Tree(n)
  BY DEF TreapAt
<1>2. ASSUME Nil \in Subtrees(n) PROVE Nil \in S
  <2>1. all[Nil] = <<>>
    BY <1>2 DEF CollectStep
  <2>2. InOrder(all[Nil], Keys(Nil))
    BY <2>1, EmptyInOrder, NilTreap
  <2> HIDE DEF E
  <2>3. all[Nil] \in Seq(E)
    BY <2>1
  <2> QED  BY <1>2, <2>2, <2>3
<1>3. ASSUME NEW m \in Subtrees(n) \ {Nil}, m.left \in S, m.right \in S PROVE m \in S
  <2> DEFINE x == Entry(records, m)
             a == all[m.left]
             b == all[m.right]
  <2>1. all[m] = a \o <<x>> \o b
    BY DEF CollectStep
  <2>2. x \in E /\ x \in Item /\ KeyOf(x) = <<m.id, m.score>>
        /\ x.id = m.id /\ x.score = m.score
    BY <1>1, EntriesOfNodes DEF NodesOf
  <2>3. /\ AllBefore(Keys(m.left), m.id, m.score) /\ AllAfter(Keys(m.right), m.id, m.score)
        /\ Keys(m) = {<<m.id, m.score>>} \cup Keys(m.left) \cup Keys(m.right)
    BY TreapBelow, TreapParts
  <2>4. InOrder(a, Keys(m.left)) /\ InOrder(b, Keys(m.right)) /\ a \in Seq(E) /\ b \in Seq(E)
    BY <1>3
  <2> HIDE DEF x, a, b, E
  <2>5. InOrder(a \o <<x>> \o b, {KeyOf(x)} \cup Keys(m.left) \cup Keys(m.right))
    BY <2>2, <2>3, <2>4, NodeInOrder
  <2>6. a \o <<x>> \o b \in Seq(E)
    BY <2>2, <2>4
  <2> QED  BY <2>1, <2>2, <2>3, <2>5, <2>6
<1>4. S = Subtrees(n)
  <2> HIDE DEF S
  <2>1. S \subseteq Subtrees(n)
    BY DEF S
  <2> QED  BY <1>1, <1>2, <1>3, <2>1, FromTheLeaves
<1> QED  BY <1>4 DEF Lists

\* For every treap whose scores are those of the records, collectAllEntries
\* lists exactly its nodes, the better first.
THEOREM CollectionIsInOrder ==
  ASSUME NEW n, TreapAt(n), NEW records, Agree(records, n)
  PROVE  InOrder(collectAllEntries(records, n), Keys(n))
<1>1. Tree(n) /\ n \in Subtrees(n)
  BY DEF TreapAt, Tree
<1>2. PICK all : /\ collectAllEntries(records, n) = all[n]
                 /\ \A m \in Subtrees(n) : all[m] = CollectStep(all, m, records)
  BY <1>1, CollectRecursion
<1> QED  BY <1>1, <1>2, CollectsInOrder

-----------------------------------------------------------------------------
(* collectTopN *)

\* The first k elements of s, or all of them when there are no more.
Cut(s, k) == [j \in 1..(IF Len(s) < k THEN Len(s) ELSE k) |-> s[j]]

LEMMA CutIsPrefix ==
  ASSUME NEW E, NEW s \in Seq(E), NEW k \in Nat
  PROVE  /\ Cut(s, k) \in Seq(E)
         /\ Len(Cut(s, k)) = IF Len(s) < k THEN Len(s) ELSE k
         /\ Len(s) <= k => Cut(s, k) = s
         /\ Cut(s, k) = SubSeq(s, 1, IF k < Len(s) THEN k ELSE Len(s))
<1> DEFINE l == IF Len(s) < k THEN Len(s) ELSE k
<1>1. l \in Nat /\ l <= Len(s) /\ Len(s) \in Nat /\ l <= k
  OBVIOUS
<1>2. Cut(s, k) = [j \in 1..l |-> s[j]]
  BY DEF Cut
<1>3. l = IF k < Len(s) THEN k ELSE Len(s)
  BY <1>1
<1>4. Len(s) <= k => l = Len(s)
  BY <1>1
<1> HIDE DEF l
<1>5. \A j \in 1..l : s[j] \in E
  BY <1>1
<1>6. Cut(s, k) \in Seq(E) /\ Len(Cut(s, k)) = l
  BY <1>1, <1>2, <1>5
<1>7. Cut(s, k) = SubSeq(s, 1, l)
  BY <1>1, <1>2 DEF SubSeq
<1>8. s = [j \in 1..Len(s) |-> s[j]]
  OBVIOUS
<1> QED  BY <1>2, <1>3, <1>4, <1>6, <1>7, <1>8 DEF l

LEMMA CutOfLonger ==
  ASSUME NEW E, NEW s \in Seq(E), NEW t \in Seq(E), NEW k \in Nat, k <= Len(s)
  PROVE  Cut(s \o t, k) = Cut(s, k)
<1>1. Len(s \o t) = Len(s) + Len(t) /\ Len(s) \in Nat /\ Len(t) \in Nat
      /\ \A j \in 1..Len(s) : (s \o t)[j] = s[j]
  OBVIOUS
<1>2. Cut(s \o t, k) = [j \in 1..k |-> (s \o t)[j]]
  BY <1>1 DEF Cut
<1>3. Cut(s, k) = [j \in 1..k |-> s[j]]
  BY <1>1 DEF Cut
<1> QED  BY <1>1, <1>2, <1>3

\* What the limited collection makes of the node m, given by f what it makes of
\* the children.
TopStep(f, m, records, L, limit) ==
  [out \in L |->
    IF m = Nil \/ Len(out) >= limit THEN out
    ELSE LET left == f[m.left][out]
             here == IF Len(left) < limit THEN Append(left, Entry(records, m)) ELSE left
         IN  IF Len(here) < limit THEN f[m.right][here] ELSE here]

LEMMA TopStepLooksBelow ==
  ASSUME NEW f, NEW g, NEW m, NEW records, NEW L, NEW limit,
         m # Nil => f[m.left] = g[m.left] /\ f[m.right] = g[m.right]
  PROVE  TopStep(f, m, records, L, limit) = TopStep(g, m, records, L, limit)
<1>1. CASE m = Nil
  BY <1>1 DEF TopStep
<1>2. CASE m # Nil
  BY <1>2, Zenon DEF TopStep
<1> QED  BY <1>1, <1>2

\* collectTopN satisfies the equation of the function in its definition.
LEMMA TopRecursion ==
  ASSUME NEW n, Tree(n), NEW records, NEW L, NEW limit, L = Lists(records, n)
  PROVE  \E top : /\ collectTopN(records, n, limit) = top[n][<<>>]
                  /\ \A m \in Subtrees(n) : top[m] = TopStep(top, m, records, L, limit)
<1> DEFINE D == Subtrees(n)
           Solves(g, k) == \A m \in D : nsize(m) < k => g[m] = TopStep(g, m, records, L, limit)
           K == {k \in Nat : \E g : Solves(g, k)}
           Follows(f) == f = [m \in D |-> TopStep(f, m, records, L, limit)]
<1>1. \A m \in D : nsize(m) \in Nat /\ nsize(m) <= nsize(n) /\ nsize(n) \in Nat
  BY TreeShape
<1>2. ASSUME NEW m \in D, m # Nil
      PROVE  /\ m.left \in D /\ nsize(m.left) < nsize(m)
             /\ m.right \in D /\ nsize(m.right) < nsize(m)
  <2>1. IsNode(m) /\ m.left \in D /\ m.right \in D
    BY <1>2 DEF Tree, Whole
  <2> QED  BY <2>1, NodesHaveSizes
<1> HIDE DEF D
<1>3. ASSUME NEW g, NEW k \in Nat, Solves(g, k), NEW m \in D, nsize(m) <= k
      PROVE  LET f == [q \in D |-> TopStep(g, q, records, L, limit)]
             IN  TopStep(g, m, records, L, limit) = TopStep(f, m, records, L, limit)
  <2> DEFINE f == [q \in D |-> TopStep(g, q, records, L, limit)]
  <2>1. ASSUME NEW q \in D, nsize(q) < k PROVE f[q] = g[q]
    BY <1>3, <2>1
  <2> HIDE DEF f
  <2>2. m # Nil => f[m.left] = g[m.left] /\ f[m.right] = g[m.right]
    BY <1>1, <1>2, <1>3, <2>1
  <2>3. TopStep(f, m, records, L, limit) = TopStep(g, m, records, L, limit)
    BY <2>2, TopStepLooksBelow
  <2> QED  BY <2>3 DEF f
<1>4. 0 \in K
  <2>1. Solves(<<>>, 0)
    BY <1>1
  <2> HIDE DEF Solves
  <2> QED  BY <2>1
<1>5. ASSUME NEW k \in K PROVE k + 1 \in K
  <2>1. PICK g : Solves(g, k)
    OBVIOUS
  <2> DEFINE f == [m \in D |-> TopStep(g, m, records, L, limit)]
  <2>2. ASSUME NEW m \in D, nsize(m) < k + 1 PROVE f[m] = TopStep(f, m, records, L, limit)
    <3>1. nsize(m) <= k /\ k \in Nat
      BY <1>1, <2>2
    <3>2. TopStep(g, m, records, L, limit) = TopStep(f, m, records, L, limit)
      BY <1>3, <2>1, <3>1
    <3>3. f[m] = TopStep(g, m, records, L, limit)
      OBVIOUS
    <3> QED  BY <3>2, <3>3, Zenon
  <2>3. Solves(f, k + 1)
    BY <2>2
  <2> HIDE DEF f, Solves
  <2> QED  BY <2>3
<1>6. K = Nat
  <2> HIDE DEF K
  <2>1. K \in SUBSET Nat
    BY DEF K
  <2> QED  BY <1>4, <1>5, <2>1, CountingUp
<1>7. n \in D /\ nsize(n) \in Nat /\ nsize(n) + 1 \in Nat
  BY <1>1 DEF Tree, D
<1>8. PICK g : Solves(g, nsize(n) + 1)
  BY <1>6, <1>7
<1> DEFINE f == [m \in D |-> TopStep(g, m, records, L, limit)]
<1>9. Follows(f)
  <2>1. ASSUME NEW m \in D PROVE TopStep(g, m, records, L, limit) = TopStep(f, m, records, L, limit)
    <3>1. nsize(m) <= nsize(n) + 1
      BY <1>1
    <3> QED  BY <1>3, <1>7, <1>8, <3>1
  <2> HIDE DEF D
  <2>2. f = [m \in D |-> TopStep(f, m, records, L, limit)]
    BY <2>1
  <2> QED  BY <2>2
<1> DEFINE top == CHOOSE e : Follows(e)
<1>10. Follows(top)
  <2> HIDE DEF Follows, f
  <2> QED  BY <1>9
<1>11. collectTopN(records, n, limit) = top[n][<<>>]
  BY Zenon DEF collectTopN, TopStep, D
<1>12. \A m \in D : top[m] = TopStep(top, m, records, L, limit)
  <2> HIDE DEF top
  <2> QED  BY <1>10
<1> HIDE DEF top
<1> QED  BY <1>11, <1>12 DEF D

\* Given a list that is not too long, the traversal of a subtree adds the
\* subtree's entries to it, in order, up to the limit.
LEMMA TopAddsInOrder ==
  ASSUME NEW n, TreapAt(n), NEW records, Agree(records, n), NEW limit \in Nat,
         NEW L, L = Lists(records, n),
         NEW all, \A m \in Subtrees(n) : all[m] = CollectStep(all, m, records),
         NEW top, \A m \in Subtrees(n) : top[m] = TopStep(top, m, records, L, limit)
  PROVE  \A m \in Subtrees(n) : \A out \in L :
           Len(out) <= limit => top[m][out] = Cut(out \o all[m], limit)
<1> DEFINE E == {Entry(records, x) : x \in Subtrees(n) \ {Nil}}
           Adds(m) == \A out \in L : Len(out) <= limit => top[m][out] = Cut(out \o all[m], limit)
           S == {m \in Subtrees(n) : Adds(m)}
<1>1. Tree(n) /\ L = Seq(E)
  BY DEF TreapAt, Lists
<1>2. \A m \in Subtrees(n) : all[m] \in Seq(E)
  BY <1>1, CollectsInOrder
<1>3. ASSUME Nil \in Subtrees(n) PROVE Nil \in S
  <2>1. all[Nil] = <<>>
    BY <1>3 DEF CollectStep
  <2>2. ASSUME NEW out \in L, Len(out) <= limit
        PROVE  top[Nil][out] = Cut(out \o all[Nil], limit)
    <3>1. top[Nil][out] = out
      BY <1>3 DEF TopStep
    <3> HIDE DEF E
    <3>2. out \o all[Nil] = out
      BY <1>1, <2>1
    <3>3. Cut(out, limit) = out
      BY <1>1, <2>2, CutIsPrefix
    <3> QED  BY <3>1, <3>2, <3>3
  <2> QED  BY <1>3, <2>2
<1>4. ASSUME NEW m \in Subtrees(n) \ {Nil}, m.left \in S, m.right \in S PROVE m \in S
  <2> DEFINE x == Entry(records, m)
             a == all[m.left]
             b == all[m.right]
  <2>1. all[m] = a \o <<x>> \o b
    BY DEF CollectStep
  <2>2. x \in E /\ a \in Seq(E) /\ b \in Seq(E)
    BY <1>2, <1>4
  <2>3. Adds(m.left) /\ Adds(m.right)
    BY <1>4
  <2>4. top[m] = TopStep(top, m, records, L, limit)
    OBVIOUS
  <2> HIDE DEF a, b, x, E
  <2>5. ASSUME NEW out \in L, Len(out) <= limit
        PROVE  top[m][out] = Cut(out \o all[m], limit)
    <3> DEFINE left == top[m.left][out]
               here == IF Len(left) < limit THEN Append(left, x) ELSE left
               p == out \o a
               q == p \o <<x>>
    <3>1. out \in Seq(E) /\ Len(out) \in Nat
      BY <1>1
    <3>2. p \in Seq(E) /\ q \in Seq(E) /\ Len(p) \in Nat /\ Len(q) = Len(p) + 1
          /\ Len(p) = Len(out) + Len(a) /\ Len(a) \in Nat /\ <<x>> \in Seq(E)
      BY <2>2, <3>1
    <3>3. out \o all[m] = q \o b /\ out \o all[m] = out \o (a \o (<<x>> \o b))
      <4> DEFINE c == <<x>>
                 ac == a \o c
      <4>1. c \in Seq(E) /\ ac \in Seq(E)
        BY <2>2
      <4>2. ac \o b = a \o (c \o b)
        <5> HIDE DEF c
        <5> QED  BY <2>2, <4>1, ConcatAssociative
      <4>3. p \o c = out \o ac
        <5> HIDE DEF c, p, ac
        <5>1. out \in Seq(E) /\ a \in Seq(E) /\ c \in Seq(E)
          BY <2>2, <3>1, <4>1
        <5>2. (out \o a) \o c = out \o (a \o c)
          BY <5>1, ConcatAssociative
        <5> QED  BY <5>2 DEF p, ac
      <4>4. all[m] = ac \o b
        BY <2>1
      <4> HIDE DEF p, c, ac
      <4>5. out \o (ac \o b) = (out \o ac) \o b
        <5>1. out \in Seq(E) /\ ac \in Seq(E) /\ b \in Seq(E)
          BY <2>2, <3>1, <4>1
        <5> QED  BY <5>1, ConcatAssociative
      <4>6. q = p \o c
        BY DEF c
      <4> HIDE DEF q
      <4> QED  BY <4>2, <4>3, <4>4, <4>5, <4>6 DEF c
    <3>4. CASE Len(out) >= limit
      <4>1. top[m][out] = out
        BY <2>4, <3>4 DEF TopStep
      <4> DEFINE rest == a \o (<<x>> \o b)
      <4>2. rest \in Seq(E)
        BY <2>2, <3>1, <3>2
      <4>3. Cut(out \o all[m], limit) = Cut(out, limit)
        <5>1. limit <= Len(out) /\ out \o all[m] = out \o rest
          BY <3>1, <3>3, <3>4
        <5> HIDE DEF rest
        <5> QED  BY <3>1, <4>2, <5>1, CutOfLonger
      <4>4. Cut(out, limit) = out
        BY <2>5, <3>1, CutIsPrefix
      <4> QED  BY <4>1, <4>3, <4>4
    <3>5. CASE ~(Len(out) >= limit)
      <4>1. top[m][out] = IF Len(here) < limit THEN top[m.right][here] ELSE here
        BY <2>4, <3>5 DEF TopStep, x
      <4>2. left = Cut(p, limit)
        <5>1. \A o \in L : Len(o) <= limit => top[m.left][o] = Cut(o \o all[m.left], limit)
          BY <2>3
        <5> QED  BY <5>1, <2>5 DEF a
      <4> HIDE DEF left
      <4>3. here = Cut(q, limit) /\ here \in Seq(E) /\ Len(here) <= limit
        <5>1. CASE Len(p) < limit
          <6>1. left = p
            <7> HIDE DEF p
            <7>1. Len(p) <= limit
              BY <3>2, <5>1
            <7> QED  BY <3>2, <4>2, <7>1, CutIsPrefix
          <6>2. here = q
            <7> HIDE DEF p
            <7>1. here = Append(p, x)
              BY <5>1, <6>1
            <7>2. Append(p, x) = p \o <<x>>
              BY <2>2, <3>2, AppendIsConcat
            <7> QED  BY <7>1, <7>2
          <6>3. Len(q) <= limit
            BY <3>2, <5>1
          <6> HIDE DEF here, p, q
          <6> QED  BY <3>2, <6>2, <6>3, CutIsPrefix
        <5>2. CASE ~(Len(p) < limit)
          <6>1. limit <= Len(p)
            BY <3>2, <5>2
          <6> HIDE DEF p
          <6>2. Len(left) = limit /\ left \in Seq(E)
            BY <3>2, <4>2, <5>2, CutIsPrefix
          <6>3. here = left
            BY <6>2
          <6>4. Cut(q, limit) = Cut(p, limit)
            BY <3>2, <6>1, CutOfLonger
          <6> HIDE DEF here, q
          <6> QED  BY <4>2, <6>2, <6>3, <6>4
        <5> QED  BY <5>1, <5>2
      <4> HIDE DEF here, p, q
      <4>4. CASE Len(q) < limit
        <5>1. here = q
          BY <3>2, <4>3, <4>4, CutIsPrefix
        <5>2. top[m][out] = top[m.right][here]
          BY <4>1, <4>4, <5>1
        <5>3. top[m.right][here] = Cut(here \o b, limit)
          BY <1>1, <2>3, <4>3 DEF b
        <5> QED  BY <3>3, <5>1, <5>2, <5>3
      <4>5. CASE ~(Len(q) < limit)
        <5>1. limit <= Len(q)
          BY <3>2, <4>5
        <5>2. Len(here) = limit
          BY <3>2, <4>3, <4>5, CutIsPrefix
        <5>3. top[m][out] = here
          BY <4>1, <5>2
        <5>4. Cut(q \o b, limit) = Cut(q, limit)
          BY <2>2, <3>2, <5>1, CutOfLonger
        <5> QED  BY <3>3, <4>3, <5>3, <5>4
      <4> QED  BY <4>4, <4>5
    <3> QED  BY <3>4, <3>5
  <2> QED  BY <2>5
<1>5. S = Subtrees(n)
  <2> HIDE DEF S
  <2>1. S \subseteq Subtrees(n)
    BY DEF S
  <2> QED  BY <1>1, <1>3, <1>4, <2>1, FromTheLeaves
<1> QED  BY <1>5

\* For every treap and every limit, the limited collection is the beginning of
\* the unlimited one.
THEOREM TopNCutsTheCollection ==
  ASSUME NEW n, TreapAt(n), NEW records, Agree(records, n), NEW limit \in Nat
  PROVE  collectTopN(records, n, limit) = Cut(collectAllEntries(records, n), limit)
<1> DEFINE L == Lists(records, n)
<1>1. Tree(n) /\ n \in Subtrees(n)
  BY DEF TreapAt, Tree
<1>2. PICK all : /\ collectAllEntries(records, n) = all[n]
                 /\ \A m \in Subtrees(n) : all[m] = CollectStep(all, m, records)
  BY <1>1, CollectRecursion
<1>3. PICK top : /\ collectTopN(records, n, limit) = top[n][<<>>]
                 /\ \A m \in Subtrees(n) : top[m] = TopStep(top, m, records, L, limit)
  <2> HIDE DEF L
  <2>1. L = Lists(records, n)
    BY DEF L
  <2> QED  BY <1>1, <2>1, TopRecursion
<1>4. <<>> \in L /\ Len(<<>>) <= limit /\ <<>> \o all[n] = all[n]
  <2> DEFINE E == {Entry(records, x) : x \in Subtrees(n) \ {Nil}}
  <2>1. all[n] \in Seq(E)
    BY <1>1, <1>2, CollectsInOrder DEF Lists
  <2> HIDE DEF E
  <2>2. <<>> \in Seq(E) /\ Len(<<>>) <= limit /\ <<>> \o all[n] = all[n]
    BY <2>1
  <2> QED  BY <2>2 DEF Lists, E
<1>5. \A m \in Subtrees(n) : \A out \in L :
        Len(out) <= limit => top[m][out] = Cut(out \o all[m], limit)
  <2> HIDE DEF L
  <2>1. L = Lists(records, n)
    BY DEF L
  <2> QED  BY <1>2, <1>3, <2>1, TopAddsInOrder
<1>6. top[n][<<>>] = Cut(<<>> \o all[n], limit)
  <2> HIDE DEF L
  <2> QED  BY <1>1, <1>4, <1>5
<1> QED  BY <1>2, <1>3, <1>4, <1>6

-----------------------------------------------------------------------------
(* The leaderboard and its places *)

LEMMA RecordsAgree ==
  ASSUME RootInv
  PROVE  TreapAt(root) /\ Agree(byID, root) /\ Records /\ Keys(root) = Board(byID)
<1>1. ASSUME NEW x \in NodesOf(root) PROVE byID[x.id] = x.score
  <2>1. <<x.id, x.score>> \in Board(byID)
    BY DEF RootInv, Keys
  <2> QED  BY <2>1 DEF Board
<1> QED  BY <1>1 DEF RootInv, Agree

\* The talents that rank higher than t on the board b.
AboveOn(b, t) == {u \in DOMAIN b : less(b[u], u, b[t], t)}

\* The place of a talent in a list of the whole board is one more than the
\* number of talents above it.
LEMMA PlacesOn ==
  ASSUME NEW b, NEW e, InOrder(e, Board(b))
  PROVE  /\ Len(e) \in Nat /\ Len(e) = Cardinality(DOMAIN b) /\ IsFiniteSet(DOMAIN b)
         /\ \A i \in 1..Len(e) : /\ e[i].id \in DOMAIN b /\ e[i].score = b[e[i].id]
                                 /\ e[i] = [id |-> e[i].id, score |-> b[e[i].id]]
                                 /\ Cardinality(AboveOn(b, e[i].id)) = i - 1
         /\ \A t \in DOMAIN b : \E i \in 1..Len(e) : e[i].id = t
         /\ \A i, j \in 1..Len(e) : e[i].id = e[j].id => i = j
<1>1. e \in Seq(Item) /\ Len(e) \in Nat
  BY DEF InOrder
<1>2. ASSUME NEW i \in 1..Len(e)
      PROVE  /\ e[i].id \in DOMAIN b /\ e[i].score = b[e[i].id]
             /\ e[i] = [id |-> e[i].id, score |-> b[e[i].id]]
  <2>1. e[i] \in Item
    BY <1>1
  <2>2. <<e[i].id, e[i].score>> \in Board(b)
    BY DEF InOrder, KeyOf
  <2>3. e[i].id \in DOMAIN b /\ e[i].score = b[e[i].id]
    BY <2>2 DEF Board
  <2>4. e[i] = [id |-> e[i].id, score |-> e[i].score]
    BY <2>1 DEF Item
  <2> QED  BY <2>3, <2>4
<1>3. ASSUME NEW t \in DOMAIN b PROVE \E i \in 1..Len(e) : e[i].id = t
  <2>1. <<t, b[t]>> \in Board(b)
    BY DEF Board
  <2>2. PICK i \in 1..Len(e) : KeyOf(e[i]) = <<t, b[t]>>
    BY <2>1 DEF InOrder
  <2> QED  BY <2>2 DEF KeyOf
<1>4. ASSUME NEW i \in 1..Len(e), NEW j \in 1..Len(e), e[i].id = e[j].id PROVE i = j
  <2>1. KeyOf(e[i]) = KeyOf(e[j])
    BY <1>2, <1>4 DEF KeyOf
  <2> QED  BY <2>1, InOrderOnce
<1>5. ASSUME NEW i \in 1..Len(e) PROVE Cardinality(AboveOn(b, e[i].id)) = i - 1
  <2> DEFINE f == [j \in 1..(i - 1) |-> e[j].id]
             A == AboveOn(b, e[i].id)
  <2>1. i - 1 \in Nat /\ \A j \in 1..(i - 1) : j \in 1..Len(e) /\ j < i
    BY <1>1
  <2>2. ASSUME NEW j \in 1..Len(e) PROVE e[j].id \in A <=> j < i
    <3>1. less(e[j].score, e[j].id, e[i].score, e[i].id) <=> j < i
      BY InOrderOnce
    <3> QED  BY <1>2, <3>1 DEF AboveOn
  <2>3. A \subseteq DOMAIN b
    BY DEF AboveOn
  <2> HIDE DEF A
  <2>4. f \in Bijection(1..(i - 1), A)
    <3>1. f \in [1..(i - 1) -> A]
      BY <2>1, <2>2
    <3>2. \A j, k \in 1..(i - 1) : f[j] = f[k] => j = k
      BY <1>4, <2>1
    <3>3. ASSUME NEW u \in A PROVE \E j \in 1..(i - 1) : f[j] = u
      <4>1. PICK j \in 1..Len(e) : e[j].id = u
        BY <1>3, <2>3
      <4>2. j < i
        BY <2>2, <4>1
      <4>3. j \in 1..(i - 1)
        BY <1>1, <4>2
      <4> QED  BY <4>1, <4>3
    <3> HIDE DEF f
    <3> QED  BY <3>1, <3>2, <3>3 DEF Bijection, Injection, Surjection, IsInjective
  <2>5. IsFiniteSet(1..(i - 1)) /\ Cardinality(1..(i - 1)) = i - 1
    BY <2>1, CountOfInterval
  <2> HIDE DEF f
  <2>6. Cardinality(A) = i - 1
    BY <2>4, <2>5, FS_Bijection DEF ExistsBijection
  <2> QED  BY <2>6 DEF A
<1>6. IsFiniteSet(DOMAIN b) /\ Len(e) = Cardinality(DOMAIN b)
  <2> DEFINE f == [j \in 1..Len(e) |-> e[j].id]
  <2>1. f \in Bijection(1..Len(e), DOMAIN b)
    <3>1. f \in [1..Len(e) -> DOMAIN b]
      BY <1>2
    <3>2. \A j, k \in 1..Len(e) : f[j] = f[k] => j = k
      BY <1>4
    <3>3. \A t \in DOMAIN b : \E j \in 1..Len(e) : f[j] = t
      BY <1>3
    <3> HIDE DEF f
    <3> QED  BY <3>1, <3>2, <3>3 DEF Bijection, Injection, Surjection, IsInjective
  <2>2. IsFiniteSet(1..Len(e)) /\ Cardinality(1..Len(e)) = Len(e)
    BY <1>1, CountOfInterval
  <2> HIDE DEF f
  <2> QED  BY <2>1, <2>2, FS_Bijection DEF ExistsBijection
<1> QED  BY <1>1, <1>2, <1>3, <1>4, <1>5, <1>6

\* The same for the board there is.
LEMMA Places ==
  ASSUME NEW e, InOrder(e, Board(byID))
  PROVE  /\ Len(e) \in Nat /\ Len(e) = Cardinality(DOMAIN byID) /\ IsFiniteSet(DOMAIN byID)
         /\ \A i \in 1..Len(e) : /\ e[i].id \in DOMAIN byID /\ e[i].score = byID[e[i].id]
                                 /\ e[i] = [id |-> e[i].id, score |-> byID[e[i].id]]
                                 /\ Cardinality(Above(e[i].id)) = i - 1
         /\ \A t \in DOMAIN byID : \E i \in 1..Len(e) : e[i].id = t
         /\ \A i, j \in 1..Len(e) : e[i].id = e[j].id => i = j
<1>1. \A t : Above(t) = AboveOn(byID, t)
  BY DEF Above, AboveOn
<1> QED  BY <1>1, PlacesOn

\* There is one list of the whole board in order: Ranking.
LEMMA RankingIsTheList ==
  ASSUME NEW e, InOrder(e, Board(byID))
  PROVE  e = Ranking
<1> DEFINE place(k) == CHOOSE t \in DOMAIN byID : Cardinality(Above(t)) = k - 1
<1>1. e \in Seq(Item) /\ Len(e) \in Nat /\ Len(e) = Cardinality(DOMAIN byID)
  BY Places DEF InOrder
<1>2. ASSUME NEW i \in 1..Len(e) PROVE place(i) = e[i].id
  <2>1. e[i].id \in DOMAIN byID /\ Cardinality(Above(e[i].id)) = i - 1
    BY Places
  <2>2. ASSUME NEW t \in DOMAIN byID, Cardinality(Above(t)) = i - 1 PROVE t = e[i].id
    <3>1. PICK j \in 1..Len(e) : e[j].id = t
      BY Places
    <3>2. Cardinality(Above(t)) = j - 1
      BY <3>1, Places
    <3>3. j = i
      BY <1>1, <2>2, <3>2
    <3> QED  BY <3>1, <3>3
  <2> QED  BY <2>1, <2>2
<1>3. Ranking = [k \in 1..Len(e) |-> [id |-> place(k), score |-> byID[place(k)]]]
  BY <1>1 DEF Ranking
<1> HIDE DEF place
<1>4. \A k \in 1..Len(e) : e[k] = [id |-> place(k), score |-> byID[place(k)]]
  BY <1>2, Places
<1>5. e = [k \in 1..Len(e) |-> e[k]]
  BY <1>1
<1> QED  BY <1>3, <1>4, <1>5

\* TopN(n) is the first n places of the leaderboard, whatever n is and after
\* every sequence of updates, and the collection that the snapshot is made from
\* is all of it.
THEOREM TopNIsTheBoardsPrefix == Spec => []TopNIsPrefix
<1>1. RootInv => TopNIsPrefix
  <2> SUFFICES ASSUME RootInv PROVE TopNIsPrefix
    OBVIOUS
  <2> DEFINE e == collectAllEntries(byID, root)
  <2>1. TreapAt(root) /\ Agree(byID, root) /\ Records /\ Keys(root) = Board(byID)
    BY RecordsAgree
  <2>2. InOrder(e, Board(byID))
    BY <2>1, CollectionIsInOrder
  <2>3. \A n \in Nat : collectTopN(byID, root, n) = Cut(e, n)
    BY <2>1, TopNCutsTheCollection
  <2> HIDE DEF e
  <2>4. e = Ranking /\ e \in Seq(Item)
    BY <2>1, <2>2, RankingIsTheList DEF InOrder
  <2>5. ASSUME NEW n \in 1..(Cardinality(Talents) + 1)
        PROVE  collectTopN(byID, root, n)
                 = SubSeq(Ranking, 1, IF n < Len(Ranking) THEN n ELSE Len(Ranking))
    <3>1. n \in Nat
      OBVIOUS
    <3> QED  BY <2>3, <2>4, <3>1, CutIsPrefix
  <2> QED  BY <2>4, <2>5 DEF TopNIsPrefix, e
<1> QED  BY <1>1, RootInvariant, PTL

-----------------------------------------------------------------------------
(* assignRanksWithTies *)

ScoresOf(e)    == {e[i].score : i \in DOMAIN e}
Higher(e, s) == {u \in ScoresOf(e) : u > s}
Group(e, s)  == {i \in DOMAIN e : e[i].score = s}
Better(e, s) == {i \in DOMAIN e : e[i].score > s}

\* The next higher score.
Before(e, s) == CHOOSE u \in Higher(e, s) : \A v \in Higher(e, s) : u <= v

\* The rank of the group with the score s, given by f that of the group before.
RankStep(f, s, e) ==
  IF Higher(e, s) = {} THEN 1
  ELSE f[Before(e, s)] + Cardinality(Group(e, Before(e, s)))

LEMMA RankStepLooksBelow ==
  ASSUME NEW f, NEW g, NEW e, NEW s,
         Higher(e, s) # {} => f[Before(e, s)] = g[Before(e, s)]
  PROVE  RankStep(f, s, e) = RankStep(g, s, e)
BY Zenon DEF RankStep

\* A finite set of integers has a least element.
LEMMA LeastOfFinite ==
  ASSUME NEW S \in SUBSET Int, IsFiniteSet(S), S # {}
  PROVE  \E u \in S : \A v \in S : u <= v
<1> DEFINE Least(Q) == \E u \in Q : \A v \in Q : u <= v
           K == {k \in Nat : \A Q \in SUBSET Int :
                   IsFiniteSet(Q) /\ Cardinality(Q) = k /\ Q # {} => Least(Q)}
<1>1. 0 \in K
  BY FS_EmptySet
<1>2. ASSUME NEW k \in K PROVE k + 1 \in K
  <2> SUFFICES ASSUME NEW Q \in SUBSET Int, IsFiniteSet(Q), Cardinality(Q) = k + 1, Q # {}
               PROVE  Least(Q)
    OBVIOUS
  <2>1. PICK x \in Q : TRUE
    OBVIOUS
  <2> DEFINE P == Q \ {x}
  <2>2. IsFiniteSet(P) /\ Cardinality(P) = k
    <3>1. IsFiniteSet(P) /\ Cardinality(P) = Cardinality(Q) - 1
      BY <2>1, FS_RemoveElement
    <3> QED  BY <3>1
  <2>3. CASE P = {}
    <3>1. \A v \in Q : v = x /\ x \in Int
      BY <2>3
    <3> QED  BY <2>1, <3>1
  <2>4. CASE P # {}
    <3>1. PICK u \in P : \A v \in P : u <= v
      BY <2>2, <2>4
    <3>2. x \in Int /\ u \in Int /\ u \in Q /\ \A v \in Q : v = x \/ v \in P
      OBVIOUS
    <3>3. CASE u <= x
      BY <3>1, <3>2, <3>3
    <3>4. CASE x <= u
      <4>1. \A v \in P : x <= v
        BY <3>1, <3>2, <3>4
      <4>2. x <= x
        BY <3>2
      <4> QED  BY <2>1, <3>2, <4>1, <4>2
    <3> QED  BY <3>2, <3>3, <3>4
  <2> QED  BY <2>3, <2>4
<1>3. K = Nat
  <2> HIDE DEF K
  <2>1. K \in SUBSET Nat
    BY DEF K
  <2> QED  BY <1>1, <1>2, <2>1, CountingUp
<1>4. Cardinality(S) \in K
  BY <1>3, FS_CardinalityType
<1> QED  BY <1>4

LEMMA ScoresAreFinite ==
  ASSUME NEW e \in Seq(Item)
  PROVE  /\ Len(e) \in Nat /\ DOMAIN e = 1..Len(e)
         /\ IsFiniteSet(DOMAIN e) /\ Cardinality(DOMAIN e) = Len(e)
         /\ ScoresOf(e) \subseteq Int /\ IsFiniteSet(ScoresOf(e))
         /\ Cardinality(ScoresOf(e)) <= Len(e)
<1>1. Len(e) \in Nat /\ DOMAIN e = 1..Len(e)
  OBVIOUS
<1>2. IsFiniteSet(DOMAIN e) /\ Cardinality(DOMAIN e) = Len(e)
  BY <1>1, CountOfInterval
<1>3. ScoresOf(e) \subseteq Int
  <2>1. ASSUME NEW i \in DOMAIN e PROVE e[i].score \in Int
    <3>1. e[i] \in Item
      OBVIOUS
    <3> QED  BY <3>1 DEF Item
  <2> QED  BY <2>1 DEF ScoresOf
<1> DEFINE f == [i \in DOMAIN e |-> e[i].score]
<1>4. f \in Surjection(DOMAIN e, ScoresOf(e))
  <2>1. f \in [DOMAIN e -> ScoresOf(e)] /\ \A s \in ScoresOf(e) : \E i \in DOMAIN e : f[i] = s
    BY DEF ScoresOf
  <2> HIDE DEF f
  <2> QED  BY <2>1 DEF Surjection
<1> HIDE DEF f
<1>5. IsFiniteSet(ScoresOf(e)) /\ Cardinality(ScoresOf(e)) <= Cardinality(DOMAIN e)
  BY <1>2, <1>4, FS_Surjection
<1> QED  BY <1>1, <1>2, <1>3, <1>5

LEMMA HigherIsFinite ==
  ASSUME NEW e \in Seq(Item), NEW s
  PROVE  /\ IsFiniteSet(Higher(e, s)) /\ Higher(e, s) \in SUBSET Int
         /\ Cardinality(Higher(e, s)) \in Nat /\ Cardinality(Higher(e, s)) <= Len(e)
<1>1. Higher(e, s) \subseteq ScoresOf(e)
  BY DEF Higher
<1>2. IsFiniteSet(ScoresOf(e)) /\ ScoresOf(e) \subseteq Int /\ Cardinality(ScoresOf(e)) <= Len(e)
      /\ Len(e) \in Nat
  BY ScoresAreFinite
<1>3. IsFiniteSet(Higher(e, s)) /\ Cardinality(Higher(e, s)) <= Cardinality(ScoresOf(e))
  BY <1>1, <1>2, FS_Subset
<1>4. Cardinality(Higher(e, s)) \in Nat /\ Cardinality(ScoresOf(e)) \in Nat
  BY <1>2, <1>3, FS_CardinalityType
<1> QED  BY <1>1, <1>2, <1>3, <1>4

LEMMA NextHigher ==
  ASSUME NEW e \in Seq(Item), NEW s \in ScoresOf(e), Higher(e, s) # {}
  PROVE  /\ Before(e, s) \in ScoresOf(e) /\ Before(e, s) > s
         /\ \A v \in Higher(e, s) : Before(e, s) <= v
         /\ Cardinality(Higher(e, Before(e, s))) < Cardinality(Higher(e, s))
<1> DEFINE b == Before(e, s)
<1>1. b \in Higher(e, s) /\ \A v \in Higher(e, s) : b <= v
  <2>1. \E u \in Higher(e, s) : \A v \in Higher(e, s) : u <= v
    BY HigherIsFinite, LeastOfFinite
  <2> QED  BY <2>1 DEF Before
<1> HIDE DEF b
<1>2. b \in ScoresOf(e) /\ b > s /\ b \in Int /\ s \in Int
  BY <1>1, ScoresAreFinite DEF Higher
<1>3. Higher(e, b) \subseteq Higher(e, s) /\ b \notin Higher(e, b)
  BY <1>2, ScoresAreFinite DEF Higher
<1>4. /\ IsFiniteSet(Higher(e, s)) /\ Cardinality(Higher(e, s)) \in Nat
      /\ Cardinality(Higher(e, b)) \in Nat
  BY HigherIsFinite
<1>5. Cardinality(Higher(e, b)) <= Cardinality(Higher(e, s))
      /\ (Cardinality(Higher(e, s)) = Cardinality(Higher(e, b)) => Higher(e, s) = Higher(e, b))
  BY <1>3, <1>4, FS_Subset
<1>6. Cardinality(Higher(e, b)) < Cardinality(Higher(e, s))
  BY <1>1, <1>3, <1>4, <1>5
<1> QED  BY <1>1, <1>2, <1>6 DEF b

\* assignRanksWithTies satisfies the equation of the function in its definition.
LEMMA RankRecursion ==
  ASSUME NEW e \in Seq(Item)
  PROVE  \E rank : /\ assignRanksWithTies(e) = [j \in DOMAIN e |-> rank[e[j].score]]
                   /\ \A s \in ScoresOf(e) : rank[s] = RankStep(rank, s, e)
<1> DEFINE D == ScoresOf(e)
           Solves(g, k) == \A s \in D : Cardinality(Higher(e, s)) < k => g[s] = RankStep(g, s, e)
           K == {k \in Nat : \E g : Solves(g, k)}
           Follows(f) == f = [s \in D |-> RankStep(f, s, e)]
<1>0. Len(e) \in Nat
  OBVIOUS
<1>1. \A s \in D : Cardinality(Higher(e, s)) \in Nat /\ Cardinality(Higher(e, s)) <= Len(e)
  BY HigherIsFinite
<1>2. ASSUME NEW s \in D, Higher(e, s) # {}
      PROVE  /\ Before(e, s) \in D
             /\ Cardinality(Higher(e, Before(e, s))) < Cardinality(Higher(e, s))
  BY <1>2, NextHigher
<1> HIDE DEF D
<1>3. ASSUME NEW g, NEW k \in Nat, Solves(g, k), NEW s \in D, Cardinality(Higher(e, s)) <= k
      PROVE  LET f == [u \in D |-> RankStep(g, u, e)]
             IN  RankStep(g, s, e) = RankStep(f, s, e)
  <2> DEFINE f == [u \in D |-> RankStep(g, u, e)]
  <2>1. ASSUME NEW u \in D, Cardinality(Higher(e, u)) < k PROVE f[u] = g[u]
    BY <1>3, <2>1
  <2> HIDE DEF f
  <2>2. Higher(e, s) # {} => f[Before(e, s)] = g[Before(e, s)]
    BY <1>1, <1>2, <1>3, <2>1
  <2>3. RankStep(f, s, e) = RankStep(g, s, e)
    BY <2>2, RankStepLooksBelow
  <2> QED  BY <2>3 DEF f
<1>4. 0 \in K
  <2>1. Solves(<<>>, 0)
    BY <1>1
  <2> HIDE DEF Solves
  <2> QED  BY <2>1
<1>5. ASSUME NEW k \in K PROVE k + 1 \in K
  <2>1. PICK g : Solves(g, k)
    OBVIOUS
  <2> DEFINE f == [s \in D |-> RankStep(g, s, e)]
  <2>2. ASSUME NEW s \in D, Cardinality(Higher(e, s)) < k + 1 PROVE f[s] = RankStep(f, s, e)
    <3>1. Cardinality(Higher(e, s)) <= k /\ k \in Nat
      BY <1>1, <2>2
    <3>2. RankStep(g, s, e) = RankStep(f, s, e)
      BY <1>3, <2>1, <3>1
    <3>3. f[s] = RankStep(g, s, e)
      OBVIOUS
    <3> QED  BY <3>2, <3>3, Zenon
  <2>3. Solves(f, k + 1)
    BY <2>2
  <2> HIDE DEF f, Solves
  <2> QED  BY <2>3
<1>6. K = Nat
  <2> HIDE DEF K
  <2>1. K \in SUBSET Nat
    BY DEF K
  <2> QED  BY <1>4, <1>5, <2>1, CountingUp
<1>8. PICK g : Solves(g, Len(e) + 1)
  BY <1>0, <1>6
<1> DEFINE f == [s \in D |-> RankStep(g, s, e)]
<1>9. Follows(f)
  <2>1. ASSUME NEW s \in D PROVE RankStep(g, s, e) = RankStep(f, s, e)
    <3>1. Cardinality(Higher(e, s)) <= Len(e) + 1
      BY <1>0, <1>1
    <3> QED  BY <1>0, <1>3, <1>8, <3>1
  <2> HIDE DEF D
  <2>2. f = [s \in D |-> RankStep(f, s, e)]
    BY <2>1
  <2> QED  BY <2>2
<1> DEFINE rank == CHOOSE r : Follows(r)
<1>10. Follows(rank)
  <2> HIDE DEF Follows, f
  <2> QED  BY <1>9
<1>11. assignRanksWithTies(e) = [j \in DOMAIN e |-> rank[e[j].score]]
  BY Zenon DEF assignRanksWithTies, RankStep, D, ScoresOf, Higher, Group, Before
<1>12. \A s \in D : rank[s] = RankStep(rank, s, e)
  <2> HIDE DEF rank
  <2> QED  BY <1>10
<1> HIDE DEF rank
<1> QED  BY <1>11, <1>12 DEF D

\* The rank given to an entry is one more than the number of better entries,
\* for every list of entries.
THEOREM RanksCountTheBetter ==
  ASSUME NEW e \in Seq(Item)
  PROVE  \A i \in DOMAIN e :
           assignRanksWithTies(e)[i] = 1 + Cardinality(Better(e, e[i].score))
<1>1. PICK rank : /\ assignRanksWithTies(e) = [j \in DOMAIN e |-> rank[e[j].score]]
                  /\ \A s \in ScoresOf(e) : rank[s] = RankStep(rank, s, e)
  BY RankRecursion
<1> DEFINE K == {k \in Nat : \A s \in ScoresOf(e) :
                   Cardinality(Higher(e, s)) < k => rank[s] = 1 + Cardinality(Better(e, s))}
<1>2. IsFiniteSet(DOMAIN e)
  BY ScoresAreFinite
<1>3. \A s : IsFiniteSet(Better(e, s)) /\ Cardinality(Better(e, s)) \in Nat
             /\ IsFiniteSet(Group(e, s)) /\ Cardinality(Group(e, s)) \in Nat
  <2>1. \A s : Better(e, s) \subseteq DOMAIN e /\ Group(e, s) \subseteq DOMAIN e
    BY DEF Better, Group
  <2>2. \A s : IsFiniteSet(Better(e, s)) /\ IsFiniteSet(Group(e, s))
    BY <1>2, <2>1, FS_Subset
  <2> QED  BY <2>2, FS_CardinalityType
<1>4. 0 \in K
  BY HigherIsFinite
<1>5. ASSUME NEW k \in K PROVE k + 1 \in K
  <2> SUFFICES ASSUME NEW s \in ScoresOf(e), Cardinality(Higher(e, s)) < k + 1
               PROVE  rank[s] = 1 + Cardinality(Better(e, s))
    OBVIOUS
  <2>1. rank[s] = RankStep(rank, s, e)
    BY <1>1
  <2>2. CASE Higher(e, s) = {}
    <3>1. Better(e, s) = {}
      BY <2>2 DEF Higher, Better, ScoresOf
    <3>2. Cardinality(Better(e, s)) = 0
      BY <3>1, FS_EmptySet
    <3> QED  BY <2>1, <2>2, <3>2 DEF RankStep
  <2>3. CASE Higher(e, s) # {}
    <3> DEFINE b == Before(e, s)
    <3>1. /\ b \in ScoresOf(e) /\ b > s /\ \A v \in Higher(e, s) : b <= v
          /\ Cardinality(Higher(e, b)) < Cardinality(Higher(e, s))
      BY <2>3, NextHigher
    <3>2. rank[s] = rank[b] + Cardinality(Group(e, b))
      BY <2>1, <2>3 DEF RankStep
    <3> HIDE DEF b
    <3>3. rank[b] = 1 + Cardinality(Better(e, b))
      <4>1. Cardinality(Higher(e, b)) < k
        BY <3>1, HigherIsFinite
      <4> QED  BY <3>1, <4>1
    <3>4. /\ b \in Int /\ s \in Int
          /\ \A i \in DOMAIN e : e[i].score \in Int /\ e[i].score \in ScoresOf(e)
      BY <3>1, ScoresAreFinite DEF ScoresOf
    <3>5. Better(e, s) = Better(e, b) \cup Group(e, b)
      BY <3>1, <3>4 DEF Better, Group, Higher
    <3>6. Better(e, b) \cap Group(e, b) = {}
      BY <3>4 DEF Better, Group
    <3>7. Cardinality(Better(e, s)) = Cardinality(Better(e, b)) + Cardinality(Group(e, b))
      <4> DEFINE B == Better(e, b)
                 G == Group(e, b)
      <4>1. Cardinality(B \cup G) = Cardinality(B) + Cardinality(G) - Cardinality(B \cap G)
        <5>1. IsFiniteSet(B) /\ IsFiniteSet(G)
          BY <1>3
        <5> HIDE DEF B, G
        <5> QED  BY <5>1, FS_Union
      <4>2. Cardinality(B \cap G) = 0
        BY <3>6, FS_EmptySet
      <4>3. Cardinality(B) \in Nat /\ Cardinality(G) \in Nat
        BY <1>3
      <4> QED  BY <3>5, <4>1, <4>2, <4>3
    <3>8. Cardinality(Better(e, b)) \in Nat /\ Cardinality(Group(e, b)) \in Nat
      BY <1>3
    <3> QED  BY <3>2, <3>3, <3>7, <3>8
  <2> QED  BY <2>2, <2>3
<1>6. K = Nat
  <2> HIDE DEF K
  <2>1. K \in SUBSET Nat
    BY DEF K
  <2> QED  BY <1>4, <1>5, <2>1, CountingUp
<1>7. ASSUME NEW s \in ScoresOf(e) PROVE rank[s] = 1 + Cardinality(Better(e, s))
  <2>1. Cardinality(Higher(e, s)) + 1 \in K
        /\ Cardinality(Higher(e, s)) < Cardinality(Higher(e, s)) + 1
    BY <1>6, HigherIsFinite
  <2> QED  BY <2>1
<1>8. \A i \in DOMAIN e : e[i].score \in ScoresOf(e)
  BY DEF ScoresOf
<1> QED  BY <1>1, <1>7, <1>8

\* No talent is listed twice.
OncePerTalent(e) == \A i, j \in DOMAIN e : e[i].id = e[j].id => i = j

\* Counting the better entries is counting the better talents.
LEMMA BetterTalents ==
  ASSUME NEW e \in Seq(Item), OncePerTalent(e),
         NEW b, DOMAIN b = {e[i].id : i \in DOMAIN e}, \A i \in DOMAIN e : b[e[i].id] = e[i].score,
         NEW s
  PROVE  Cardinality(Better(e, s)) = Cardinality({u \in DOMAIN b : b[u] > s})
<1> DEFINE A == Better(e, s)
           U == {u \in DOMAIN b : b[u] > s}
           f == [j \in A |-> e[j].id]
<1>1. A \subseteq DOMAIN e /\ \A j \in DOMAIN e : j \in A <=> e[j].score > s
  BY DEF Better
<1>2. IsFiniteSet(A)
  BY <1>1, ScoresAreFinite, FS_Subset
<1>3. f \in Bijection(A, U)
  <2>1. f \in [A -> U]
    BY <1>1
  <2>2. \A j, l \in A : f[j] = f[l] => j = l
    BY <1>1 DEF OncePerTalent
  <2>3. ASSUME NEW u \in U PROVE \E j \in A : f[j] = u
    <3>1. PICK j \in DOMAIN e : e[j].id = u
      OBVIOUS
    <3> QED  BY <1>1, <3>1
  <2> HIDE DEF f, A, U
  <2> QED  BY <2>1, <2>2, <2>3 DEF Bijection, Injection, Surjection, IsInjective
<1> HIDE DEF f, A, U
<1>4. Cardinality(U) = Cardinality(A)
  BY <1>2, <1>3, FS_Bijection DEF ExistsBijection
<1> QED  BY <1>4 DEF A, U

\* The snapshot's ranks are one more than the number of strictly better
\* talents, after every sequence of updates: who ties shares a rank, and the
\* next rank leaves out as many as tied.
THEOREM SnapshotRanksShareTies == Spec => []RanksShareTies
<1>1. RootInv => RanksShareTies
  <2> SUFFICES ASSUME RootInv PROVE RanksShareTies
    OBVIOUS
  <2> DEFINE e == collectAllEntries(byID, root)
  <2>1. InOrder(e, Board(byID))
    BY RecordsAgree, CollectionIsInOrder
  <2> HIDE DEF e
  <2>2. e \in Seq(Item) /\ DOMAIN e = 1..Len(e)
    BY <2>1 DEF InOrder
  <2>3. /\ OncePerTalent(e) /\ DOMAIN byID = {e[i].id : i \in DOMAIN e}
        /\ \A i \in DOMAIN e : byID[e[i].id] = e[i].score
    <3>1. ASSUME NEW i \in 1..Len(e)
          PROVE  e[i].id \in DOMAIN byID /\ e[i].score = byID[e[i].id]
      BY <2>1, Places, Zenon
    <3>2. \A t \in DOMAIN byID : \E i \in 1..Len(e) : e[i].id = t
      BY <2>1, Places
    <3>3. ASSUME NEW i \in 1..Len(e), NEW j \in 1..Len(e), e[i].id = e[j].id PROVE i = j
      BY <2>1, <3>3, Places
    <3>4. DOMAIN byID = {e[i].id : i \in DOMAIN e}
      BY <2>2, <3>1, <3>2
    <3> QED  BY <2>2, <3>1, <3>3, <3>4 DEF OncePerTalent
  <2>4. \A s : Cardinality(Better(e, s)) = Cardinality({u \in DOMAIN byID : byID[u] > s})
    BY <2>2, <2>3, BetterTalents
  <2>5. \A i \in DOMAIN e : assignRanksWithTies(e)[i] = 1 + Cardinality(Better(e, e[i].score))
    BY <2>2, RanksCountTheBetter
  <2> QED  BY <2>4, <2>5 DEF RanksShareTies, e
<1> QED  BY <1>1, RootInvariant, PTL

-----------------------------------------------------------------------------
(* countHigherRanked *)

\* What the count makes of the node m, given by f what it makes of the children.
CountStep(f, m, i, s) ==
  IF m = Nil THEN 0
  ELSE IF less(m.score, m.id, s, i)
  THEN 1 + f[m.left] + f[m.right]
  ELSE IF less(s, i, m.score, m.id)
  THEN f[m.left]
  ELSE 0

LEMMA CountStepLooksBelow ==
  ASSUME NEW f, NEW g, NEW m, NEW i, NEW s,
         m # Nil => f[m.left] = g[m.left] /\ f[m.right] = g[m.right]
  PROVE  CountStep(f, m, i, s) = CountStep(g, m, i, s)
<1>1. CASE m = Nil
  BY <1>1, Zenon DEF CountStep
<1>2. CASE m # Nil
  BY <1>2, Zenon DEF CountStep
<1> QED  BY <1>1, <1>2

\* countHigherRanked satisfies the equation of the function in its definition.
LEMMA CountRecursion ==
  ASSUME NEW n, Tree(n), NEW i, NEW s
  PROVE  \E count : /\ countHigherRanked(n, i, s) = count[n]
                    /\ \A m \in Subtrees(n) : count[m] = CountStep(count, m, i, s)
<1> DEFINE D == Subtrees(n)
           Solves(g, k) == \A m \in D : nsize(m) < k => g[m] = CountStep(g, m, i, s)
           K == {k \in Nat : \E g : Solves(g, k)}
           Follows(f) == f = [m \in D |-> CountStep(f, m, i, s)]
<1>1. \A m \in D : nsize(m) \in Nat /\ nsize(m) <= nsize(n) /\ nsize(n) \in Nat
  BY TreeShape
<1>2. ASSUME NEW m \in D, m # Nil
      PROVE  /\ m.left \in D /\ nsize(m.left) < nsize(m)
             /\ m.right \in D /\ nsize(m.right) < nsize(m)
  <2>1. IsNode(m) /\ m.left \in D /\ m.right \in D
    BY <1>2 DEF Tree, Whole
  <2> QED  BY <2>1, NodesHaveSizes
<1> HIDE DEF D
<1>3. ASSUME NEW g, NEW k \in Nat, Solves(g, k), NEW m \in D, nsize(m) <= k
      PROVE  LET f == [q \in D |-> CountStep(g, q, i, s)]
             IN  CountStep(g, m, i, s) = CountStep(f, m, i, s)
  <2> DEFINE f == [q \in D |-> CountStep(g, q, i, s)]
  <2>1. ASSUME NEW q \in D, nsize(q) < k PROVE f[q] = g[q]
    BY <1>3, <2>1
  <2> HIDE DEF f
  <2>2. m # Nil => f[m.left] = g[m.left] /\ f[m.right] = g[m.right]
    BY <1>1, <1>2, <1>3, <2>1
  <2>3. CountStep(f, m, i, s) = CountStep(g, m, i, s)
    BY <2>2, CountStepLooksBelow
  <2> QED  BY <2>3 DEF f
<1>4. 0 \in K
  <2>1. Solves(<<>>, 0)
    BY <1>1
  <2> HIDE DEF Solves
  <2> QED  BY <2>1
<1>5. ASSUME NEW k \in K PROVE k + 1 \in K
  <2>1. PICK g : Solves(g, k)
    OBVIOUS
  <2> DEFINE f == [m \in D |-> CountStep(g, m, i, s)]
  <2>2. ASSUME NEW m \in D, nsize(m) < k + 1 PROVE f[m] = CountStep(f, m, i, s)
    <3>1. nsize(m) <= k /\ k \in Nat
      BY <1>1, <2>2
    <3>2. CountStep(g, m, i, s) = CountStep(f, m, i, s)
      BY <1>3, <2>1, <3>1
    <3>3. f[m] = CountStep(g, m, i, s)
      OBVIOUS
    <3> QED  BY <3>2, <3>3, Zenon
  <2>3. Solves(f, k + 1)
    BY <2>2
  <2> HIDE DEF f, Solves
  <2> QED  BY <2>3
<1>6. K = Nat
  <2> HIDE DEF K
  <2>1. K \in SUBSET Nat
    BY DEF K
  <2> QED  BY <1>4, <1>5, <2>1, CountingUp
<1>7. n \in D /\ nsize(n) \in Nat /\ nsize(n) + 1 \in Nat
  BY <1>1 DEF Tree, D
<1>8. PICK g : Solves(g, nsize(n) + 1)
  BY <1>6, <1>7
<1> DEFINE f == [m \in D |-> CountStep(g, m, i, s)]
<1>9. Follows(f)
  <2>1. ASSUME NEW m \in D PROVE CountStep(g, m, i, s) = CountStep(f, m, i, s)
    <3>1. nsize(m) <= nsize(n) + 1
      BY <1>1
    <3> QED  BY <1>3, <1>7, <1>8, <3>1
  <2> HIDE DEF D
  <2>2. f = [m \in D |-> CountStep(f, m, i, s)]
    BY <2>1
  <2> QED  BY <2>2
<1> DEFINE count == CHOOSE e : Follows(e)
<1>10. Follows(count)
  <2> HIDE DEF Follows, f
  <2> QED  BY <1>9
<1>11. countHigherRanked(n, i, s) = count[n]
  BY Zenon DEF countHigherRanked, CountStep, D
<1>12. \A m \in D : count[m] = CountStep(count, m, i, s)
  <2> HIDE DEF count
  <2> QED  BY <1>10
<1> HIDE DEF count
<1> QED  BY <1>11, <1>12 DEF D

\* The keys of m that come before this id and score.
KeysAbove(m, i, s) == {k \in Keys(m) : less(k[2], k[1], s, i)}

\* What is counted below m: all that ranks higher, and what is left of the
\* target's own node does not count.
CountsAt(c, m, i, s) ==
  /\ <<i, s>> \notin Keys(m) => c = Cardinality(KeysAbove(m, i, s))
  /\ \A x \in NodesOf(m) :
       x.id = i /\ x.score = s => c = Cardinality(KeysAbove(m, i, s)) - nsize(x.left)

\* A node that ranks higher than the target: so does all that is left of it.
LEMMA CountedHigher ==
  ASSUME NEW m, TreapAt(m), m # Nil, NEW i \in Talents, NEW s \in Int,
         less(m.score, m.id, s, i), NEW a \in Int, NEW b \in Int,
         CountsAt(a, m.left, i, s), CountsAt(b, m.right, i, s)
  PROVE  CountsAt(1 + a + b, m, i, s)
<1> DEFINE key == <<m.id, m.score>>
           l == m.left
           r == m.right
<1>1. /\ m.id \in Talents /\ m.score \in Int /\ TreapAt(l) /\ TreapAt(r)
      /\ AllBefore(Keys(l), m.id, m.score) /\ AllAfter(Keys(r), m.id, m.score)
      /\ Keys(m) = {key} \cup Keys(l) \cup Keys(r)
  BY TreapParts
<1>2. NodesOf(m) = {m} \cup NodesOf(l) \cup NodesOf(r)
  BY TreeParts DEF NodesOf, TreapAt
<1>3. <<i, s>> \notin Keys(l) /\ <<i, s>> # key
  <2>1. m.id \in Talents /\ m.score \in Int
    BY <1>1
  <2>2. ~less(s, i, m.score, m.id) /\ <<i, s>> # <<m.id, m.score>>
    BY <2>1, TreapAssumption DEF less
  <2> QED  BY <1>1, <2>2 DEF AllBefore
<1>4. key \notin Keys(l) /\ key \notin Keys(r)
  BY KeysApart
<1>5. \A k \in Keys(l) : k \notin Keys(r)
  BY KeysApart
<1>6. KeysAbove(m, i, s) = {key} \cup KeysAbove(l, i, s) \cup KeysAbove(r, i, s)
  BY <1>1 DEF KeysAbove
<1>7. IsFiniteSet(KeysAbove(l, i, s)) /\ IsFiniteSet(KeysAbove(r, i, s))
  <2>1. IsFiniteSet(Keys(l)) /\ IsFiniteSet(Keys(r))
    BY <1>1, SizeCounts
  <2> QED  BY <2>1, FS_Subset DEF KeysAbove
<1>8. Cardinality(KeysAbove(m, i, s))
        = 1 + Cardinality(KeysAbove(l, i, s)) + Cardinality(KeysAbove(r, i, s))
  <2>1. /\ key \notin KeysAbove(l, i, s) /\ key \notin KeysAbove(r, i, s)
        /\ \A y \in KeysAbove(l, i, s) : y \notin KeysAbove(r, i, s)
    BY <1>4, <1>5 DEF KeysAbove
  <2> HIDE DEF key
  <2> QED  BY <1>6, <1>7, <2>1, NodeAndTwoSets
<1>9. Cardinality(KeysAbove(l, i, s)) \in Nat /\ Cardinality(KeysAbove(r, i, s)) \in Nat
  BY <1>7, FS_CardinalityType
<1>10. a = Cardinality(KeysAbove(l, i, s))
  BY <1>3 DEF CountsAt
<1>11. ASSUME <<i, s>> \notin Keys(m) PROVE 1 + a + b = Cardinality(KeysAbove(m, i, s))
  <2>1. b = Cardinality(KeysAbove(r, i, s))
    BY <1>1, <1>11 DEF CountsAt
  <2> QED  BY <1>8, <1>10, <2>1
<1>12. ASSUME NEW x \in NodesOf(m), x.id = i, x.score = s
       PROVE  1 + a + b = Cardinality(KeysAbove(m, i, s)) - nsize(x.left)
  <2>1. x # m /\ x \notin NodesOf(l)
    BY <1>3, <1>12 DEF Keys
  <2>2. x \in NodesOf(r)
    BY <1>2, <2>1
  <2>3. b = Cardinality(KeysAbove(r, i, s)) - nsize(x.left)
    BY <1>12, <2>2 DEF CountsAt
  <2>4. nsize(x.left) \in Nat
    BY <1>1, <2>2 DEF TreapAt, Tree, Whole, IsNode, NodesOf
  <2> QED  BY <1>8, <1>9, <1>10, <2>3, <2>4
<1> QED  BY <1>11, <1>12 DEF CountsAt

\* A node that ranks lower than the target: so does all that is right of it.
LEMMA CountedLower ==
  ASSUME NEW m, TreapAt(m), m # Nil, NEW i \in Talents, NEW s \in Int,
         less(s, i, m.score, m.id), NEW a, CountsAt(a, m.left, i, s)
  PROVE  CountsAt(a, m, i, s)
<1> DEFINE key == <<m.id, m.score>>
           l == m.left
           r == m.right
<1>1. /\ m.id \in Talents /\ m.score \in Int /\ TreapAt(l) /\ TreapAt(r)
      /\ AllBefore(Keys(l), m.id, m.score) /\ AllAfter(Keys(r), m.id, m.score)
      /\ Keys(m) = {key} \cup Keys(l) \cup Keys(r)
  BY TreapParts
<1>2. NodesOf(m) = {m} \cup NodesOf(l) \cup NodesOf(r)
  BY TreeParts DEF NodesOf, TreapAt
<1>3. ASSUME NEW k \in Keys(r) PROVE ~less(k[2], k[1], s, i) /\ k # <<i, s>>
  <2>1. k[1] \in Talents /\ k[2] \in Int
    BY <1>1, KeysAreKeys DEF TreapAt
  <2>2. less(m.score, m.id, k[2], k[1])
    BY <1>1 DEF AllAfter
  <2>3. less(s, i, k[2], k[1])
    BY <1>1, <2>1, <2>2, LessIsTransitive
  <2>4. ~less(k[2], k[1], s, i)
    BY <2>1, <2>3, LessIsStrict
  <2>5. <<k[1], k[2]>> # <<i, s>>
    BY <2>1, <2>3, LessMeansOther
  <2>6. k = <<k[1], k[2]>>
    BY <1>1, KeysAreKeys DEF TreapAt
  <2> QED  BY <2>4, <2>5, <2>6
<1>4. ~less(m.score, m.id, s, i) /\ key # <<i, s>>
  <2>1. ~less(m.score, m.id, s, i)
    BY <1>1, LessIsStrict
  <2> QED  BY <1>1, <2>1, LessMeansOther
<1>5. KeysAbove(m, i, s) = KeysAbove(l, i, s)
  BY <1>1, <1>3, <1>4 DEF KeysAbove
<1>6. ASSUME <<i, s>> \notin Keys(m) PROVE a = Cardinality(KeysAbove(m, i, s))
  BY <1>1, <1>5, <1>6 DEF CountsAt
<1>7. ASSUME NEW x \in NodesOf(m), x.id = i, x.score = s
      PROVE  a = Cardinality(KeysAbove(m, i, s)) - nsize(x.left)
  <2>1. x # m /\ x \notin NodesOf(r)
    BY <1>3, <1>4, <1>7 DEF Keys
  <2>2. x \in NodesOf(l)
    BY <1>2, <2>1
  <2> QED  BY <1>5, <1>7, <2>2 DEF CountsAt
<1> QED  BY <1>6, <1>7 DEF CountsAt

\* The target's own node: nothing is counted, and all that is left of it ranks
\* higher.
LEMMA CountedOwn ==
  ASSUME NEW m, TreapAt(m), m # Nil, NEW i, NEW s, m.id = i, m.score = s
  PROVE  CountsAt(0, m, i, s)
<1> DEFINE l == m.left
           r == m.right
<1>1. /\ m.id \in Talents /\ m.score \in Int /\ TreapAt(l) /\ TreapAt(r)
      /\ AllBefore(Keys(l), m.id, m.score) /\ AllAfter(Keys(r), m.id, m.score)
      /\ Keys(m) = {<<i, s>>} \cup Keys(l) \cup Keys(r)
  BY TreapParts
<1>2. NodesOf(m) = {m} \cup NodesOf(l) \cup NodesOf(r)
  BY TreeParts DEF NodesOf, TreapAt
<1>3. ASSUME NEW k \in Keys(r) PROVE ~less(k[2], k[1], s, i)
  <2>1. k[1] \in Talents /\ k[2] \in Int
    BY <1>1, KeysAreKeys DEF TreapAt
  <2>2. less(s, i, k[2], k[1])
    BY <1>1 DEF AllAfter
  <2>3. i \in Talents /\ s \in Int
    BY <1>1
  <2> QED  BY <2>1, <2>2, <2>3, LessIsAnOrder
<1>4. ~less(s, i, s, i)
  BY <1>1, LessIsAnOrder
<1>5. KeysAbove(m, i, s) = Keys(l)
  BY <1>1, <1>3, <1>4 DEF KeysAbove, AllBefore
<1>6. Cardinality(KeysAbove(m, i, s)) = nsize(l) /\ nsize(l) \in Nat
  BY <1>1, <1>5, SizeCounts, TreeShape DEF TreapAt
<1>7. ASSUME NEW x \in NodesOf(m), x.id = i, x.score = s PROVE x = m
  <2>1. <<i, s>> \notin Keys(l) /\ <<i, s>> \notin Keys(r)
    BY <1>1, <1>4 DEF AllBefore, AllAfter
  <2> QED  BY <1>2, <1>7, <2>1 DEF Keys
<1> QED  BY <1>1, <1>6, <1>7 DEF CountsAt

\* For every treap: the fallback counts what ranks higher than the target, less
\* what is left of the target's own node.
THEOREM CountLeavesOutTheLeft ==
  ASSUME NEW n, TreapAt(n), NEW i \in Talents, NEW s \in Int
  PROVE  CountsAt(countHigherRanked(n, i, s), n, i, s)
<1>1. Tree(n) /\ n \in Subtrees(n)
  BY DEF TreapAt, Tree
<1>2. PICK count : /\ countHigherRanked(n, i, s) = count[n]
                   /\ \A m \in Subtrees(n) : count[m] = CountStep(count, m, i, s)
  BY <1>1, CountRecursion
<1> DEFINE S == {m \in Subtrees(n) : CountsAt(count[m], m, i, s) /\ count[m] \in Int}
<1>3. ASSUME Nil \in Subtrees(n) PROVE Nil \in S
  <2>1. count[Nil] = 0
    BY <1>2, <1>3 DEF CountStep
  <2>2. Keys(Nil) = {} /\ NodesOf(Nil) = {}
    BY NilTreap, NilTree DEF NodesOf
  <2>3. Cardinality(KeysAbove(Nil, i, s)) = 0
    BY <2>2, FS_EmptySet DEF KeysAbove
  <2> QED  BY <1>3, <2>1, <2>2, <2>3 DEF CountsAt
<1>4. ASSUME NEW m \in Subtrees(n) \ {Nil}, m.left \in S, m.right \in S PROVE m \in S
  <2>1. count[m] = CountStep(count, m, i, s)
    BY <1>2
  <2>2. TreapAt(m) /\ m # Nil /\ m.id \in Talents /\ m.score \in Int
    BY TreapBelow, TreapParts
  <2> DEFINE a == count[m.left]
             b == count[m.right]
  <2>3. /\ CountsAt(a, m.left, i, s) /\ CountsAt(b, m.right, i, s)
        /\ a \in Int /\ b \in Int
    BY <1>4
  <2>4. CASE less(m.score, m.id, s, i)
    <3>1. count[m] = 1 + a + b
      BY <2>1, <2>2, <2>4 DEF CountStep
    <3> HIDE DEF a, b
    <3>2. CountsAt(1 + a + b, m, i, s)
      BY <2>2, <2>3, <2>4, CountedHigher
    <3> QED  BY <2>3, <3>1, <3>2
  <2>5. CASE ~less(m.score, m.id, s, i) /\ less(s, i, m.score, m.id)
    <3>1. count[m] = a
      BY <2>1, <2>2, <2>5 DEF CountStep
    <3> HIDE DEF a, b
    <3>2. CountsAt(a, m, i, s)
      BY <2>2, <2>3, <2>5, CountedLower
    <3> QED  BY <2>3, <3>1, <3>2
  <2>6. CASE ~less(m.score, m.id, s, i) /\ ~less(s, i, m.score, m.id)
    <3>1. count[m] = 0
      BY <2>1, <2>2, <2>6 DEF CountStep
    <3>2. m.id = i /\ m.score = s
      BY <2>2, <2>6, LessIsAnOrder
    <3>3. CountsAt(0, m, i, s)
      BY <2>2, <3>2, CountedOwn
    <3> QED  BY <3>1, <3>3
  <2> QED  BY <2>4, <2>5, <2>6
<1>5. S = Subtrees(n)
  <2> HIDE DEF S
  <2>1. S \subseteq Subtrees(n)
    BY DEF S
  <2> QED  BY <1>1, <1>3, <1>4, <2>1, FromTheLeaves
<1> QED  BY <1>1, <1>2, <1>5

\* The fallback's rank of a talent is too good by exactly as many as there are
\* nodes left of the talent's own, all of them above the talent.
LEMMA RankFromTheTree ==
  ASSUME RootInv, NEW n \in NodesOf(root)
  PROVE  /\ calculateRank(root, n.id, n.score) = 1 + Cardinality(Above(n.id)) - nsize(n.left)
         /\ nsize(n.left) \in 0..Cardinality(Above(n.id))
<1> DEFINE i == n.id
           s == n.score
           A == KeysAbove(root, i, s)
<1>1. TreapAt(root) /\ Records /\ Keys(root) = Board(byID) /\ root # Nil
  BY NilTree DEF RootInv, NodesOf
<1>2. /\ n.id \in Talents /\ n.score \in Int /\ nsize(n.left) \in Nat
      /\ n.id \in DOMAIN byID /\ n.score = byID[n.id]
  <2>1. <<n.id, n.score>> \in Board(byID)
    BY <1>1 DEF Keys
  <2>2. n.id \in Talents /\ n.score \in Int /\ nsize(n.left) \in Nat
    BY <1>1 DEF TreapAt, Tree, Whole, IsNode, NodesOf
  <2> QED  BY <2>1, <2>2 DEF Board
<1>3. countHigherRanked(root, i, s) = Cardinality(A) - nsize(n.left)
  BY <1>1, <1>2, CountLeavesOutTheLeft DEF CountsAt
<1>4. IsFiniteSet(A) /\ Cardinality(A) \in Nat
  <2>1. IsFiniteSet(Keys(root)) /\ A \subseteq Keys(root)
    BY <1>1, SizeCounts DEF KeysAbove
  <2> HIDE DEF A
  <2> QED  BY <2>1, FS_Subset, FS_CardinalityType
<1> DEFINE f == [k \in A |-> k[1]]
<1>5. f \in Bijection(A, Above(i))
  <2>1. ASSUME NEW k \in A
        PROVE  /\ k[1] \in DOMAIN byID /\ k = <<k[1], byID[k[1]]>>
               /\ less(byID[k[1]], k[1], byID[i], i)
    <3>1. k \in Board(byID) /\ less(k[2], k[1], s, i)
      BY <1>1 DEF KeysAbove
    <3>2. k[1] \in DOMAIN byID /\ k = <<k[1], byID[k[1]]>>
      BY <3>1 DEF Board
    <3> QED  BY <1>2, <3>1, <3>2
  <2>2. ASSUME NEW u \in Above(i) PROVE <<u, byID[u]>> \in A
    <3>1. u \in DOMAIN byID /\ less(byID[u], u, s, i)
      BY <1>2 DEF Above
    <3>2. <<u, byID[u]>> \in Keys(root)
      BY <1>1, <3>1 DEF Board
    <3> QED  BY <3>1, <3>2 DEF KeysAbove
  <2> HIDE DEF A
  <2>3. f \in [A -> Above(i)]
    BY <2>1 DEF Above
  <2>4. \A a, b \in A : f[a] = f[b] => a = b
    BY <2>1
  <2>5. \A u \in Above(i) : \E k \in A : f[k] = u
    BY <2>2
  <2> HIDE DEF f
  <2> QED  BY <2>3, <2>4, <2>5 DEF Bijection, Injection, Surjection, IsInjective
<1>6. Cardinality(Above(i)) = Cardinality(A)
  <2> HIDE DEF f, A
  <2> QED  BY <1>4, <1>5, FS_Bijection DEF ExistsBijection
<1>7. calculateRank(root, i, s) = 1 + countHigherRanked(root, i, s)
  BY <1>1 DEF calculateRank
<1>8. nsize(n.left) <= Cardinality(A)
  <2>1. n.left \in Subtrees(root) /\ TreapAt(n.left) /\ AllBefore(Keys(n.left), i, s)
    <3>1. n \in Subtrees(root) /\ n # Nil /\ TreapAt(n)
      BY <1>1, TreapBelow DEF NodesOf
    <3>2. n.left \in Subtrees(root)
      BY <1>1, <3>1 DEF TreapAt, Tree, Whole
    <3> QED  BY <3>1, <3>2, TreapParts
  <2>2. Keys(n.left) \subseteq Keys(root)
    <3>1. Subtrees(n.left) \subseteq Subtrees(root)
      BY <1>1, <2>1, TreeShape DEF TreapAt
    <3> QED  BY <3>1 DEF Keys, NodesOf
  <2>3. Keys(n.left) \subseteq A
    BY <2>1, <2>2 DEF KeysAbove, AllBefore
  <2>4. Cardinality(Keys(n.left)) = nsize(n.left)
    BY <2>1, SizeCounts
  <2> HIDE DEF A
  <2> QED  BY <1>4, <2>3, <2>4, FS_Subset
<1> HIDE DEF A
<1> QED  BY <1>2, <1>3, <1>4, <1>6, <1>7, <1>8

\* After every sequence of updates the fallback's rank of a talent is too good
\* by exactly as many as there are nodes left of the talent's own.
THEOREM FallbackRankIsShort == Spec => []FallbackRankDeficit
<1>1. RootInv => FallbackRankDeficit
  BY RankFromTheTree DEF FallbackRankDeficit
<1> QED  BY <1>1, RootInvariant, PTL

-----------------------------------------------------------------------------
(* The concurrent store, and Board.  Promise is the instance of Board that   *)
(* TreapStore declares; the theorems about Board come with an instance of    *)
(* their own, and the two say the same.                                      *)

\* The theorems about Board, for the same mapping.
Promised == INSTANCE BoardProofs WITH
  Scores <- {toFixedPoint(u[2]) : u \in Updates},
  board <- byID, snapshot <- rankSnapshot, ranked <- RanksSeen, listed <- TopsSeen,
  copy <- IF collected.busy THEN AsBoard(collected.entries) ELSE NoOne

\* A place is one more than the number of talents above.
LEMMA PlaceOnBoard ==
  ASSUME NEW b, NEW t
  PROVE  /\ Promise!Place(b, t) = 1 + Cardinality(AboveOn(b, t))
         /\ Promised!Place(b, t) = 1 + Cardinality(AboveOn(b, t))
<1>1. {u \in DOMAIN b : Promise!Before(b, u, t)} = AboveOn(b, t)
  BY DEF Promise!Before, AboveOn, less
<1>2. {u \in DOMAIN b : Promised!Before(b, u, t)} = AboveOn(b, t)
  BY DEF Promised!Before, AboveOn, less
<1> QED
  BY <1>1, <1>2 DEF Promise!Place, Promised!Place, Promise!Cardinality, Promised!Cardinality,
                    Cardinality

\* A rank is one more than the number of better talents.
LEMMA RanksOnBoard ==
  ASSUME NEW b
  PROVE  /\ Promise!RanksOf(b) =
              [t \in DOMAIN b |-> 1 + Cardinality({u \in DOMAIN b : b[u] > b[t]})]
         /\ Promised!RanksOf(b) = Promise!RanksOf(b)
BY DEF Promise!RanksOf, Promised!RanksOf, Promise!Cardinality, Promised!Cardinality, Cardinality

\* The top of a board is the same in both.
LEMMA TopOnBoard ==
  ASSUME NEW b
  PROVE  Promised!TopOf(b) = Promise!TopOf(b)
BY PlaceOnBoard DEF Promise!TopOf, Promised!TopOf

\* So both have the same initial states ...
LEMMA SameInit == Promise!Init => Promised!Init
BY DEF Promise!Init, Promised!Init, Promise!Empty, Promised!Empty, Promise!IdleRank,
       Promised!IdleRank, Promise!IdleTop, Promised!IdleTop

\* ... and the same steps, one operation after the other.
LEMMA SameFind ==
  ASSUME NEW r, NEW t, Promise!Find(r, t)
  PROVE  Promised!Find(r, t)
BY DEF Promise!Find, Promised!Find, Promise!RankGoes, Promised!RankGoes

\* The later steps of Rank.
LEMMA SameRank ==
  ASSUME NEW r,
         \/ Promise!LookUp(r) \/ Promise!Estimate(r) \/ Promise!ReadScore(r) \/ Promise!Answer(r)
  PROVE  \/ Promised!LookUp(r) \/ Promised!Estimate(r) \/ Promised!ReadScore(r)
         \/ Promised!Answer(r)
<1>2. CASE Promise!LookUp(r)
  BY <1>2 DEF Promise!LookUp, Promised!LookUp, Promise!RankGoes, Promised!RankGoes
<1>3. CASE Promise!Estimate(r)
  <2> DEFINE t0 == RanksSeen[r].talent
  <2>1. Promise!Place(byID, t0) = Promised!Place(byID, t0)
    BY PlaceOnBoard
  <2> QED
    BY <1>3, <2>1
       DEF Promise!Estimate, Promised!Estimate, Promise!RankGoes, Promised!RankGoes
<1>4. CASE Promise!ReadScore(r)
  BY <1>4 DEF Promise!ReadScore, Promised!ReadScore, Promise!RankGoes, Promised!RankGoes
<1>5. CASE Promise!Answer(r)
  BY <1>5 DEF Promise!Answer, Promised!Answer, Promise!RankGoes, Promised!RankGoes
<1> QED  BY <1>2, <1>3, <1>4, <1>5

\* The steps of TopN.
LEMMA SameList ==
  ASSUME NEW r, Promise!List(r) \/ Promise!RankList(r)
  PROVE  Promised!List(r) \/ Promised!RankList(r)
<1>1. CASE Promise!List(r)
  <2>1. Promise!TopOf(byID) = Promised!TopOf(byID)
    BY TopOnBoard
  <2> QED  BY <1>1, <2>1 DEF Promise!List, Promised!List
<1>2. CASE Promise!RankList(r)
  <2> DEFINE top == TopsSeen[r].top
  <2>1. Promise!RanksOf(top) = Promised!RanksOf(top)
    BY RanksOnBoard
  <2> QED  BY <1>2, <2>1 DEF Promise!RankList, Promised!RankList
<1> QED  BY <1>1, <1>2

\* Together.
LEMMA SameNext == Promise!Next => Promised!Next
<1> SUFFICES ASSUME Promise!Next PROVE Promised!Next
  OBVIOUS
<1>1. ASSUME NEW t \in Talents, NEW s \in {toFixedPoint(u[2]) : u \in Updates}, Promise!Raise(t, s)
      PROVE  Promised!Next
  <2>1. Promised!Raise(t, s)
    BY <1>1 DEF Promise!Raise, Promised!Raise
  <2> QED  BY <2>1 DEF Promised!Next
<1>2. CASE Promise!Collect
  <2>1. Promised!Collect
    BY <1>2 DEF Promise!Collect, Promised!Collect
  <2> QED  BY <2>1 DEF Promised!Next
<1>3. CASE Promise!Publish
  <2> DEFINE copy == IF collected.busy THEN AsBoard(collected.entries) ELSE NoOne
  <2>1. Promise!RanksOf(copy) = Promised!RanksOf(copy)
    BY RanksOnBoard
  <2>2. Promised!Publish
    BY <1>3, <2>1 DEF Promise!Publish, Promised!Publish
  <2> QED  BY <2>2 DEF Promised!Next
<1>4. ASSUME NEW r \in RankCalls, NEW t \in Talents, Promise!Find(r, t)
      PROVE  Promised!Next
  BY <1>4, SameFind DEF Promised!Next
<1>5. ASSUME NEW r \in RankCalls,
             \/ Promise!LookUp(r) \/ Promise!Estimate(r) \/ Promise!ReadScore(r)
             \/ Promise!Answer(r)
      PROVE  Promised!Next
  BY <1>5, SameRank DEF Promised!Next
<1>6. ASSUME NEW r \in TopNCalls, Promise!List(r) \/ Promise!RankList(r)
      PROVE  Promised!Next
  BY <1>6, SameList DEF Promised!Next
<1> QED  BY <1>1, <1>2, <1>3, <1>4, <1>5, <1>6 DEF Promise!Next

\* What implements Board has the properties that its theorems give it.
LEMMA SameSpec == Promise!Spec => Promised!Spec
<1>1. Promise!boardVars = Promised!boardVars
  BY DEF Promise!boardVars, Promised!boardVars
<1>2. [Promise!Next]_Promise!boardVars => [Promised!Next]_Promised!boardVars
  BY SameNext DEF Promise!boardVars, Promised!boardVars
<1> QED  BY <1>2, SameInit, PTL DEF Promise!Spec, Promised!Spec

-----------------------------------------------------------------------------
(* What Board sees of a call *)

Got(c, f, unread) == IF f \in DOMAIN c THEN c[f] ELSE unread

Estimated(c) == IF "fallback" \in DOMAIN c THEN c.fallback ELSE FALSE

RankSeen(c) ==
  [pc |-> RankPhase[c.pc], talent |-> Got(c, "talent", 0), from |-> Got(c, "from", 0),
   rank |-> Got(c, "rank", 0), estimated |-> Estimated(c),
   score |-> Got(c, "score", 0), upto |-> Got(c, "upto", 0)]

TopSeen(c) ==
  [pc |-> TopPhase[c.pc], at |-> Got(c, "from", 0), top |-> AsBoard(Got(c, "entries", <<>>)),
   ranks |-> ByTalent(Got(c, "entries", <<>>), Got(c, "ranks", <<>>))]

\* The views are those of the refinement mapping.
LEMMA SeenCalls ==
  /\ RanksSeen = [r \in RankCalls |-> RankSeen(call[r])]
  /\ TopsSeen = [r \in TopNCalls |-> TopSeen(call[r])]
BY DEF RanksSeen, TopsSeen, RankSeen, TopSeen, Field, Got, Estimated

\* A field is that of the newer record, if it has it.
LEMMA GotOver ==
  ASSUME NEW fields, NEW c, NEW f, NEW unread
  PROVE  Got(Over(fields, c), f, unread)
           = IF f \in DOMAIN fields THEN fields[f] ELSE Got(c, f, unread)
BY DEF Got, Over

\* A call that goes on is seen to go on, and no other call is.
LEMMA CallGoes ==
  ASSUME NEW r \in RankCalls \cup TopNCalls, NEW fields, Goes(r, fields),
         DOMAIN call = RankCalls \cup TopNCalls
  PROVE  /\ DOMAIN call' = RankCalls \cup TopNCalls /\ call'[r] = Over(fields, call[r])
         /\ \A q \in RankCalls \cup TopNCalls : q # r => call'[q] = call[q]
         /\ r \in RankCalls =>
              /\ RanksSeen' = [RanksSeen EXCEPT ![r] = RankSeen(Over(fields, call[r]))]
              /\ TopsSeen' = TopsSeen
         /\ r \in TopNCalls =>
              /\ TopsSeen' = [TopsSeen EXCEPT ![r] = TopSeen(Over(fields, call[r]))]
              /\ RanksSeen' = RanksSeen
<1>1. /\ DOMAIN call' = RankCalls \cup TopNCalls /\ call'[r] = Over(fields, call[r])
      /\ \A q \in RankCalls \cup TopNCalls : q # r => call'[q] = call[q]
  BY DEF Goes
<1>2. /\ RanksSeen' = [q \in RankCalls |-> RankSeen(call'[q])]
      /\ TopsSeen' = [q \in TopNCalls |-> TopSeen(call'[q])]
  BY DEF RanksSeen, TopsSeen, RankSeen, TopSeen, Field, Got, Estimated
<1>3. RankCalls \cap TopNCalls = {}
  BY StoreAssumption
<1> QED  BY <1>1, <1>2, <1>3, SeenCalls

-----------------------------------------------------------------------------
(* The store's invariant *)

\* The tree is a treap at every step.  It holds the board, or all of it but the
\* talent whose improvement is under way.
TreeInv ==
  /\ TreapAt(root) /\ Records
  /\ mu = NoOne => Keys(root) = Board(byID)
  /\ mu # NoOne =>
       LET t == writer[mu].talent
       IN  /\ t \in DOMAIN byID /\ byID[t] = writer[mu].score
           /\ Keys(root) = Board(byID) \ {<<t, byID[t]>>}

WriterStates == [pc : {"idle", "event", "insert", "done"}, talent : Int, score : Int]

WriterInv ==
  /\ mu \in Writers \cup {NoOne}
  /\ writer \in [Writers -> WriterStates]
  /\ \A w \in Writers : writer[w].pc \in {"event", "insert"} <=> mu = w

CollectedInv ==
  /\ collected.busy \in BOOLEAN
  /\ collected.busy => collected.entries \in Seq(Item) /\ OncePerTalent(collected.entries)

RankRead(c, b) ==
  /\ c.pc \in {"idle", "snapshot"} => "fallback" \notin DOMAIN c
  /\ c.pc \notin {"idle", "bad_request", "not_found"} =>
       "talent" \in DOMAIN c /\ c.talent \in DOMAIN b

TopRead(c) ==
  /\ c.pc \in {"idle", "ranks"} => "ranks" \notin DOMAIN c
  /\ c.pc = "ranks" =>
       /\ "entries" \in DOMAIN c
       /\ c.entries \in Seq(Item) /\ OncePerTalent(c.entries)

CallInv ==
  /\ DOMAIN call = RankCalls \cup TopNCalls
  /\ \A r \in RankCalls : RankRead(call[r], byID)
  /\ \A r \in TopNCalls : TopRead(call[r])

StoreInv == TreeInv /\ WriterInv /\ CollectedInv /\ CallInv

-----------------------------------------------------------------------------
(* Lists as boards *)

\* A list that names every talent once is a board: no entry hides another.
LEMMA ListAsBoard ==
  ASSUME NEW e \in Seq(Item), OncePerTalent(e)
  PROVE  /\ DOMAIN AsBoard(e) = {e[i].id : i \in DOMAIN e}
         /\ AsBoard(e) = [t \in {e[i].id : i \in DOMAIN e} |-> AsBoard(e)[t]]
         /\ \A i \in DOMAIN e : AsBoard(e)[e[i].id] = e[i].score
         /\ AsBoard(e) # NoOne
         /\ \A i \in DOMAIN e : (CHOOSE k \in DOMAIN e : e[k].id = e[i].id) = i
<1> DEFINE ids == {e[i].id : i \in DOMAIN e}
<1>1. ASSUME NEW i \in DOMAIN e PROVE (CHOOSE k \in DOMAIN e : e[k].id = e[i].id) = i
  BY DEF OncePerTalent
<1>2. ASSUME NEW i \in DOMAIN e PROVE e[i].id \in Talents /\ e[i].score \in Int
  <2>1. e[i] \in Item
    BY ElementOfSeq, LenProperties
  <2> QED  BY <2>1 DEF Item
<1>3. AsBoard(e) = [t \in ids |-> e[CHOOSE k \in DOMAIN e : e[k].id = t].score]
  BY DEF AsBoard
<1>4. ASSUME NEW i \in DOMAIN e PROVE AsBoard(e)[e[i].id] = e[i].score
  <2>1. e[i].id \in ids
    OBVIOUS
  <2> HIDE DEF ids
  <2>2. AsBoard(e)[e[i].id] = e[CHOOSE k \in DOMAIN e : e[k].id = e[i].id].score
    BY <1>3, <2>1
  <2> QED  BY <1>1, <2>2
<1>5. AsBoard(e) # NoOne
  <2>1. AsBoard(e) \in [ids -> Int]
    BY <1>2, <1>3, <1>4
  <2>2. ids \in SUBSET Talents
    BY <1>2
  <2> QED  BY <2>1, <2>2, StoreAssumption
<1> QED  BY <1>1, <1>3, <1>4, <1>5

\* PlacesOn, as it is used here.
LEMMA OnTheBoard ==
  ASSUME NEW e, InOrder(e, Board(byID))
  PROVE  /\ \A i \in 1..Len(e) : /\ e[i].id \in DOMAIN byID /\ e[i].score = byID[e[i].id]
                                 /\ Cardinality(AboveOn(byID, e[i].id)) = i - 1
         /\ \A t \in DOMAIN byID : \E i \in 1..Len(e) : e[i].id = t
         /\ \A i, j \in 1..Len(e) : e[i].id = e[j].id => i = j
<1>1. /\ \A i \in 1..Len(e) : /\ e[i].id \in DOMAIN byID /\ e[i].score = byID[e[i].id]
                              /\ e[i] = [id |-> e[i].id, score |-> byID[e[i].id]]
                              /\ Cardinality(AboveOn(byID, e[i].id)) = i - 1
      /\ \A t \in DOMAIN byID : \E i \in 1..Len(e) : e[i].id = t
      /\ \A i, j \in 1..Len(e) : e[i].id = e[j].id => i = j
  BY PlacesOn
<1> QED  BY <1>1

\* What the updater collects is the board.
LEMMA CollectedBoard ==
  ASSUME RootInv
  PROVE  LET e == collectAllEntries(byID, root)
         IN  e \in Seq(Item) /\ OncePerTalent(e) /\ AsBoard(e) = byID
<1> DEFINE e == collectAllEntries(byID, root)
<1>1. InOrder(e, Board(byID)) /\ Records
  BY RecordsAgree, CollectionIsInOrder
<1> HIDE DEF e
<1>2. e \in Seq(Item) /\ Len(e) \in Nat /\ DOMAIN e = 1..Len(e)
  BY <1>1 DEF InOrder
<1>3. /\ \A i \in DOMAIN e : e[i].id \in DOMAIN byID /\ e[i].score = byID[e[i].id]
      /\ \A t \in DOMAIN byID : \E i \in DOMAIN e : e[i].id = t
      /\ OncePerTalent(e)
  <2>1. /\ \A i \in 1..Len(e) : /\ e[i].id \in DOMAIN byID /\ e[i].score = byID[e[i].id]
                                /\ Cardinality(AboveOn(byID, e[i].id)) = i - 1
        /\ \A t \in DOMAIN byID : \E i \in 1..Len(e) : e[i].id = t
        /\ \A i, j \in 1..Len(e) : e[i].id = e[j].id => i = j
    BY <1>1, OnTheBoard
  <2> QED  BY <1>2, <2>1 DEF OncePerTalent
<1>4. DOMAIN byID = {e[i].id : i \in DOMAIN e}
  BY <1>3
<1>5. /\ AsBoard(e) = [t \in {e[i].id : i \in DOMAIN e} |-> AsBoard(e)[t]]
      /\ \A i \in DOMAIN e : AsBoard(e)[e[i].id] = e[i].score
  BY <1>2, <1>3, ListAsBoard
<1>6. \A t \in DOMAIN byID : AsBoard(e)[t] = byID[t]
  BY <1>3, <1>5
<1>7. AsBoard(e) = byID
  <2>1. AsBoard(e) = [t \in DOMAIN byID |-> AsBoard(e)[t]]
    BY <1>4, <1>5
  <2> QED  BY <1>1, <1>6, <2>1 DEF Records
<1> QED  BY <1>2, <1>3, <1>7 DEF e

\* What TopN collects is the top of the board.
LEMMA CollectedTop ==
  ASSUME RootInv
  PROVE  LET e == collectTopN(byID, root, Limit)
         IN  e \in Seq(Item) /\ OncePerTalent(e) /\ AsBoard(e) = Promise!TopOf(byID)
<1> DEFINE all == collectAllEntries(byID, root)
           e == collectTopN(byID, root, Limit)
           top == {t \in DOMAIN byID : Promise!Place(byID, t) <= Limit}
<1>0. Limit \in Nat
  BY StoreAssumption
<1>1. InOrder(all, Board(byID)) /\ Records /\ e = Cut(all, Limit)
  BY <1>0, RecordsAgree, CollectionIsInOrder, TopNCutsTheCollection
<1> HIDE DEF e, all
<1>2. all \in Seq(Item) /\ Len(all) \in Nat
  BY <1>1 DEF InOrder
<1>3. /\ e \in Seq(Item) /\ Len(e) = IF Len(all) < Limit THEN Len(all) ELSE Limit
      /\ \A i \in 1..Len(e) : e[i] = all[i]
  BY <1>0, <1>1, <1>2, CutIsPrefix DEF Cut
<1>4. DOMAIN e = 1..Len(e) /\ \A i \in DOMAIN e : i \in 1..Len(all) /\ i <= Limit /\ e[i] = all[i]
  BY <1>0, <1>2, <1>3
<1>5. /\ \A i \in 1..Len(all) : /\ all[i].id \in DOMAIN byID /\ all[i].score = byID[all[i].id]
                                /\ Cardinality(AboveOn(byID, all[i].id)) = i - 1
      /\ \A t \in DOMAIN byID : \E i \in 1..Len(all) : all[i].id = t
      /\ \A i, j \in 1..Len(all) : all[i].id = all[j].id => i = j
  BY <1>1, OnTheBoard
<1>6. OncePerTalent(e)
  BY <1>4, <1>5 DEF OncePerTalent
<1>7. ASSUME NEW i \in 1..Len(all) PROVE Promise!Place(byID, all[i].id) = i
  <2>1. Cardinality(AboveOn(byID, all[i].id)) = i - 1
    BY <1>5
  <2> QED  BY <1>2, <2>1, PlaceOnBoard
<1>8. top = {e[i].id : i \in DOMAIN e}
  <2>1. ASSUME NEW i \in DOMAIN e PROVE e[i].id \in top
    <3>1. i \in 1..Len(all) /\ i <= Limit /\ e[i].id = all[i].id
      BY <1>4
    <3>2. all[i].id \in DOMAIN byID /\ Promise!Place(byID, all[i].id) <= Limit
      BY <1>5, <1>7, <3>1
    <3> QED  BY <3>1, <3>2
  <2>2. ASSUME NEW t \in top PROVE \E i \in DOMAIN e : e[i].id = t
    <3>1. PICK i \in 1..Len(all) : all[i].id = t
      BY <1>5
    <3>2. i <= Limit
      BY <1>7, <3>1
    <3>3. i \in DOMAIN e
      BY <1>0, <1>2, <1>3, <1>4, <3>2
    <3> QED  BY <1>4, <3>1, <3>3
  <2> QED  BY <2>1, <2>2
<1>9. Promise!TopOf(byID) = [t \in top |-> byID[t]]
  BY DEF Promise!TopOf
<1> HIDE DEF top
<1>10. /\ AsBoard(e) = [t \in {e[i].id : i \in DOMAIN e} |-> AsBoard(e)[t]]
       /\ \A i \in DOMAIN e : AsBoard(e)[e[i].id] = e[i].score
  BY <1>3, <1>6, ListAsBoard
<1>11. \A i \in DOMAIN e : e[i].score = byID[e[i].id]
  BY <1>4, <1>5
<1>12. AsBoard(e) = Promise!TopOf(byID)
  <2>1. AsBoard(e) = [t \in top |-> AsBoard(e)[t]]
    BY <1>8, <1>10
  <2>2. \A t \in top : AsBoard(e)[t] = byID[t]
    BY <1>8, <1>10, <1>11
  <2> QED  BY <1>9, <2>1, <2>2
<1> QED  BY <1>3, <1>6, <1>12 DEF e

\* The rank of a list's entry is its talent's rank on the list as a board.
LEMMA ListRanks ==
  ASSUME NEW e \in Seq(Item), OncePerTalent(e)
  PROVE  /\ DOMAIN assignRanksWithTies(e) = DOMAIN e
         /\ DOMAIN Promise!RanksOf(AsBoard(e)) = {e[i].id : i \in DOMAIN e}
         /\ Promise!RanksOf(AsBoard(e))
              = [t \in {e[i].id : i \in DOMAIN e} |-> Promise!RanksOf(AsBoard(e))[t]]
         /\ \A i \in DOMAIN e : assignRanksWithTies(e)[i] = Promise!RanksOf(AsBoard(e))[e[i].id]
<1> DEFINE b == AsBoard(e)
           ids == {e[i].id : i \in DOMAIN e}
<1>1. DOMAIN b = ids /\ \A i \in DOMAIN e : b[e[i].id] = e[i].score
  BY ListAsBoard
<1> HIDE DEF b
<1>2. Promise!RanksOf(b)
        = [t \in DOMAIN b |-> 1 + Cardinality({u \in DOMAIN b : b[u] > b[t]})]
  BY RanksOnBoard
<1>3. ASSUME NEW i \in DOMAIN e
      PROVE  assignRanksWithTies(e)[i] = Promise!RanksOf(b)[e[i].id]
  <2>1. assignRanksWithTies(e)[i] = 1 + Cardinality(Better(e, e[i].score))
    BY RanksCountTheBetter
  <2>2. Cardinality(Better(e, e[i].score)) = Cardinality({u \in DOMAIN b : b[u] > e[i].score})
    <3> DEFINE s == e[i].score
    <3> HIDE DEF s
    <3>1. Cardinality(Better(e, s)) = Cardinality({u \in DOMAIN b : b[u] > s})
      BY <1>1, BetterTalents
    <3> QED  BY <3>1 DEF s
  <2>3. b[e[i].id] = e[i].score /\ e[i].id \in DOMAIN b
    BY <1>1
  <2>4. Promise!RanksOf(b)[e[i].id] = 1 + Cardinality({u \in DOMAIN b : b[u] > b[e[i].id]})
    BY <1>2, <2>3
  <2> QED  BY <2>1, <2>2, <2>3, <2>4
<1>4. DOMAIN assignRanksWithTies(e) = DOMAIN e
  <2>1. PICK rank : assignRanksWithTies(e) = [j \in DOMAIN e |-> rank[e[j].score]]
    BY RankRecursion
  <2> QED  BY <2>1
<1> HIDE DEF ids
<1>5. DOMAIN Promise!RanksOf(b) = ids /\ Promise!RanksOf(b) = [t \in ids |-> Promise!RanksOf(b)[t]]
  BY <1>1, <1>2
<1> QED  BY <1>3, <1>4, <1>5 DEF b, ids

-----------------------------------------------------------------------------
(* Updates *)

Copy == IF collected.busy THEN AsBoard(collected.entries) ELSE NoOne

\* While nobody updates, the tree holds the whole board.
LEMMA WholeTree ==
  ASSUME TreeInv, mu = NoOne
  PROVE  RootInv
BY DEF TreeInv, RootInv

\* Readers and updater take no notice of an update.
LEMMA Undisturbed ==
  ASSUME CallInv, CollectedInv, UNCHANGED <<call, ranking>>, DOMAIN byID \subseteq DOMAIN byID'
  PROVE  /\ CallInv' /\ CollectedInv'
         /\ Copy' = Copy /\ rankSnapshot' = rankSnapshot
         /\ RanksSeen' = RanksSeen /\ TopsSeen' = TopsSeen
<1>1. /\ call' = call /\ collected' = collected /\ rankSnapshot' = rankSnapshot
      /\ \A r \in RankCalls : call'[r] = call[r]
  BY DEF ranking
<1>2. CallInv'
  BY <1>1 DEF CallInv, RankRead, TopRead
<1>3. CollectedInv' /\ Copy' = Copy
  BY <1>1 DEF CollectedInv, Copy
<1>4. RanksSeen' = RanksSeen /\ TopsSeen' = TopsSeen
  BY <1>1 DEF RanksSeen, TopsSeen, Field
<1> QED  BY <1>1, <1>2, <1>3, <1>4

\* An update carries a talent and a number.
LEMMA UpdatedScore ==
  ASSUME NEW u \in Updates
  PROVE  /\ u[1] \in Talents /\ u[1] \in Int /\ toFixedPoint(u[2]) \in Int
         /\ toFixedPoint(u[2]) \in {toFixedPoint(v[2]) : v \in Updates}
<1>1. u[1] \in Talents /\ IsFloat(u[2])
  BY StoreAssumption
<1>2. toFixedPoint(u[2]) \in Int
  BY <1>1, FixedPointIsNumber
<1> QED  BY <1>1, <1>2, TreapAssumption

\* What an update does for Board: it raises a score, or nothing.
LEMMA RaisesBoard ==
  ASSUME NEW t \in Talents, NEW s \in {toFixedPoint(v[2]) : v \in Updates},
         t \in DOMAIN byID => s > byID[t],
         byID' = [x \in DOMAIN byID \cup {t} |-> IF x = t THEN s ELSE byID[x]],
         boards' = Append(boards, byID'),
         Copy' = Copy, rankSnapshot' = rankSnapshot,
         RanksSeen' = RanksSeen, TopsSeen' = TopsSeen
  PROVE  Promise!Next
<1>1. Promise!Raise(t, s)
  BY DEF Promise!Raise, Copy
<1> QED  BY <1>1 DEF Promise!Next

\* What Board sees is the same.
LEMMA SameBoard ==
  ASSUME UNCHANGED <<byID, boards, rankSnapshot>>, Copy' = Copy,
         RanksSeen' = RanksSeen, TopsSeen' = TopsSeen
  PROVE  UNCHANGED Promise!boardVars
BY DEF Promise!boardVars, Copy

\* A writer moves on, and takes mu or gives it up as its place requires.
LEMMA WriterMoves ==
  ASSUME WriterInv, NEW w \in Writers, NEW x \in WriterStates,
         writer' = [writer EXCEPT ![w] = x], mu \in {w, NoOne}, mu' \in {w, NoOne},
         x.pc \in {"event", "insert"} <=> mu' = w
  PROVE  /\ WriterInv' /\ writer'[w] = x /\ w # NoOne
         /\ \A v \in Writers : v # w => writer'[v] = writer[v]
<1>1. /\ writer' \in [Writers -> WriterStates]
      /\ writer'[w] = x /\ \A v \in Writers : v # w => writer'[v] = writer[v]
  BY DEF WriterInv
<1>2. NoOne \notin Writers
  BY StoreAssumption
<1>3. ASSUME NEW v \in Writers PROVE writer'[v].pc \in {"event", "insert"} <=> mu' = v
  <2>1. CASE v = w
    BY <1>1, <2>1
  <2>2. CASE v # w
    <3>1. writer[v].pc \in {"event", "insert"} <=> mu = v
      BY DEF WriterInv
    <3>2. mu # v /\ mu' # v
      BY <1>2, <2>2
    <3> QED  BY <1>1, <2>2, <3>1, <3>2
  <2> QED  BY <2>1, <2>2
<1> QED  BY <1>1, <1>2, <1>3 DEF WriterInv

\* A new record raises the board, and the tree holds it all.
LEMMA CreateStep ==
  ASSUME StoreInv, NEW w \in Writers, NEW t \in Talents,
         NEW ns \in {toFixedPoint(v[2]) : v \in Updates}, ns \in Int, CreateRecord(w, t, ns)
  PROVE  StoreInv' /\ Promise!Next
<1>1. /\ mu = NoOne /\ mu' = NoOne /\ NewTalent(t, ns) /\ t \in Int
      /\ t \notin DOMAIN byID
      /\ byID' = [u \in DOMAIN byID \cup {t} |-> IF u = t THEN ns ELSE byID[u]]
      /\ writer[w].pc = "idle"
      /\ writer' = [writer EXCEPT ![w] = [pc |-> "done", talent |-> t, score |-> ns]]
      /\ UNCHANGED <<call, ranking>>
      /\ boards' = Append(boards, byID')
  BY TreapAssumption DEF CreateRecord, CanLock, NewTalent, WriterAt, Written
<1>2. RootInv'
  BY <1>1, WholeTree, RootInvNewTalent DEF StoreInv
<1>3. TreeInv'
  BY <1>1, <1>2 DEF RootInv, TreeInv
<1>4. WriterInv'
  <2> DEFINE x == [pc |-> "done", talent |-> t, score |-> ns]
  <2>1. x \in WriterStates
    BY <1>1 DEF WriterStates
  <2>2. x.pc = "done" /\ w # NoOne
    BY StoreAssumption
  <2>3. writer' = [writer EXCEPT ![w] = x]
    BY <1>1
  <2> HIDE DEF x
  <2> QED  BY <1>1, <2>1, <2>2, <2>3, WriterMoves DEF StoreInv
<1>5. /\ CallInv' /\ CollectedInv'
      /\ Copy' = Copy /\ rankSnapshot' = rankSnapshot
      /\ RanksSeen' = RanksSeen /\ TopsSeen' = TopsSeen
  BY <1>1, Undisturbed DEF StoreInv
<1>6. Promise!Next
  BY <1>1, <1>5, RaisesBoard
<1> QED  BY <1>3, <1>4, <1>5, <1>6 DEF StoreInv

\* A score that is no better changes nothing.
LEMMA LeaveStep ==
  ASSUME StoreInv, NEW w \in Writers, NEW t \in Int, NEW ns \in Int, LeaveRecord(w, t, ns)
  PROVE  StoreInv' /\ UNCHANGED Promise!boardVars
<1>1. /\ mu = NoOne /\ mu' = NoOne /\ UNCHANGED <<root, byID, boards>>
      /\ writer[w].pc = "idle"
      /\ writer' = [writer EXCEPT ![w] = [pc |-> "done", talent |-> t, score |-> ns]]
      /\ UNCHANGED <<call, ranking>>
  BY DEF LeaveRecord, CanLock, NotAnImprovement, WriterAt, vars, history
<1>2. TreeInv'
  BY <1>1 DEF StoreInv, TreeInv, Records
<1>3. WriterInv'
  <2> DEFINE x == [pc |-> "done", talent |-> t, score |-> ns]
  <2>1. x \in WriterStates
    BY <1>1 DEF WriterStates
  <2>2. x.pc = "done" /\ w # NoOne
    BY StoreAssumption
  <2>3. writer' = [writer EXCEPT ![w] = x]
    BY <1>1
  <2> HIDE DEF x
  <2> QED  BY <1>1, <2>1, <2>2, <2>3, WriterMoves DEF StoreInv
<1>4. /\ CallInv' /\ CollectedInv'
      /\ Copy' = Copy /\ rankSnapshot' = rankSnapshot
      /\ RanksSeen' = RanksSeen /\ TopsSeen' = TopsSeen
  BY <1>1, Undisturbed DEF StoreInv
<1>5. UNCHANGED Promise!boardVars
  BY <1>1, <1>4, SameBoard
<1> QED  BY <1>2, <1>3, <1>4, <1>5 DEF StoreInv

\* An improvement raises the board, and takes the talent out of the tree.
LEMMA ImproveScoreStep ==
  ASSUME StoreInv, NEW w \in Writers, NEW t \in Talents,
         NEW ns \in {toFixedPoint(v[2]) : v \in Updates}, ns \in Int, ImproveScore(w, t, ns)
  PROVE  StoreInv' /\ Promise!Next
<1> DEFINE old == byID[t]
<1>1. /\ mu = NoOne /\ mu' = w /\ t \in DOMAIN byID /\ ns > old /\ t \in Int
      /\ root' = deleteNode(root, t, old)
      /\ byID' = [byID EXCEPT ![t] = ns]
      /\ writer[w].pc = "idle"
      /\ writer' = [writer EXCEPT ![w] = [pc |-> "event", talent |-> t, score |-> ns]]
      /\ UNCHANGED <<call, ranking>>
      /\ boards' = Append(boards, byID')
  BY TreapAssumption DEF ImproveScore, CanLock, WriterAt, Written
<1>2. TreapAt(root) /\ Records /\ Keys(root) = Board(byID) /\ old \in Int
  BY <1>1, WholeTree DEF StoreInv, RootInv, Records
<1>3. /\ DOMAIN byID' = DOMAIN byID /\ byID'[t] = ns
      /\ \A u \in DOMAIN byID : u # t => byID'[u] = byID[u]
      /\ byID' = [u \in DOMAIN byID \cup {t} |-> IF u = t THEN ns ELSE byID[u]]
  BY <1>1, <1>2 DEF Records
<1>4. Records'
  BY <1>1, <1>2, <1>3 DEF Records
<1>5. TreapAt(root') /\ Keys(root') = Board(byID) \ {<<t, old>>}
  BY <1>1, <1>2, DeleteKeepsTreap
<1>6. Board(byID') \ {<<t, ns>>} = Board(byID) \ {<<t, old>>}
  <2>1. ASSUME NEW k \in Board(byID'), k # <<t, ns>> PROVE k \in Board(byID) \ {<<t, old>>}
    BY <1>3, <2>1 DEF Board
  <2>2. ASSUME NEW k \in Board(byID), k # <<t, old>> PROVE k \in Board(byID') \ {<<t, ns>>}
    BY <1>3, <2>2 DEF Board
  <2> QED  BY <2>1, <2>2
<1>7. WriterInv' /\ writer'[w] = [pc |-> "event", talent |-> t, score |-> ns] /\ w # NoOne
  <2> DEFINE x == [pc |-> "event", talent |-> t, score |-> ns]
  <2>1. x \in WriterStates
    BY <1>1 DEF WriterStates
  <2>2. x.pc = "event" /\ w # NoOne
    BY StoreAssumption
  <2>3. writer' = [writer EXCEPT ![w] = x]
    BY <1>1
  <2> HIDE DEF x
  <2>4. WriterInv' /\ writer'[w] = x
    BY <1>1, <2>1, <2>2, <2>3, WriterMoves DEF StoreInv
  <2> QED  BY <2>2, <2>4 DEF x
<1>8. TreeInv'
  <2>1. mu' = w /\ w # NoOne /\ writer'[mu'].talent = t /\ writer'[mu'].score = ns
    BY <1>1, <1>7
  <2>2. Keys(root') = Board(byID') \ {<<t, byID'[t]>>} /\ t \in DOMAIN byID' /\ byID'[t] = ns
    BY <1>1, <1>3, <1>5, <1>6
  <2> QED  BY <1>4, <1>5, <2>1, <2>2 DEF TreeInv
<1>9. /\ CallInv' /\ CollectedInv'
      /\ Copy' = Copy /\ rankSnapshot' = rankSnapshot
      /\ RanksSeen' = RanksSeen /\ TopsSeen' = TopsSeen
  BY <1>1, <1>3, Undisturbed DEF StoreInv
<1>10. Promise!Next
  BY <1>1, <1>3, <1>9, RaisesBoard
<1> QED  BY <1>7, <1>8, <1>9, <1>10 DEF StoreInv

\* The metadata are nothing to the board.
LEMMA ImproveEventStep ==
  ASSUME StoreInv, NEW w \in Writers, ImproveEvent(w)
  PROVE  StoreInv' /\ UNCHANGED Promise!boardVars
<1>1. /\ UNCHANGED <<root, byID, mu, boards>>
      /\ writer[w].pc = "event"
      /\ writer' = [writer EXCEPT ![w].pc = "insert"]
      /\ UNCHANGED <<call, ranking>>
  BY DEF ImproveEvent, history
<1>2. /\ mu = w /\ WriterInv'
      /\ writer'[w].talent = writer[w].talent /\ writer'[w].score = writer[w].score
  <2> DEFINE x == [writer[w] EXCEPT !.pc = "insert"]
  <2>1. mu = w /\ writer[w] \in WriterStates
    BY <1>1 DEF StoreInv, WriterInv
  <2>2. /\ x = [pc |-> "insert", talent |-> writer[w].talent, score |-> writer[w].score]
        /\ writer[w].talent \in Int /\ writer[w].score \in Int
    BY <2>1 DEF WriterStates
  <2>3. writer' = [writer EXCEPT ![w] = x]
    BY <1>1
  <2> HIDE DEF x
  <2>4. x \in WriterStates /\ x.pc = "insert"
    BY <2>2 DEF WriterStates
  <2>5. WriterInv' /\ writer'[w] = x
    BY <1>1, <2>1, <2>3, <2>4, WriterMoves DEF StoreInv
  <2> QED  BY <2>1, <2>2, <2>5
<1>3. TreeInv'
  BY <1>1, <1>2 DEF StoreInv, TreeInv, Records
<1>5. /\ CallInv' /\ CollectedInv'
      /\ Copy' = Copy /\ rankSnapshot' = rankSnapshot
      /\ RanksSeen' = RanksSeen /\ TopsSeen' = TopsSeen
  BY <1>1, Undisturbed DEF StoreInv
<1>6. UNCHANGED Promise!boardVars
  BY <1>1, <1>5, SameBoard
<1> QED  BY <1>2, <1>3, <1>5, <1>6 DEF StoreInv

\* The insertion makes the tree whole again; the board had its talent all along.
LEMMA ImproveTreeStep ==
  ASSUME StoreInv, NEW w \in Writers, ImproveTree(w)
  PROVE  StoreInv' /\ UNCHANGED Promise!boardVars
<1> DEFINE t == writer[w].talent
           s == writer[w].score
<1>1. /\ UNCHANGED <<byID, boards>> /\ mu' = NoOne
      /\ root' = insert(root, t, s)
      /\ writer[w].pc = "insert"
      /\ writer' = [writer EXCEPT ![w].pc = "done"]
      /\ UNCHANGED <<call, ranking>>
  BY DEF ImproveTree, history
<1>2. mu = w /\ w # NoOne
  BY <1>1, StoreAssumption DEF StoreInv, WriterInv
<1>3. /\ TreapAt(root) /\ Records
      /\ t \in DOMAIN byID /\ byID[t] = s /\ Keys(root) = Board(byID) \ {<<t, s>>}
  BY <1>2 DEF StoreInv, TreeInv
<1>4. t \in Talents /\ s \in Int /\ <<t, s>> \in Board(byID) /\ <<t, s>> \notin Keys(root)
  BY <1>3 DEF Records, Board
<1> HIDE DEF t, s
<1>5. TreapAt(root') /\ Keys(root') = Board(byID)
  <2>1. TreapAt(root') /\ Keys(root') = {<<t, s>>} \cup Keys(root)
    BY <1>1, <1>3, <1>4, InsertKeepsTreap
  <2> QED  BY <1>3, <1>4, <2>1
<1>6. TreeInv'
  BY <1>1, <1>3, <1>5 DEF TreeInv, Records
<1>7. WriterInv'
  <2> DEFINE x == [writer[w] EXCEPT !.pc = "done"]
  <2>1. writer[w] \in WriterStates
    BY DEF StoreInv, WriterInv
  <2>2. /\ x = [pc |-> "done", talent |-> writer[w].talent, score |-> writer[w].score]
        /\ writer[w].talent \in Int /\ writer[w].score \in Int
    BY <2>1 DEF WriterStates
  <2>3. writer' = [writer EXCEPT ![w] = x]
    BY <1>1
  <2> HIDE DEF x
  <2>4. x \in WriterStates /\ x.pc = "done"
    BY <2>2 DEF WriterStates
  <2> QED  BY <1>1, <1>2, <2>3, <2>4, WriterMoves DEF StoreInv
<1>8. /\ CallInv' /\ CollectedInv'
      /\ Copy' = Copy /\ rankSnapshot' = rankSnapshot
      /\ RanksSeen' = RanksSeen /\ TopsSeen' = TopsSeen
  BY <1>1, Undisturbed DEF StoreInv
<1>9. UNCHANGED Promise!boardVars
  BY <1>1, <1>8, SameBoard
<1> QED  BY <1>6, <1>7, <1>8, <1>9 DEF StoreInv

-----------------------------------------------------------------------------
(* Rank *)

\* What Board sees of a call of Rank, field by field.
LEMMA RankSeenOver ==
  ASSUME NEW f, NEW c, "pc" \in DOMAIN f
  PROVE  RankSeen(Over(f, c)) =
           [pc |-> RankPhase[f.pc],
            talent |-> IF "talent" \in DOMAIN f THEN f.talent ELSE Got(c, "talent", 0),
            from |-> IF "from" \in DOMAIN f THEN f.from ELSE Got(c, "from", 0),
            rank |-> IF "rank" \in DOMAIN f THEN f.rank ELSE Got(c, "rank", 0),
            estimated |-> IF "fallback" \in DOMAIN f THEN f.fallback ELSE Estimated(c),
            score |-> IF "score" \in DOMAIN f THEN f.score ELSE Got(c, "score", 0),
            upto |-> IF "upto" \in DOMAIN f THEN f.upto ELSE Got(c, "upto", 0)]
<1>1. Over(f, c).pc = f.pc
  BY DEF Over
<1>2. /\ Got(Over(f, c), "talent", 0)
           = IF "talent" \in DOMAIN f THEN f["talent"] ELSE Got(c, "talent", 0)
      /\ Got(Over(f, c), "from", 0)
           = IF "from" \in DOMAIN f THEN f["from"] ELSE Got(c, "from", 0)
      /\ Got(Over(f, c), "rank", 0) = IF "rank" \in DOMAIN f THEN f["rank"] ELSE Got(c, "rank", 0)
  BY GotOver
<1>3. Estimated(Over(f, c))
        = IF "fallback" \in DOMAIN f THEN f["fallback"] ELSE Estimated(c)
  BY DEF Estimated, Over
<1>4. /\ Got(Over(f, c), "score", 0)
           = IF "score" \in DOMAIN f THEN f["score"] ELSE Got(c, "score", 0)
      /\ Got(Over(f, c), "upto", 0) = IF "upto" \in DOMAIN f THEN f["upto"] ELSE Got(c, "upto", 0)
  BY GotOver
<1> QED  BY <1>1, <1>2, <1>3, <1>4 DEF RankSeen

\* The view is a record.
LEMMA SeenFields ==
  ASSUME NEW c
  PROVE  /\ DOMAIN RankSeen(c) = {"pc", "talent", "from", "rank", "estimated", "score", "upto"}
         /\ RankSeen(c) = [i \in DOMAIN RankSeen(c) |-> RankSeen(c)[i]]
         /\ RankSeen(c).pc = RankPhase[c.pc]
         /\ RankSeen(c).talent = Got(c, "talent", 0) /\ RankSeen(c).from = Got(c, "from", 0)
         /\ RankSeen(c).rank = Got(c, "rank", 0) /\ RankSeen(c).estimated = Estimated(c)
         /\ RankSeen(c).score = Got(c, "score", 0) /\ RankSeen(c).upto = Got(c, "upto", 0)
BY DEF RankSeen

\* Reading changes nothing but the call.
LEMMA StoreRests ==
  ASSUME StoreInv, UNCHANGED <<store, writer, ranking, history>>
  PROVE  /\ TreeInv' /\ WriterInv' /\ CollectedInv' /\ Copy' = Copy
         /\ byID' = byID /\ boards' = boards /\ rankSnapshot' = rankSnapshot
<1>1. UNCHANGED <<root, byID, mu, writer, collected, rankSnapshot, boards>>
  BY DEF store, ranking, history
<1>2. TreeInv'
  BY <1>1 DEF StoreInv, TreeInv, Records
<1>3. WriterInv'
  BY <1>1 DEF StoreInv, WriterInv
<1>4. CollectedInv' /\ Copy' = Copy
  BY <1>1 DEF StoreInv, CollectedInv, Copy
<1> QED  BY <1>1, <1>2, <1>3, <1>4

\* A step of Rank that only changes the call.
LEMMA RankGoesOn ==
  ASSUME StoreInv, NEW r \in RankCalls, NEW f, Goes(r, f), RankRead(Over(f, call[r]), byID),
         UNCHANGED <<store, writer, ranking, history>>
  PROVE  /\ StoreInv' /\ RanksSeen[r] = RankSeen(call[r])
         /\ Promise!RankGoes(r, RankSeen(Over(f, call[r])))
<1>1. DOMAIN call = RankCalls \cup TopNCalls /\ r \notin TopNCalls
  BY StoreAssumption DEF StoreInv, CallInv
<1>2. /\ DOMAIN call' = RankCalls \cup TopNCalls /\ call'[r] = Over(f, call[r])
      /\ \A q \in RankCalls \cup TopNCalls : q # r => call'[q] = call[q]
      /\ RanksSeen' = [RanksSeen EXCEPT ![r] = RankSeen(Over(f, call[r]))]
      /\ TopsSeen' = TopsSeen
  BY <1>1, CallGoes
<1>3. /\ TreeInv' /\ WriterInv' /\ CollectedInv' /\ Copy' = Copy
      /\ byID' = byID /\ boards' = boards /\ rankSnapshot' = rankSnapshot
  BY StoreRests
<1>4. CallInv'
  <2>1. ASSUME NEW q \in RankCalls PROVE RankRead(call'[q], byID)
    <3>1. CASE q = r
      BY <1>2, <3>1
    <3>2. CASE q # r
      BY <1>2, <3>2 DEF StoreInv, CallInv
    <3> QED  BY <3>1, <3>2
  <2>2. ASSUME NEW q \in TopNCalls PROVE TopRead(call'[q])
    BY <1>1, <1>2 DEF StoreInv, CallInv
  <2> QED  BY <1>2, <1>3, <2>1, <2>2 DEF CallInv
<1>5. Promise!RankGoes(r, RankSeen(Over(f, call[r])))
  BY <1>2, <1>3 DEF Promise!RankGoes, Copy
<1>6. RanksSeen[r] = RankSeen(call[r])
  BY SeenCalls
<1> QED  BY <1>3, <1>4, <1>5, <1>6 DEF StoreInv

\* A refused call is idle for Board.
LEMMA RefuseRank ==
  ASSUME StoreInv, NEW r \in RankCalls, BadRequest(r)
  PROVE  StoreInv' /\ UNCHANGED Promise!boardVars
<1> DEFINE c == call[r]
           f == [pc |-> "bad_request"]
           d == Over(f, c)
<1>1. /\ c.pc = "idle" /\ RankRead(c, byID) /\ Goes(r, f)
      /\ UNCHANGED <<store, writer, ranking, history>>
  BY DEF BadRequest, StoreInv, CallInv
<1>2. d.pc = "bad_request"
  BY DEF Over
<1>3. RankSeen(d) = RankSeen(c)
  <2>1. DOMAIN f = {"pc"} /\ f.pc = "bad_request"
    OBVIOUS
  <2> HIDE DEF f, c
  <2>2. RankSeen(d) =
          [pc |-> RankPhase["bad_request"], talent |-> Got(c, "talent", 0),
           from |-> Got(c, "from", 0), rank |-> Got(c, "rank", 0),
           estimated |-> Estimated(c), score |-> Got(c, "score", 0),
           upto |-> Got(c, "upto", 0)]
    BY <2>1, RankSeenOver
  <2>3. RankPhase["bad_request"] = "idle" /\ RankPhase["idle"] = "idle"
    BY DEF RankPhase
  <2> HIDE DEF d
  <2> QED  BY <1>1, <2>2, <2>3 DEF RankSeen
<1> HIDE DEF c, f, d
<1>4. RankRead(d, byID)
  BY <1>2 DEF RankRead
<1>5. /\ StoreInv' /\ RanksSeen[r] = RankSeen(call[r])
      /\ Promise!RankGoes(r, RankSeen(Over(f, call[r])))
  BY <1>1, <1>4, RankGoesOn DEF d, c
<1>6. Promise!RankGoes(r, RanksSeen[r])
  BY <1>3, <1>5 DEF d, c
<1>7. RanksSeen' = RanksSeen
  BY <1>6, SeenCalls DEF Promise!RankGoes
<1> QED  BY <1>5, <1>6, <1>7 DEF Promise!RankGoes, Promise!boardVars

\* FindRecord is Find.
LEMMA FindStep ==
  ASSUME StoreInv, NEW r \in RankCalls, NEW t \in Talents, FindRecord(r, t)
  PROVE  StoreInv' /\ Promise!Next
<1> DEFINE c == call[r]
           f == IF t \in DOMAIN byID
                THEN [pc |-> "snapshot", talent |-> t, from |-> Len(boards)]
                ELSE [pc |-> "not_found"]
           d == Over(f, c)
<1>1. /\ c.pc = "idle" /\ RankRead(c, byID) /\ Goes(r, f)
      /\ UNCHANGED <<store, writer, ranking, history>>
  BY DEF FindRecord, StoreInv, CallInv
<1>2. CASE t \in DOMAIN byID
  <2>1. f = [pc |-> "snapshot", talent |-> t, from |-> Len(boards)]
    BY <1>2
  <2> HIDE DEF f
  <2>2. d.pc = "snapshot" /\ d.talent = t /\ "talent" \in DOMAIN d /\ "fallback" \notin DOMAIN d
    BY <1>1, <2>1 DEF Over, RankRead
  <2>3. RankSeen(d) = [RankSeen(c) EXCEPT !.pc = "found", !.talent = t, !.from = Len(boards)]
    <3>1. /\ DOMAIN f = {"pc", "talent", "from"}
          /\ f.pc = "snapshot" /\ f.talent = t /\ f.from = Len(boards)
      BY <2>1
    <3> HIDE DEF c
    <3>2. RankSeen(d) =
            [pc |-> RankPhase["snapshot"], talent |-> t,
             from |-> Len(boards), rank |-> Got(c, "rank", 0),
             estimated |-> Estimated(c), score |-> Got(c, "score", 0),
             upto |-> Got(c, "upto", 0)]
      BY <3>1, RankSeenOver
    <3>3. RankPhase["snapshot"] = "found"
      BY DEF RankPhase
    <3> HIDE DEF d
    <3> DEFINE R == RankSeen(c)
               n == Len(boards)
               e == [R EXCEPT !.pc = "found", !.talent = t, !.from = n]
    <3>4. /\ DOMAIN R = {"pc", "talent", "from", "rank", "estimated", "score", "upto"}
          /\ R = [i \in DOMAIN R |-> R[i]]
          /\ R.rank = Got(c, "rank", 0) /\ R.estimated = Estimated(c)
          /\ R.score = Got(c, "score", 0) /\ R.upto = Got(c, "upto", 0)
      BY SeenFields
    <3> HIDE DEF R, n
    <3>5. e = [i \in DOMAIN R |-> IF i = "from" THEN n ELSE IF i = "talent" THEN t
                                 ELSE IF i = "pc" THEN "found" ELSE R[i]]
      BY <3>4
    <3> HIDE DEF e
    <3>6. RankSeen(d) = e
      BY <3>2, <3>3, <3>4, <3>5 DEF n
    <3> QED  BY <3>6 DEF e, R, n
  <2> HIDE DEF c, d
  <2>4. RankRead(d, byID)
    BY <1>2, <2>2 DEF RankRead
  <2>5. /\ StoreInv' /\ RanksSeen[r] = RankSeen(call[r])
        /\ Promise!RankGoes(r, RankSeen(Over(f, call[r])))
    BY <1>1, <2>4, RankGoesOn DEF d, c
  <2>6. RanksSeen[r].pc = "idle"
    BY <1>1, <2>5 DEF RankSeen, RankPhase, c
  <2>7. Promise!Find(r, t)
    BY <1>2, <2>3, <2>5, <2>6 DEF Promise!Find, c, d
  <2> QED  BY <2>5, <2>7 DEF Promise!Next
<1>3. CASE t \notin DOMAIN byID
  <2>1. f = [pc |-> "not_found"]
    BY <1>3
  <2> HIDE DEF f
  <2>2. d.pc = "not_found"
    BY <2>1 DEF Over
  <2>3. RankSeen(d) = [RankSeen(c) EXCEPT !.pc = "not_found"]
    <3>1. DOMAIN f = {"pc"} /\ f.pc = "not_found"
      BY <2>1
    <3> HIDE DEF c
    <3>2. RankSeen(d) =
            [pc |-> RankPhase["not_found"], talent |-> Got(c, "talent", 0),
             from |-> Got(c, "from", 0), rank |-> Got(c, "rank", 0),
             estimated |-> Estimated(c), score |-> Got(c, "score", 0),
             upto |-> Got(c, "upto", 0)]
      BY <3>1, RankSeenOver
    <3>3. RankPhase["not_found"] = "not_found"
      BY DEF RankPhase
    <3> HIDE DEF d
    <3> QED  BY <3>2, <3>3 DEF RankSeen
  <2> HIDE DEF c, d
  <2>4. RankRead(d, byID)
    BY <2>2 DEF RankRead
  <2>5. /\ StoreInv' /\ RanksSeen[r] = RankSeen(call[r])
        /\ Promise!RankGoes(r, RankSeen(Over(f, call[r])))
    BY <1>1, <2>4, RankGoesOn DEF d, c
  <2>6. RanksSeen[r].pc = "idle"
    BY <1>1, <2>5 DEF RankSeen, RankPhase, c
  <2>7. Promise!Find(r, t)
    BY <1>3, <2>3, <2>5, <2>6 DEF Promise!Find, c, d
  <2> QED  BY <2>5, <2>7 DEF Promise!Next
<1> QED  BY <1>2, <1>3

\* A rank in the snapshot is LookUp ...
LEMMA LookUpHit ==
  ASSUME StoreInv, NEW r \in RankCalls, LookUpRank(r), call[r].talent \in DOMAIN rankSnapshot
  PROVE  StoreInv' /\ Promise!Next
<1> DEFINE c == call[r]
           k == rankSnapshot[c.talent]
           f == [pc |-> "score", rank |-> k, fallback |-> FALSE]
           d == Over(f, c)
<1>1. /\ c.pc = "snapshot" /\ RankRead(c, byID) /\ Goes(r, f)
      /\ UNCHANGED <<store, writer, ranking, history>>
  BY DEF LookUpRank, StoreInv, CallInv
<1>2. "talent" \in DOMAIN c /\ c.talent \in DOMAIN byID /\ "fallback" \notin DOMAIN c
  BY <1>1 DEF RankRead
<1>3. DOMAIN f = {"pc", "rank", "fallback"} /\ f.pc = "score" /\ f.rank = k /\ f.fallback = FALSE
  OBVIOUS
<1> HIDE DEF f
<1>4. d.pc = "score" /\ "talent" \in DOMAIN d /\ d.talent = c.talent
  BY <1>2, <1>3 DEF Over
<1> HIDE DEF c, k
<1>5. RankSeen(d) = [RankSeen(c) EXCEPT !.pc = "ranked", !.rank = k]
  <2>1. f.fallback = Estimated(c)
    BY <1>2, <1>3 DEF Estimated
  <2>2. RankSeen(d) =
          [pc |-> RankPhase["score"], talent |-> Got(c, "talent", 0), from |-> Got(c, "from", 0),
           rank |-> k, estimated |-> Estimated(c), score |-> Got(c, "score", 0),
           upto |-> Got(c, "upto", 0)]
    BY <1>3, <2>1, RankSeenOver
  <2>3. RankPhase["score"] = "ranked"
    BY DEF RankPhase
  <2> HIDE DEF d
  <2> DEFINE R == RankSeen(c)
             e == [R EXCEPT !.pc = "ranked", !.rank = k]
  <2>4. /\ DOMAIN R = {"pc", "talent", "from", "rank", "estimated", "score", "upto"}
        /\ R = [i \in DOMAIN R |-> R[i]]
        /\ R.talent = Got(c, "talent", 0) /\ R.from = Got(c, "from", 0)
        /\ R.estimated = Estimated(c) /\ R.score = Got(c, "score", 0) /\ R.upto = Got(c, "upto", 0)
    BY SeenFields
  <2> HIDE DEF R
  <2>5. e = [i \in DOMAIN R |-> IF i = "rank" THEN k ELSE IF i = "pc" THEN "ranked" ELSE R[i]]
    BY <2>4
  <2> HIDE DEF e
  <2>6. RankSeen(d) = e
    BY <2>2, <2>3, <2>4, <2>5
  <2> QED  BY <2>6 DEF e, R
<1> HIDE DEF d
<1>6. RankRead(d, byID)
  BY <1>2, <1>4 DEF RankRead
<1>7. /\ StoreInv' /\ RanksSeen[r] = RankSeen(call[r])
      /\ Promise!RankGoes(r, RankSeen(Over(f, call[r])))
  BY <1>1, <1>6, RankGoesOn DEF d, c
<1>8. RanksSeen[r].pc = "found" /\ RanksSeen[r].talent = c.talent
  <2>1. RankPhase["snapshot"] = "found"
    BY DEF RankPhase
  <2>2. RankSeen(c).pc = RankPhase[c.pc] /\ RankSeen(c).talent = Got(c, "talent", 0)
    BY SeenFields
  <2> QED  BY <1>1, <1>2, <1>7, <2>1, <2>2 DEF Got, c
<1>9. Promise!LookUp(r)
  BY <1>5, <1>7, <1>8 DEF Promise!LookUp, c, d, k
<1> QED  BY <1>7, <1>9 DEF Promise!Next

\* ... and a miss is not seen.
LEMMA LookUpMiss ==
  ASSUME StoreInv, NEW r \in RankCalls, LookUpRank(r), call[r].talent \notin DOMAIN rankSnapshot
  PROVE  StoreInv' /\ UNCHANGED Promise!boardVars
<1> DEFINE c == call[r]
           f == [pc |-> "fallback"]
           d == Over(f, c)
<1>1. /\ c.pc = "snapshot" /\ RankRead(c, byID) /\ Goes(r, f)
      /\ UNCHANGED <<store, writer, ranking, history>>
  BY DEF LookUpRank, StoreInv, CallInv
<1>2. "talent" \in DOMAIN c /\ c.talent \in DOMAIN byID
  BY <1>1 DEF RankRead
<1>3. d.pc = "fallback" /\ "talent" \in DOMAIN d /\ d.talent = c.talent
  BY <1>2 DEF Over
<1>4. RankSeen(d) = RankSeen(c)
  <2>1. DOMAIN f = {"pc"} /\ f.pc = "fallback"
    OBVIOUS
  <2> HIDE DEF f, c
  <2>2. RankSeen(d) =
          [pc |-> RankPhase["fallback"], talent |-> Got(c, "talent", 0),
           from |-> Got(c, "from", 0), rank |-> Got(c, "rank", 0),
           estimated |-> Estimated(c), score |-> Got(c, "score", 0),
           upto |-> Got(c, "upto", 0)]
    BY <2>1, RankSeenOver
  <2>3. RankPhase["fallback"] = "found" /\ RankPhase["snapshot"] = "found"
    BY DEF RankPhase
  <2> HIDE DEF d
  <2> QED  BY <1>1, <2>2, <2>3 DEF RankSeen
<1> HIDE DEF c, f, d
<1>5. RankRead(d, byID)
  BY <1>2, <1>3 DEF RankRead
<1>6. /\ StoreInv' /\ RanksSeen[r] = RankSeen(call[r])
      /\ Promise!RankGoes(r, RankSeen(Over(f, call[r])))
  BY <1>1, <1>5, RankGoesOn DEF d, c
<1>7. Promise!RankGoes(r, RanksSeen[r])
  BY <1>4, <1>6 DEF d, c
<1>8. RanksSeen' = RanksSeen
  BY <1>7, SeenCalls DEF Promise!RankGoes
<1> QED  BY <1>6, <1>7, <1>8 DEF Promise!RankGoes, Promise!boardVars

\* The estimate is between the first place and the talent's own.
LEMMA EstimatedRank ==
  ASSUME RootInv, NEW t \in DOMAIN byID
  PROVE  calculateRank(root, t, byID[t]) \in 1..Promise!Place(byID, t)
<1>1. PICK n \in NodesOf(root) : n.id = t /\ n.score = byID[t]
  <2>1. <<t, byID[t]>> \in Keys(root)
    BY DEF RootInv, Board
  <2> QED  BY <2>1 DEF Keys
<1>2. /\ calculateRank(root, n.id, n.score) = 1 + Cardinality(Above(n.id)) - nsize(n.left)
      /\ nsize(n.left) \in 0..Cardinality(Above(n.id))
  BY RankFromTheTree
<1>3. Promise!Place(byID, t) = 1 + Cardinality(AboveOn(byID, t)) /\ Above(t) = AboveOn(byID, t)
  BY PlaceOnBoard DEF Above, AboveOn
<1>4. IsFiniteSet(DOMAIN byID)
  <2>1. InOrder(collectAllEntries(byID, root), Board(byID))
    BY RecordsAgree, CollectionIsInOrder
  <2> QED  BY <2>1, PlacesOn
<1>5. Cardinality(AboveOn(byID, t)) \in Nat
  <2>1. AboveOn(byID, t) \subseteq DOMAIN byID
    BY DEF AboveOn
  <2> QED  BY <1>4, <2>1, FS_Subset, FS_CardinalityType
<1> QED  BY <1>1, <1>2, <1>3, <1>5

\* calculateRank is Estimate.
LEMMA EstimateStep ==
  ASSUME StoreInv, NEW r \in RankCalls, ComputeRank(r)
  PROVE  StoreInv' /\ Promise!Next
<1> DEFINE c == call[r]
           k == calculateRank(root, c.talent, byID[c.talent])
           f == [pc |-> "score", rank |-> k, fallback |-> TRUE]
           d == Over(f, c)
<1>1. /\ c.pc = "fallback" /\ RankRead(c, byID) /\ Goes(r, f) /\ mu = NoOne
      /\ UNCHANGED <<store, writer, ranking, history>>
  BY DEF ComputeRank, CanRLock, StoreInv, CallInv
<1>2. "talent" \in DOMAIN c /\ c.talent \in DOMAIN byID
  BY <1>1 DEF RankRead
<1>3. k \in 1..Promise!Place(byID, c.talent)
  <2> HIDE DEF c
  <2> QED  BY <1>1, <1>2, WholeTree, EstimatedRank DEF StoreInv
<1>4. DOMAIN f = {"pc", "rank", "fallback"} /\ f.pc = "score" /\ f.rank = k /\ f.fallback = TRUE
  OBVIOUS
<1> HIDE DEF f
<1>5. d.pc = "score" /\ "talent" \in DOMAIN d /\ d.talent = c.talent
  BY <1>2, <1>4 DEF Over
<1> HIDE DEF c, k
<1>6. RankSeen(d) = [RankSeen(c) EXCEPT !.pc = "ranked", !.rank = k, !.estimated = TRUE]
  <2> DEFINE yes == f.fallback
  <2>1. RankSeen(d) =
          [pc |-> RankPhase["score"], talent |-> Got(c, "talent", 0), from |-> Got(c, "from", 0),
           rank |-> k, estimated |-> yes, score |-> Got(c, "score", 0),
           upto |-> Got(c, "upto", 0)]
    BY <1>4, RankSeenOver
  <2>2. RankPhase["score"] = "ranked"
    BY DEF RankPhase
  <2>3. yes = TRUE
    BY <1>4
  <2> HIDE DEF d, yes
  <2> DEFINE R == RankSeen(c)
             e == [R EXCEPT !.pc = "ranked", !.rank = k, !.estimated = yes]
  <2>4. /\ DOMAIN R = {"pc", "talent", "from", "rank", "estimated", "score", "upto"}
        /\ R = [i \in DOMAIN R |-> R[i]]
        /\ R.talent = Got(c, "talent", 0) /\ R.from = Got(c, "from", 0)
        /\ R.score = Got(c, "score", 0) /\ R.upto = Got(c, "upto", 0)
    BY SeenFields
  <2> HIDE DEF R
  <2>5. e = [i \in DOMAIN R |-> IF i = "estimated" THEN yes ELSE IF i = "rank" THEN k
                               ELSE IF i = "pc" THEN "ranked" ELSE R[i]]
    BY <2>4
  <2> HIDE DEF e
  <2>6. RankSeen(d) = e
    BY <2>1, <2>2, <2>4, <2>5
  <2>7. RankSeen(d) = [RankSeen(c) EXCEPT !.pc = "ranked", !.rank = k, !.estimated = yes]
    BY <2>6 DEF e, R
  <2> QED  BY Zenon, <2>3, <2>7
<1> HIDE DEF d
<1>7. RankRead(d, byID)
  BY <1>2, <1>5 DEF RankRead
<1>8. /\ StoreInv' /\ RanksSeen[r] = RankSeen(call[r])
      /\ Promise!RankGoes(r, RankSeen(Over(f, call[r])))
  BY <1>1, <1>7, RankGoesOn DEF d, c
<1>9. RanksSeen[r].pc = "found" /\ RanksSeen[r].talent = c.talent
  <2>1. RankPhase["fallback"] = "found"
    BY DEF RankPhase
  <2>2. RankSeen(c).pc = RankPhase[c.pc] /\ RankSeen(c).talent = Got(c, "talent", 0)
    BY SeenFields
  <2> QED  BY <1>1, <1>2, <1>8, <2>1, <2>2 DEF Got, c
<1>10. Promise!RankGoes(r, [RanksSeen[r] EXCEPT !.pc = "ranked", !.rank = k, !.estimated = TRUE])
  BY <1>6, <1>8 DEF c, d
<1>11. Promise!Estimate(r)
  BY <1>3, <1>9, <1>10 DEF Promise!Estimate
<1> QED  BY <1>8, <1>11 DEF Promise!Next

\* The score is read without a lock, but the record belongs to the board.
LEMMA ReadScoreStep ==
  ASSUME StoreInv, NEW r \in RankCalls, ReadScore(r)
  PROVE  StoreInv' /\ Promise!Next
<1> DEFINE c == call[r]
           k == byID[c.talent]
           f == [pc |-> "event", score |-> k]
           d == Over(f, c)
<1>1. /\ c.pc = "score" /\ RankRead(c, byID) /\ Goes(r, f)
      /\ UNCHANGED <<store, writer, ranking, history>>
  BY DEF ReadScore, StoreInv, CallInv
<1>2. "talent" \in DOMAIN c /\ c.talent \in DOMAIN byID
  BY <1>1 DEF RankRead
<1>3. DOMAIN f = {"pc", "score"} /\ f.pc = "event" /\ f.score = k
  OBVIOUS
<1> HIDE DEF f
<1>4. d.pc = "event" /\ "talent" \in DOMAIN d /\ d.talent = c.talent
  BY <1>2, <1>3 DEF Over
<1> HIDE DEF c, k
<1>5. RankSeen(d) = [RankSeen(c) EXCEPT !.pc = "scored", !.score = k]
  <2>1. RankSeen(d) =
          [pc |-> RankPhase["event"], talent |-> Got(c, "talent", 0), from |-> Got(c, "from", 0),
           rank |-> Got(c, "rank", 0), estimated |-> Estimated(c), score |-> k,
           upto |-> Got(c, "upto", 0)]
    BY <1>3, RankSeenOver
  <2>2. RankPhase["event"] = "scored"
    BY DEF RankPhase
  <2> HIDE DEF d
  <2> DEFINE R == RankSeen(c)
             e == [R EXCEPT !.pc = "scored", !.score = k]
  <2>3. /\ DOMAIN R = {"pc", "talent", "from", "rank", "estimated", "score", "upto"}
        /\ R = [i \in DOMAIN R |-> R[i]]
        /\ R.talent = Got(c, "talent", 0) /\ R.from = Got(c, "from", 0)
        /\ R.rank = Got(c, "rank", 0) /\ R.estimated = Estimated(c)
        /\ R.upto = Got(c, "upto", 0)
    BY SeenFields
  <2> HIDE DEF R
  <2>4. e = [i \in DOMAIN R |-> IF i = "score" THEN k ELSE IF i = "pc" THEN "scored" ELSE R[i]]
    BY <2>3
  <2> HIDE DEF e
  <2>5. RankSeen(d) = e
    BY <2>1, <2>2, <2>3, <2>4
  <2> QED  BY <2>5 DEF e, R
<1> HIDE DEF d
<1>6. RankRead(d, byID)
  BY <1>2, <1>4 DEF RankRead
<1>7. /\ StoreInv' /\ RanksSeen[r] = RankSeen(call[r])
      /\ Promise!RankGoes(r, RankSeen(Over(f, call[r])))
  BY <1>1, <1>6, RankGoesOn DEF d, c
<1>8. RanksSeen[r].pc = "ranked" /\ RanksSeen[r].talent = c.talent
  <2>1. RankPhase["score"] = "ranked"
    BY DEF RankPhase
  <2>2. RankSeen(c).pc = RankPhase[c.pc] /\ RankSeen(c).talent = Got(c, "talent", 0)
    BY SeenFields
  <2> QED  BY <1>1, <1>2, <1>7, <2>1, <2>2 DEF Got, c
<1>9. Promise!ReadScore(r)
  BY <1>5, <1>7, <1>8 DEF Promise!ReadScore, c, d, k
<1> QED  BY <1>7, <1>9 DEF Promise!Next

\* ReadEvent is Answer.
LEMMA AnswerStep ==
  ASSUME StoreInv, NEW r \in RankCalls, ReadEvent(r)
  PROVE  StoreInv' /\ Promise!Next
<1> DEFINE c == call[r]
           k == Len(boards)
           f == [pc |-> "done", event |-> event[c.talent], upto |-> k]
           d == Over(f, c)
<1>1. /\ c.pc = "event" /\ RankRead(c, byID) /\ Goes(r, f)
      /\ UNCHANGED <<store, writer, ranking, history>>
  BY DEF ReadEvent, StoreInv, CallInv
<1>2. "talent" \in DOMAIN c /\ c.talent \in DOMAIN byID
  BY <1>1 DEF RankRead
<1>3. DOMAIN f = {"pc", "event", "upto"} /\ f.pc = "done" /\ f.upto = k
  OBVIOUS
<1> HIDE DEF f
<1>4. d.pc = "done" /\ "talent" \in DOMAIN d /\ d.talent = c.talent
  BY <1>2, <1>3 DEF Over
<1> HIDE DEF c, k
<1>5. RankSeen(d) = [RankSeen(c) EXCEPT !.pc = "done", !.upto = k]
  <2>1. RankSeen(d) =
          [pc |-> RankPhase["done"], talent |-> Got(c, "talent", 0), from |-> Got(c, "from", 0),
           rank |-> Got(c, "rank", 0), estimated |-> Estimated(c), score |-> Got(c, "score", 0),
           upto |-> k]
    BY <1>3, RankSeenOver
  <2>2. RankPhase["done"] = "done"
    BY DEF RankPhase
  <2> HIDE DEF d
  <2> DEFINE R == RankSeen(c)
             e == [R EXCEPT !.pc = "done", !.upto = k]
  <2>3. /\ DOMAIN R = {"pc", "talent", "from", "rank", "estimated", "score", "upto"}
        /\ R = [i \in DOMAIN R |-> R[i]]
        /\ R.talent = Got(c, "talent", 0) /\ R.from = Got(c, "from", 0)
        /\ R.rank = Got(c, "rank", 0) /\ R.estimated = Estimated(c)
        /\ R.score = Got(c, "score", 0)
    BY SeenFields
  <2> HIDE DEF R
  <2>4. e = [i \in DOMAIN R |-> IF i = "upto" THEN k ELSE IF i = "pc" THEN "done" ELSE R[i]]
    BY <2>3
  <2> HIDE DEF e
  <2>5. RankSeen(d) = e
    BY <2>1, <2>2, <2>3, <2>4
  <2> QED  BY <2>5 DEF e, R
<1> HIDE DEF d
<1>6. RankRead(d, byID)
  BY <1>2, <1>4 DEF RankRead
<1>7. /\ StoreInv' /\ RanksSeen[r] = RankSeen(call[r])
      /\ Promise!RankGoes(r, RankSeen(Over(f, call[r])))
  BY <1>1, <1>6, RankGoesOn DEF d, c
<1>8. RanksSeen[r].pc = "scored"
  <2>1. RankPhase["event"] = "scored"
    BY DEF RankPhase
  <2>2. RankSeen(c).pc = RankPhase[c.pc]
    BY SeenFields
  <2> QED  BY <1>1, <1>7, <2>1, <2>2 DEF c
<1>9. Promise!Answer(r)
  BY <1>5, <1>7, <1>8 DEF Promise!Answer, c, d, k
<1> QED  BY <1>7, <1>9 DEF Promise!Next

-----------------------------------------------------------------------------
(* TopN *)

\* What Board sees of a call of TopN.
LEMMA TopSeenOver ==
  ASSUME NEW f, NEW c, "pc" \in DOMAIN f
  PROVE  /\ TopSeen(Over(f, c)).pc = TopPhase[f.pc]
         /\ Got(Over(f, c), "entries", <<>>)
              = IF "entries" \in DOMAIN f THEN f["entries"] ELSE Got(c, "entries", <<>>)
         /\ Got(Over(f, c), "ranks", <<>>)
              = IF "ranks" \in DOMAIN f THEN f["ranks"] ELSE Got(c, "ranks", <<>>)
         /\ Got(Over(f, c), "from", 0)
              = IF "from" \in DOMAIN f THEN f["from"] ELSE Got(c, "from", 0)
<1>1. Over(f, c).pc = f.pc
  BY DEF Over
<1>2. /\ Got(Over(f, c), "entries", <<>>)
           = IF "entries" \in DOMAIN f THEN f["entries"] ELSE Got(c, "entries", <<>>)
      /\ Got(Over(f, c), "ranks", <<>>)
           = IF "ranks" \in DOMAIN f THEN f["ranks"] ELSE Got(c, "ranks", <<>>)
      /\ Got(Over(f, c), "from", 0)
           = IF "from" \in DOMAIN f THEN f["from"] ELSE Got(c, "from", 0)
  BY GotOver
<1>3. TopSeen(Over(f, c)).pc = TopPhase[Over(f, c).pc]
  BY DEF TopSeen
<1> QED  BY <1>1, <1>2, <1>3

\* A step of TopN that only changes the call.
LEMMA TopGoesOn ==
  ASSUME StoreInv, NEW r \in TopNCalls, NEW f, Goes(r, f), TopRead(Over(f, call[r])),
         UNCHANGED <<store, writer, ranking, history>>
  PROVE  /\ StoreInv' /\ TopsSeen[r] = TopSeen(call[r])
         /\ TopsSeen' = [TopsSeen EXCEPT ![r] = TopSeen(Over(f, call[r]))]
         /\ RanksSeen' = RanksSeen /\ Copy' = Copy
         /\ byID' = byID /\ boards' = boards /\ rankSnapshot' = rankSnapshot
<1>1. DOMAIN call = RankCalls \cup TopNCalls /\ r \notin RankCalls
  BY StoreAssumption DEF StoreInv, CallInv
<1>2. /\ DOMAIN call' = RankCalls \cup TopNCalls /\ call'[r] = Over(f, call[r])
      /\ \A q \in RankCalls \cup TopNCalls : q # r => call'[q] = call[q]
      /\ TopsSeen' = [TopsSeen EXCEPT ![r] = TopSeen(Over(f, call[r]))]
      /\ RanksSeen' = RanksSeen
  BY <1>1, CallGoes
<1>3. /\ TreeInv' /\ WriterInv' /\ CollectedInv' /\ Copy' = Copy
      /\ byID' = byID /\ boards' = boards /\ rankSnapshot' = rankSnapshot
  BY StoreRests
<1>4. CallInv'
  <2>1. ASSUME NEW q \in TopNCalls PROVE TopRead(call'[q])
    <3>1. CASE q = r
      BY <1>2, <3>1
    <3>2. CASE q # r
      BY <1>2, <3>2 DEF StoreInv, CallInv
    <3> QED  BY <3>1, <3>2
  <2>2. ASSUME NEW q \in RankCalls PROVE RankRead(call'[q], byID)
    BY <1>1, <1>2 DEF StoreInv, CallInv
  <2> QED  BY <1>2, <1>3, <2>1, <2>2 DEF CallInv
<1>5. TopsSeen[r] = TopSeen(call[r])
  BY SeenCalls
<1> QED  BY <1>2, <1>3, <1>4, <1>5 DEF StoreInv

\* A refused call is idle for Board.
LEMMA RefuseTop ==
  ASSUME StoreInv, NEW r \in TopNCalls, BadRequest(r)
  PROVE  StoreInv' /\ UNCHANGED Promise!boardVars
<1> DEFINE c == call[r]
           f == [pc |-> "bad_request"]
           d == Over(f, c)
<1>1. /\ c.pc = "idle" /\ TopRead(c) /\ Goes(r, f)
      /\ UNCHANGED <<store, writer, ranking, history>>
  BY DEF BadRequest, StoreInv, CallInv
<1>2. d.pc = "bad_request"
  BY DEF Over
<1>3. TopSeen(d) = TopSeen(c)
  <2>1. DOMAIN f = {"pc"} /\ f.pc = "bad_request"
    OBVIOUS
  <2> HIDE DEF f, c
  <2>2. /\ TopSeen(d).pc = TopPhase["bad_request"]
        /\ Got(d, "entries", <<>>) = Got(c, "entries", <<>>)
        /\ Got(d, "ranks", <<>>) = Got(c, "ranks", <<>>) /\ Got(d, "from", 0) = Got(c, "from", 0)
    BY <2>1, TopSeenOver
  <2>3. TopPhase["bad_request"] = "idle" /\ TopPhase["idle"] = "idle"
    BY DEF TopPhase
  <2> HIDE DEF d
  <2> QED  BY <1>1, <2>2, <2>3 DEF TopSeen
<1> HIDE DEF c, f, d
<1>4. TopRead(d)
  BY <1>2 DEF TopRead
<1>5. /\ StoreInv' /\ TopsSeen[r] = TopSeen(call[r])
      /\ TopsSeen' = [TopsSeen EXCEPT ![r] = TopSeen(Over(f, call[r]))]
      /\ RanksSeen' = RanksSeen /\ Copy' = Copy
      /\ byID' = byID /\ boards' = boards /\ rankSnapshot' = rankSnapshot
  BY <1>1, <1>4, TopGoesOn DEF d, c
<1>6. TopsSeen' = [TopsSeen EXCEPT ![r] = TopsSeen[r]]
  BY <1>3, <1>5 DEF c, d
<1>7. TopsSeen' = TopsSeen
  BY <1>6, SeenCalls
<1>8. UNCHANGED Promise!boardVars
  BY <1>5, <1>7, SameBoard
<1> QED  BY <1>5, <1>8

\* Calls of TopN as Board's List and RankList leave them, written out.
ListedCalls(L, r, at, top) == [L EXCEPT ![r].pc = "listed", ![r].at = at, ![r].top = top]
RankedCalls(L, r, ranks)   == [L EXCEPT ![r].pc = "done", ![r].ranks = ranks]

\* RankList.
LEMMA TwoFields ==
  ASSUME NEW S, NEW L, NEW r \in S, NEW ranks, L = [x \in S |-> L[x]],
         DOMAIN L[r] = {"pc", "at", "top", "ranks"}, L[r] = [i \in DOMAIN L[r] |-> L[r][i]]
  PROVE  RankedCalls(L, r, ranks)
           = [x \in S |->
               IF x = r THEN [i \in DOMAIN L[r] |-> IF i = "ranks" THEN ranks
                                                    ELSE IF i = "pc" THEN "done" ELSE L[r][i]]
               ELSE L[x]]
<1> DEFINE e1 == [L EXCEPT ![r].pc = "done"]
           e2 == [e1 EXCEPT ![r].ranks = ranks]
<1>1. RankedCalls(L, r, ranks) = e2
  BY DEF RankedCalls
<1>2. e1 = [x \in S |-> IF x = r THEN [i \in DOMAIN L[r] |-> IF i = "pc" THEN "done" ELSE L[r][i]]
                        ELSE L[x]]
  OBVIOUS
<1>3. /\ DOMAIN e1 = S /\ \A x \in S : x # r => e1[x] = L[x]
      /\ e1[r] = [i \in DOMAIN L[r] |-> IF i = "pc" THEN "done" ELSE L[r][i]]
  BY <1>2
<1> HIDE DEF e1
<1>4. DOMAIN e2 = S /\ \A x \in S : x # r => e2[x] = e1[x]
  BY <1>3
<1>5. e2[r] = [i \in DOMAIN L[r] |-> IF i = "ranks" THEN ranks
                                     ELSE IF i = "pc" THEN "done" ELSE L[r][i]]
  BY <1>3
<1>6. e2 = [x \in S |-> e2[x]]
  BY <1>3
<1> HIDE DEF e2
<1> QED  BY <1>1, <1>3, <1>4, <1>5, <1>6

\* List.
LEMMA ThreeFields ==
  ASSUME NEW S, NEW L, NEW r \in S, NEW at, NEW top, L = [x \in S |-> L[x]],
         DOMAIN L[r] = {"pc", "at", "top", "ranks"}, L[r] = [i \in DOMAIN L[r] |-> L[r][i]]
  PROVE  ListedCalls(L, r, at, top)
           = [x \in S |->
               IF x = r THEN [i \in DOMAIN L[r] |-> IF i = "top" THEN top ELSE IF i = "at" THEN at
                                                    ELSE IF i = "pc" THEN "listed" ELSE L[r][i]]
               ELSE L[x]]
<1> DEFINE e1 == [L EXCEPT ![r].pc = "listed"]
           e2 == [e1 EXCEPT ![r].at = at]
           e3 == [e2 EXCEPT ![r].top = top]
<1>1. ListedCalls(L, r, at, top) = e3
  BY DEF ListedCalls
<1>2. e1 = [x \in S |-> IF x = r
                        THEN [i \in DOMAIN L[r] |-> IF i = "pc" THEN "listed" ELSE L[r][i]]
                        ELSE L[x]]
  OBVIOUS
<1>3. /\ DOMAIN e1 = S /\ \A x \in S : x # r => e1[x] = L[x]
      /\ e1[r] = [i \in DOMAIN L[r] |-> IF i = "pc" THEN "listed" ELSE L[r][i]]
  BY <1>2
<1> HIDE DEF e1
<1>4. /\ DOMAIN e2 = S /\ \A x \in S : x # r => e2[x] = e1[x]
      /\ e2[r] = [i \in DOMAIN L[r] |-> IF i = "at" THEN at
                                        ELSE IF i = "pc" THEN "listed" ELSE L[r][i]]
  BY <1>3
<1> HIDE DEF e2
<1>5. DOMAIN e3 = S /\ \A x \in S : x # r => e3[x] = e2[x]
  BY <1>4
<1>6. e3[r] = [i \in DOMAIN L[r] |-> IF i = "top" THEN top ELSE IF i = "at" THEN at
                                     ELSE IF i = "pc" THEN "listed" ELSE L[r][i]]
  BY <1>4
<1>7. e3 = [x \in S |-> e3[x]]
  BY <1>4
<1> HIDE DEF e3
<1> QED  BY <1>1, <1>3, <1>4, <1>5, <1>6, <1>7

\* CollectTop is List: under mu.RLock the tree holds the whole board.
LEMMA ListStep ==
  ASSUME StoreInv, NEW r \in TopNCalls, CollectTop(r)
  PROVE  StoreInv' /\ Promise!Next
<1> DEFINE c == call[r]
           n == Len(boards)
           es == collectTopN(byID, root, Limit)
           f == [pc |-> "ranks", from |-> n, entries |-> es,
                 events |-> [i \in DOMAIN es |-> event[es[i].id]]]
           d == Over(f, c)
<1>1. /\ c.pc = "idle" /\ TopRead(c) /\ Goes(r, f) /\ mu = NoOne
      /\ UNCHANGED <<store, writer, ranking, history>>
  BY DEF CollectTop, CanRLock, StoreInv, CallInv
<1>2. es \in Seq(Item) /\ OncePerTalent(es) /\ AsBoard(es) = Promise!TopOf(byID)
  BY <1>1, WholeTree, CollectedTop DEF StoreInv
<1>3. "ranks" \notin DOMAIN c
  BY <1>1 DEF TopRead
<1> HIDE DEF c, n, es
<1>4. /\ DOMAIN f = {"pc", "from", "entries", "events"}
      /\ f.pc = "ranks" /\ f.from = n /\ f.entries = es
  OBVIOUS
<1> HIDE DEF f
<1>5. d.pc = "ranks" /\ d.entries = es /\ "entries" \in DOMAIN d /\ "ranks" \notin DOMAIN d
  BY <1>3, <1>4 DEF Over
<1>6. TopSeen(d) = [pc |-> "listed", at |-> n, top |-> AsBoard(es), ranks |-> TopSeen(c).ranks]
  <2>1. /\ TopSeen(d).pc = TopPhase["ranks"]
        /\ Got(d, "entries", <<>>) = es /\ Got(d, "from", 0) = n
        /\ Got(d, "ranks", <<>>) = Got(c, "ranks", <<>>)
    BY <1>4, TopSeenOver
  <2>2. TopPhase["ranks"] = "listed"
    BY DEF TopPhase
  <2>3. Got(c, "ranks", <<>>) = <<>>
    BY <1>3 DEF Got
  <2>4. ByTalent(es, <<>>) = <<>> /\ ByTalent(Got(c, "entries", <<>>), <<>>) = <<>>
    BY DEF ByTalent
  <2>5. TopSeen(c).ranks = ByTalent(Got(c, "entries", <<>>), Got(c, "ranks", <<>>))
    BY DEF TopSeen
  <2>6. TopSeen(d) = [pc |-> TopSeen(d).pc, at |-> Got(d, "from", 0),
                      top |-> AsBoard(Got(d, "entries", <<>>)),
                      ranks |-> ByTalent(Got(d, "entries", <<>>), Got(d, "ranks", <<>>))]
    BY DEF TopSeen
  <2> HIDE DEF d
  <2> QED  BY <2>1, <2>2, <2>3, <2>4, <2>5, <2>6
<1> HIDE DEF d
<1>7. TopRead(d)
  BY <1>2, <1>5 DEF TopRead
<1>8. /\ StoreInv' /\ TopsSeen[r] = TopSeen(call[r])
      /\ TopsSeen' = [TopsSeen EXCEPT ![r] = TopSeen(Over(f, call[r]))]
      /\ RanksSeen' = RanksSeen /\ Copy' = Copy
      /\ byID' = byID /\ boards' = boards /\ rankSnapshot' = rankSnapshot
  BY <1>1, <1>7, TopGoesOn DEF d, c
<1> DEFINE L == TopsSeen
           top == AsBoard(es)
           e == ListedCalls(L, r, n, top)
<1>9. /\ L = [x \in TopNCalls |-> L[x]]
      /\ DOMAIN L[r] = {"pc", "at", "top", "ranks"} /\ L[r] = [i \in DOMAIN L[r] |-> L[r][i]]
      /\ L[r].pc = "idle" /\ L[r].ranks = TopSeen(c).ranks
  <2>1. L[r] = TopSeen(c)
    BY <1>8 DEF c
  <2>2. TopPhase["idle"] = "idle"
    BY DEF TopPhase
  <2>3. L = [x \in TopNCalls |-> L[x]]
    BY SeenCalls
  <2> HIDE DEF L
  <2> QED  BY <1>1, <2>1, <2>2, <2>3 DEF TopSeen
<1> HIDE DEF L, top
<1>10. TopSeen(d) = [i \in DOMAIN L[r] |-> IF i = "top" THEN top ELSE IF i = "at" THEN n
                                           ELSE IF i = "pc" THEN "listed" ELSE L[r][i]]
  BY <1>6, <1>9 DEF top
<1>11. e = [x \in TopNCalls |->
             IF x = r THEN [i \in DOMAIN L[r] |-> IF i = "top" THEN top ELSE IF i = "at" THEN n
                                                  ELSE IF i = "pc" THEN "listed" ELSE L[r][i]]
             ELSE L[x]]
  BY <1>9, ThreeFields
<1> HIDE DEF e
<1>12. e = [L EXCEPT ![r] = TopSeen(d)]
  BY <1>9, <1>10, <1>11
<1>13. TopsSeen' = e /\ TopsSeen[r].pc = "idle"
  BY <1>8, <1>9, <1>12 DEF L, d, c
<1>14. TopsSeen' = [TopsSeen EXCEPT ![r].pc = "listed", ![r].at = Len(boards),
                                    ![r].top = Promise!TopOf(byID)]
  BY <1>2, <1>13 DEF e, L, top, n, ListedCalls
<1>15. Promise!List(r)
  BY <1>8, <1>13, <1>14 DEF Promise!List, Copy
<1> QED  BY <1>8, <1>15 DEF Promise!Next

\* Values that go with a list, found by talent.
LEMMA ValuesByTalent ==
  ASSUME NEW e \in Seq(Item), OncePerTalent(e), NEW values, DOMAIN values = DOMAIN e
  PROVE  /\ ByTalent(e, values) = [t \in DOMAIN AsBoard(e) |-> ByTalent(e, values)[t]]
         /\ \A i \in DOMAIN e : ByTalent(e, values)[e[i].id] = values[i]
<1> DEFINE ids == {e[i].id : i \in DOMAIN e}
           given == [t \in ids |-> values[CHOOSE i \in DOMAIN e : e[i].id = t]]
<1>1. /\ DOMAIN AsBoard(e) = ids
      /\ \A i \in DOMAIN e : (CHOOSE k \in DOMAIN e : e[k].id = e[i].id) = i
  BY ListAsBoard
<1>2. ByTalent(e, values) = given
  <2>1. CASE values = <<>>
    <3>1. ids = {}
      BY <2>1
    <3> QED  BY <2>1, <3>1 DEF ByTalent
  <2>2. CASE values # <<>>
    BY <2>2 DEF ByTalent
  <2> QED  BY <2>1, <2>2
<1>3. ASSUME NEW i \in DOMAIN e PROVE given[e[i].id] = values[i]
  <2>1. e[i].id \in ids
    OBVIOUS
  <2>2. given[e[i].id] = values[CHOOSE k \in DOMAIN e : e[k].id = e[i].id]
    BY <2>1
  <2> QED  BY <1>1, <2>2
<1>4. given = [t \in ids |-> given[t]]
  OBVIOUS
<1> HIDE DEF given, ids
<1> QED  BY <1>1, <1>2, <1>3, <1>4

\* The ranks TopN assigns, by talent.
LEMMA AssignedRanks ==
  ASSUME NEW e \in Seq(Item), OncePerTalent(e), NEW s, NEW ranks,
         ranks = IF \A i \in DOMAIN e : e[i].id \in DOMAIN s
                 THEN [i \in DOMAIN e |-> s[e[i].id]] ELSE assignRanksWithTies(e)
  PROVE  ByTalent(e, ranks)
           = IF DOMAIN AsBoard(e) \subseteq DOMAIN s
             THEN [t \in DOMAIN AsBoard(e) |-> s[t]] ELSE Promise!RanksOf(AsBoard(e))
<1> DEFINE ids == {e[i].id : i \in DOMAIN e}
           given == ByTalent(e, ranks)
<1>1. DOMAIN AsBoard(e) = ids
  BY ListAsBoard
<1>2. (\A i \in DOMAIN e : e[i].id \in DOMAIN s) <=> ids \subseteq DOMAIN s
  OBVIOUS
<1>3. /\ DOMAIN assignRanksWithTies(e) = DOMAIN e
      /\ Promise!RanksOf(AsBoard(e)) = [t \in ids |-> Promise!RanksOf(AsBoard(e))[t]]
      /\ \A i \in DOMAIN e : assignRanksWithTies(e)[i] = Promise!RanksOf(AsBoard(e))[e[i].id]
  BY ListRanks
<1>4. DOMAIN ranks = DOMAIN e
  BY <1>3
<1>5. given = [t \in ids |-> given[t]] /\ \A i \in DOMAIN e : given[e[i].id] = ranks[i]
  <2>1. /\ given = [t \in DOMAIN AsBoard(e) |-> given[t]]
        /\ \A i \in DOMAIN e : given[e[i].id] = ranks[i]
    BY <1>4, ValuesByTalent
  <2> HIDE DEF given, ids
  <2> QED  BY <1>1, <2>1
<1> HIDE DEF given
<1>6. CASE ids \subseteq DOMAIN s
  <2>1. \A i \in DOMAIN e : ranks[i] = s[e[i].id]
    BY <1>2, <1>6
  <2>2. \A t \in ids : given[t] = s[t]
    BY <1>5, <2>1
  <2> HIDE DEF ids
  <2>3. given = [t \in ids |-> s[t]]
    BY <1>5, <2>2
  <2> QED  BY <1>1, <1>6, <2>3 DEF given
<1>7. CASE ~(ids \subseteq DOMAIN s)
  <2>1. ranks = assignRanksWithTies(e)
    BY <1>2, <1>7
  <2>2. \A t \in ids : given[t] = Promise!RanksOf(AsBoard(e))[t]
    BY <1>3, <1>5, <2>1
  <2> HIDE DEF ids
  <2>3. given = Promise!RanksOf(AsBoard(e))
    BY <1>3, <1>5, <2>2
  <2> QED  BY <1>1, <1>7, <2>3 DEF given
<1> QED  BY <1>6, <1>7

\* AssignTopRanks is RankList.
LEMMA RankListStep ==
  ASSUME StoreInv, NEW r \in TopNCalls, AssignTopRanks(r)
  PROVE  StoreInv' /\ Promise!Next
<1> DEFINE c == call[r]
           es == c.entries
           ranks == IF \A i \in DOMAIN es : es[i].id \in DOMAIN rankSnapshot
                    THEN [i \in DOMAIN es |-> rankSnapshot[es[i].id]]
                    ELSE assignRanksWithTies(es)
           f == [pc |-> "done", ranks |-> ranks]
           d == Over(f, c)
           top == AsBoard(es)
           given == IF DOMAIN top \subseteq DOMAIN rankSnapshot
                    THEN [t \in DOMAIN top |-> rankSnapshot[t]] ELSE Promise!RanksOf(top)
<1>1. /\ c.pc = "ranks" /\ TopRead(c) /\ Goes(r, f)
      /\ UNCHANGED <<store, writer, ranking, history>>
  BY DEF AssignTopRanks, StoreInv, CallInv
<1>2. "entries" \in DOMAIN c /\ es \in Seq(Item) /\ OncePerTalent(es)
  BY <1>1 DEF TopRead
<1> HIDE DEF c
<1>3. ByTalent(es, ranks) = given
  <2> HIDE DEF es
  <2> QED  BY <1>2, AssignedRanks DEF ranks, given, top
<1> HIDE DEF es, ranks, given, top
<1>4. DOMAIN f = {"pc", "ranks"} /\ f.pc = "done" /\ f.ranks = ranks
  OBVIOUS
<1> HIDE DEF f
<1>5. d.pc = "done"
  BY <1>4 DEF Over
<1>6. TopSeen(d) = [pc |-> "done", at |-> TopSeen(c).at, top |-> TopSeen(c).top, ranks |-> given]
      /\ TopSeen(c).top = top
  <2>1. /\ TopSeen(d).pc = TopPhase["done"]
        /\ Got(d, "entries", <<>>) = Got(c, "entries", <<>>)
        /\ Got(d, "from", 0) = Got(c, "from", 0) /\ Got(d, "ranks", <<>>) = ranks
    BY <1>4, TopSeenOver
  <2>2. TopPhase["done"] = "done"
    BY DEF TopPhase
  <2>3. Got(c, "entries", <<>>) = es
    BY <1>2 DEF Got, es
  <2>4. TopSeen(c).at = Got(c, "from", 0) /\ TopSeen(c).top = AsBoard(Got(c, "entries", <<>>))
    BY DEF TopSeen
  <2>5. TopSeen(d) = [pc |-> TopSeen(d).pc, at |-> Got(d, "from", 0),
                      top |-> AsBoard(Got(d, "entries", <<>>)),
                      ranks |-> ByTalent(Got(d, "entries", <<>>), Got(d, "ranks", <<>>))]
    BY DEF TopSeen
  <2> HIDE DEF d
  <2> QED  BY <1>3, <2>1, <2>2, <2>3, <2>4, <2>5 DEF top
<1> HIDE DEF d
<1>7. TopRead(d)
  BY <1>5 DEF TopRead
<1>8. /\ StoreInv' /\ TopsSeen[r] = TopSeen(call[r])
      /\ TopsSeen' = [TopsSeen EXCEPT ![r] = TopSeen(Over(f, call[r]))]
      /\ RanksSeen' = RanksSeen /\ Copy' = Copy
      /\ byID' = byID /\ boards' = boards /\ rankSnapshot' = rankSnapshot
  BY <1>1, <1>7, TopGoesOn DEF d, c
<1> DEFINE L == TopsSeen
           e == RankedCalls(L, r, given)
<1>9. /\ L = [x \in TopNCalls |-> L[x]]
      /\ DOMAIN L[r] = {"pc", "at", "top", "ranks"} /\ L[r] = [i \in DOMAIN L[r] |-> L[r][i]]
      /\ L[r].pc = "listed" /\ L[r].top = TopSeen(c).top /\ L[r].at = TopSeen(c).at
  <2>1. L[r] = TopSeen(c)
    BY <1>8 DEF c
  <2>2. TopPhase["ranks"] = "listed"
    BY DEF TopPhase
  <2>3. L = [x \in TopNCalls |-> L[x]]
    BY SeenCalls
  <2> HIDE DEF L
  <2> QED  BY <1>1, <2>1, <2>2, <2>3 DEF TopSeen
<1> HIDE DEF L
<1>10. TopSeen(d) = [i \in DOMAIN L[r] |-> IF i = "ranks" THEN given
                                           ELSE IF i = "pc" THEN "done" ELSE L[r][i]]
  BY <1>6, <1>9
<1>11. e = [x \in TopNCalls |->
             IF x = r THEN [i \in DOMAIN L[r] |-> IF i = "ranks" THEN given
                                                  ELSE IF i = "pc" THEN "done" ELSE L[r][i]]
             ELSE L[x]]
  BY <1>9, TwoFields
<1> HIDE DEF e
<1>12. e = [L EXCEPT ![r] = TopSeen(d)]
  BY <1>9, <1>10, <1>11
<1>13. TopsSeen' = e /\ TopsSeen[r].pc = "listed" /\ TopsSeen[r].top = top
  BY <1>6, <1>8, <1>9, <1>12 DEF L, d, c
<1>14. TopsSeen' = [TopsSeen EXCEPT ![r].pc = "done", ![r].ranks = given]
  BY <1>13 DEF e, L, RankedCalls
<1>15. given = IF DOMAIN TopsSeen[r].top \subseteq DOMAIN rankSnapshot
               THEN [t \in DOMAIN TopsSeen[r].top |-> rankSnapshot[t]]
               ELSE Promise!RanksOf(TopsSeen[r].top)
  BY <1>13 DEF given
<1>16. Promise!RankList(r)
  BY <1>8, <1>13, <1>14, <1>15 DEF Promise!RankList, Copy
<1> QED  BY <1>8, <1>16 DEF Promise!Next

-----------------------------------------------------------------------------
(* The updater *)

\* The updater leaves tree, writers and calls alone.
LEMMA UpdaterRests ==
  ASSUME StoreInv, UNCHANGED <<store, writer, call, history>>
  PROVE  /\ TreeInv' /\ WriterInv' /\ CallInv' /\ byID' = byID /\ boards' = boards
         /\ RanksSeen' = RanksSeen /\ TopsSeen' = TopsSeen
<1>1. UNCHANGED <<root, byID, mu, writer, call, boards>>
  BY DEF store, history
<1>2. TreeInv'
  BY <1>1 DEF StoreInv, TreeInv, Records
<1>3. WriterInv'
  BY <1>1 DEF StoreInv, WriterInv
<1>4. CallInv'
  BY <1>1 DEF StoreInv, CallInv
<1>5. RanksSeen' = RanksSeen /\ TopsSeen' = TopsSeen
  BY <1>1 DEF RanksSeen, TopsSeen, Field
<1> QED  BY <1>1, <1>2, <1>3, <1>4, <1>5

\* Collect copies the whole board.
LEMMA CopyStep ==
  ASSUME StoreInv, Collect
  PROVE  StoreInv' /\ Promise!Next
<1> DEFINE es == collectAllEntries(byID, root)
<1>1. /\ ~collected.busy /\ mu = NoOne /\ collected' = [busy |-> TRUE, entries |-> es]
      /\ rankSnapshot' = rankSnapshot /\ UNCHANGED <<store, writer, call, history>>
  BY DEF Collect, CanRLock
<1>2. es \in Seq(Item) /\ OncePerTalent(es) /\ AsBoard(es) = byID
  BY <1>1, WholeTree, CollectedBoard DEF StoreInv
<1> HIDE DEF es
<1>3. /\ TreeInv' /\ WriterInv' /\ CallInv' /\ byID' = byID /\ boards' = boards
      /\ RanksSeen' = RanksSeen /\ TopsSeen' = TopsSeen
  BY <1>1, UpdaterRests
<1>4. CollectedInv'
  BY <1>1, <1>2 DEF CollectedInv
<1>5. Copy = NoOne /\ Copy' = byID
  BY <1>1, <1>2 DEF Copy
<1>6. Promise!Collect
  BY <1>1, <1>3, <1>5 DEF Promise!Collect, Copy
<1> QED  BY <1>3, <1>4, <1>6 DEF StoreInv, Promise!Next

\* Publish makes the copy the snapshot.
LEMMA PublishStep ==
  ASSUME StoreInv, Publish
  PROVE  StoreInv' /\ Promise!Next
<1> DEFINE es == collected.entries
           ranks == assignRanksWithTies(es)
           ids == {es[i].id : i \in DOMAIN es}
           given == [t \in ids |-> ranks[CHOOSE i \in DOMAIN es : es[i].id = t]]
<1>1. /\ collected.busy /\ collected' = NotCollecting /\ rankSnapshot' = given
      /\ UNCHANGED <<store, writer, call, history>>
  BY DEF Publish
<1>2. es \in Seq(Item) /\ OncePerTalent(es)
  BY <1>1 DEF StoreInv, CollectedInv
<1> HIDE DEF es
<1>3. /\ TreeInv' /\ WriterInv' /\ CallInv' /\ byID' = byID /\ boards' = boards
      /\ RanksSeen' = RanksSeen /\ TopsSeen' = TopsSeen
  <2> HIDE DEF given
  <2> QED  BY <1>1, UpdaterRests
<1>4. CollectedInv' /\ Copy' = NoOne
  <2> HIDE DEF given
  <2> QED  BY <1>1 DEF CollectedInv, NotCollecting, Copy
<1>5. Copy = AsBoard(es) /\ Copy # NoOne
  <2>1. AsBoard(es) # NoOne
    BY <1>2, ListAsBoard
  <2> QED  BY <1>1, <2>1 DEF Copy, es
<1>6. given = Promise!RanksOf(AsBoard(es))
  <2>1. /\ Promise!RanksOf(AsBoard(es)) = [t \in ids |-> Promise!RanksOf(AsBoard(es))[t]]
        /\ \A i \in DOMAIN es : ranks[i] = Promise!RanksOf(AsBoard(es))[es[i].id]
    BY <1>2, ListRanks
  <2>2. ASSUME NEW i \in DOMAIN es PROVE given[es[i].id] = ranks[i]
    <3>1. es[i].id \in ids
      OBVIOUS
    <3>2. given[es[i].id] = ranks[CHOOSE k \in DOMAIN es : es[k].id = es[i].id]
      BY <3>1
    <3>3. (CHOOSE k \in DOMAIN es : es[k].id = es[i].id) = i
      BY <1>2, ListAsBoard
    <3> QED  BY <3>2, <3>3
  <2>3. given = [t \in ids |-> given[t]]
    OBVIOUS
  <2> HIDE DEF given, ranks
  <2>4. \A t \in ids : given[t] = Promise!RanksOf(AsBoard(es))[t]
    BY <2>1, <2>2
  <2> HIDE DEF ids
  <2> QED  BY <2>1, <2>3, <2>4
<1>7. rankSnapshot' = Promise!RanksOf(Copy)
  <2> HIDE DEF given
  <2> QED  BY <1>1, <1>5, <1>6
<1> HIDE DEF given
<1>8. Promise!Publish
  BY <1>3, <1>4, <1>5, <1>7 DEF Promise!Publish, Copy
<1> QED  BY <1>3, <1>4, <1>8 DEF StoreInv, Promise!Next

\* The end of the goroutine is not seen.
LEMMA StopStep ==
  ASSUME StoreInv, StopUpdating
  PROVE  StoreInv' /\ UNCHANGED Promise!boardVars
<1>1. /\ collected' = collected /\ rankSnapshot' = rankSnapshot
      /\ UNCHANGED <<store, writer, call, history>>
  BY DEF StopUpdating
<1>2. /\ TreeInv' /\ WriterInv' /\ CallInv' /\ byID' = byID /\ boards' = boards
      /\ RanksSeen' = RanksSeen /\ TopsSeen' = TopsSeen
  BY <1>1, UpdaterRests
<1>3. CollectedInv' /\ Copy' = Copy
  BY <1>1 DEF StoreInv, CollectedInv, Copy
<1>4. UNCHANGED Promise!boardVars
  BY <1>1, <1>2, <1>3, SameBoard
<1> QED  BY <1>2, <1>3, <1>4 DEF StoreInv

-----------------------------------------------------------------------------
(* TreapStore implements Board *)

\* The empty store is the empty board.
LEMMA StoreBegins == StoreInit => StoreInv /\ Promise!Init
<1> SUFFICES ASSUME StoreInit PROVE StoreInv /\ Promise!Init
  OBVIOUS
<1>1. /\ Init /\ mu = NoOne /\ byID = <<>>
      /\ writer = [w \in Writers |-> [pc |-> "idle", talent |-> 0, score |-> 0]]
      /\ call = [r \in RankCalls \cup TopNCalls |-> [pc |-> "idle"]]
      /\ collected = [busy |-> FALSE, entries |-> <<>>] /\ rankSnapshot = <<>> /\ boards = <<byID>>
  BY DEF StoreInit, Init, NotCollecting
<1>2. TreeInv
  BY <1>1, RootInvInit DEF RootInv, TreeInv
<1>3. WriterInv
  <2>1. NoOne \notin Writers
    BY StoreAssumption
  <2> QED  BY <1>1, <2>1 DEF WriterInv, WriterStates
<1>4. CollectedInv /\ Copy = NoOne
  BY <1>1 DEF CollectedInv, Copy
<1>5. CallInv
  BY <1>1 DEF CallInv, RankRead, TopRead
<1>6. <<>> = Promise!Empty
  BY DEF Promise!Empty
<1>7. ASSUME NEW r \in RankCalls PROVE RanksSeen[r] = Promise!IdleRank
  BY <1>1 DEF RanksSeen, RankPhase, Field, Promise!IdleRank
<1>8. ASSUME NEW r \in TopNCalls PROVE TopsSeen[r] = Promise!IdleTop
  <2>1. AsBoard(<<>>) = <<>> /\ ByTalent(<<>>, <<>>) = <<>>
    BY DEF AsBoard, ByTalent
  <2>2. TopsSeen[r] = [pc |-> "idle", at |-> 0, top |-> AsBoard(<<>>),
                       ranks |-> ByTalent(<<>>, <<>>)]
    BY <1>1 DEF TopsSeen, TopPhase, Field
  <2> QED  BY <1>6, <2>1, <2>2 DEF Promise!IdleTop
<1>9. /\ RanksSeen = [r \in RankCalls |-> Promise!IdleRank]
      /\ TopsSeen = [r \in TopNCalls |-> Promise!IdleTop]
  BY <1>7, <1>8, SeenCalls
<1>10. Promise!Init
  BY <1>1, <1>4, <1>6, <1>9 DEF Promise!Init, Copy
<1> QED  BY <1>2, <1>3, <1>4, <1>5, <1>10 DEF StoreInv

\* Every step keeps the invariant, and is a step of Board or none.
LEMMA StoreStep ==
  ASSUME StoreInv, [StoreNext]_allVars
  PROVE  StoreInv' /\ [Promise!Next]_Promise!boardVars
<1>1. ASSUME NEW w \in Writers, Update(w)
      PROVE  StoreInv' /\ [Promise!Next]_Promise!boardVars
  <2>1. ASSUME NEW u \in Updates,
               \/ CreateRecord(w, u[1], toFixedPoint(u[2]))
               \/ LeaveRecord(w, u[1], toFixedPoint(u[2]))
               \/ ImproveScore(w, u[1], toFixedPoint(u[2]))
        PROVE  StoreInv' /\ [Promise!Next]_Promise!boardVars
    <3> DEFINE t == u[1]
               ns == toFixedPoint(u[2])
    <3>1. /\ t \in Talents /\ t \in Int /\ ns \in Int
          /\ ns \in {toFixedPoint(v[2]) : v \in Updates}
      BY UpdatedScore
    <3>2. CreateRecord(w, t, ns) \/ LeaveRecord(w, t, ns) \/ ImproveScore(w, t, ns)
      BY <2>1
    <3> HIDE DEF t, ns
    <3> QED  BY <3>1, <3>2, CreateStep, LeaveStep, ImproveScoreStep
  <2> QED  BY <1>1, <2>1, ImproveEventStep, ImproveTreeStep DEF Update
<1>2. ASSUME NEW r \in RankCalls, Rank(r)
      PROVE  StoreInv' /\ [Promise!Next]_Promise!boardVars
  BY <1>2, RefuseRank, FindStep, LookUpHit, LookUpMiss, EstimateStep, ReadScoreStep, AnswerStep
     DEF Rank
<1>3. ASSUME NEW r \in TopNCalls, TopN(r)
      PROVE  StoreInv' /\ [Promise!Next]_Promise!boardVars
  BY <1>3, RefuseTop, ListStep, RankListStep DEF TopN
<1>4. ASSUME Collect \/ Publish \/ StopUpdating
      PROVE  StoreInv' /\ [Promise!Next]_Promise!boardVars
  BY <1>4, CopyStep, PublishStep, StopStep
<1>5. CASE UNCHANGED allVars
  <2>1. /\ UNCHANGED <<store, writer, call, history>> /\ collected' = collected
        /\ rankSnapshot' = rankSnapshot
    BY <1>5 DEF allVars, ranking
  <2>2. /\ TreeInv' /\ WriterInv' /\ CallInv' /\ byID' = byID /\ boards' = boards
        /\ RanksSeen' = RanksSeen /\ TopsSeen' = TopsSeen
    BY <2>1, UpdaterRests
  <2>3. CollectedInv' /\ Copy' = Copy
    BY <2>1 DEF StoreInv, CollectedInv, Copy
  <2>4. UNCHANGED Promise!boardVars
    BY <2>1, <2>2, <2>3, SameBoard
  <2> QED  BY <2>2, <2>3, <2>4 DEF StoreInv
<1> QED  BY <1>1, <1>2, <1>3, <1>4, <1>5 DEF StoreNext

\* The store does what Board promises, for any writers, readers, updates,
\* talents and limit, and whatever the treap looks like.
THEOREM StoreImplementsBoard == StoreSpec => BoardSpec
<1>1. StoreInit => StoreInv /\ Promise!Init
  BY StoreBegins
<1>2. StoreInv /\ [StoreNext]_allVars => StoreInv' /\ [Promise!Next]_Promise!boardVars
  BY StoreStep
<1> QED  BY <1>1, <1>2, PTL DEF StoreSpec, BoardSpec, Promise!Spec

\* Every snapshot of ranks is that of one whole board there has been.
THEOREM StoreSnapshotsAreTrue == StoreSpec => []SnapshotWasTrue
<1>1. Promised!Spec => []Promised!SnapshotWasTrue
  BY Promised!SnapshotsAreTrue
<1>2. Promised!SnapshotWasTrue => SnapshotWasTrue
  BY RanksOnBoard DEF SnapshotWasTrue, Promise!SnapshotWasTrue, Promised!SnapshotWasTrue
<1> QED  BY <1>1, <1>2, StoreImplementsBoard, SameSpec, PTL DEF BoardSpec


\* Rank's answers are from boards there have been.  Finitely many talents make
\* the count of those above one a number.
THEOREM StoreAnswersFromTheBoards ==
  ASSUME IsFiniteSet(Talents)
  PROVE  StoreSpec => []RankIsFromTheBoards
<1>1. Promised!BoardConstants
  <2>1. Talents \subseteq Int
    BY TreapAssumption
  <2>2. Promised!IsFiniteSet(Talents)
    BY DEF Promised!IsFiniteSet, IsFiniteSet
  <2>3. {toFixedPoint(u[2]) : u \in Updates} \subseteq Int
    BY UpdatedScore
  <2>4. Limit \in Nat \ {0}
    BY StoreAssumption
  <2> QED  BY <2>1, <2>2, <2>3, <2>4 DEF Promised!BoardConstants
<1>2. Promised!Spec => []Promised!RankIsFromTheBoards
  BY <1>1, Promised!RankAnswersFromTheBoards
<1>3. Promised!RankIsFromTheBoards => RankIsFromTheBoards
  <2>1. \A b, t : Promised!Place(b, t) = Promise!Place(b, t)
    BY PlaceOnBoard
  <2>2. \A b : Promised!RanksOf(b) = Promise!RanksOf(b)
    BY RanksOnBoard
  <2> QED
    BY <2>1, <2>2
       DEF RankIsFromTheBoards, Promise!RankIsFromTheBoards, Promised!RankIsFromTheBoards
<1> QED  BY <1>2, <1>3, StoreImplementsBoard, SameSpec, PTL DEF BoardSpec


-----------------------------------------------------------------------------
(* Lists *)

\* The list es is the top of the board b, and its own ranks are the board's.
TopOfBoard(es, b) ==
  /\ DOMAIN es = 1..Len(es)
  /\ Len(es) = IF Cardinality(DOMAIN b) < Limit THEN Cardinality(DOMAIN b) ELSE Limit
  /\ \A i \in DOMAIN es :
       /\ es[i].id \in DOMAIN b /\ es[i].score = b[es[i].id]
       /\ Cardinality(AboveOn(b, es[i].id)) = i - 1
       /\ assignRanksWithTies(es)[i] = Promise!RanksOf(b)[es[i].id]

\* What a call of TopN has read fits the boards bs and the records st.
ListFits(c, bs, st) ==
  /\ c.pc \in {"ranks", "done"} =>
       /\ {"from", "entries", "events"} \subseteq DOMAIN c
       /\ c.from \in DOMAIN bs /\ TopOfBoard(c.entries, bs[c.from])
       /\ \A i \in DOMAIN c.entries :
            <<c.entries[i].id, c.entries[i].score, c.events[i]>> \in st
  /\ c.pc = "done" =>
       \E k \in 1..c.from : \A i \in DOMAIN c.entries :
         /\ c.entries[i].id \in DOMAIN bs[k]
         /\ c.ranks[i] = Promise!RanksOf(bs[k])[c.entries[i].id]

BoardValues == UNION {[S -> Int] : S \in SUBSET Talents}

BoardsKept == boards \in Seq(BoardValues) /\ boards # <<>> /\ byID = boards[Len(boards)]

\* A record is whole, but for that of the talent whose improvement is halfway.
RecordsKept ==
  /\ DOMAIN byID \subseteq DOMAIN event
  /\ \A t \in DOMAIN byID :
       \/ <<t, byID[t], event[t]>> \in stored
       \/ mu # NoOne /\ writer[mu].pc = "event" /\ writer[mu].talent = t
  /\ \A w \in Writers : writer[w].pc = "event" =>
       <<writer[w].talent, writer[w].score, w>> \in stored

\* Between its two locks TopN keeps the writers out.
ListsKept ==
  \A r \in TopNCalls :
    /\ ListFits(call[r], boards, stored)
    /\ call[r].pc = "ranks" => mu = NoOne /\ call[r].from = Len(boards)

ListInv == BoardsKept /\ RecordsKept /\ ListsKept


\* What TopN collects is the top of the board.
LEMMA TopFits ==
  ASSUME RootInv
  PROVE  TopOfBoard(collectTopN(byID, root, Limit), byID)
<1> DEFINE all == collectAllEntries(byID, root)
           e == collectTopN(byID, root, Limit)
<1>0. Limit \in Nat
  BY StoreAssumption
<1>1. InOrder(all, Board(byID)) /\ Records /\ e = Cut(all, Limit)
  BY <1>0, RecordsAgree, CollectionIsInOrder, TopNCutsTheCollection
<1>2. e \in Seq(Item) /\ OncePerTalent(e)
  BY CollectedTop
<1> HIDE DEF e, all
<1>3. all \in Seq(Item) /\ Len(all) = Cardinality(DOMAIN byID) /\ Len(all) \in Nat
  BY <1>1, PlacesOn DEF InOrder
<1>4. DOMAIN e = 1..Len(e) /\ Len(e) = IF Len(all) < Limit THEN Len(all) ELSE Limit
  BY <1>0, <1>1, <1>2, <1>3, CutIsPrefix
<1>5. /\ DOMAIN all = 1..Len(all)
      /\ \A i \in DOMAIN e : i \in DOMAIN all /\ i <= Limit /\ e[i] = all[i]
      /\ \A i \in DOMAIN all : i \notin DOMAIN e => i > Len(e)
  BY <1>0, <1>1, <1>3, <1>4 DEF Cut
<1>6. /\ \A i \in 1..Len(all) : /\ all[i].id \in DOMAIN byID /\ all[i].score = byID[all[i].id]
                                /\ Cardinality(AboveOn(byID, all[i].id)) = i - 1
      /\ \A t \in DOMAIN byID : \E i \in 1..Len(all) : all[i].id = t
      /\ \A i, j \in 1..Len(all) : all[i].id = all[j].id => i = j
  BY <1>1, OnTheBoard
<1>7. ASSUME NEW i \in DOMAIN e
      PROVE  assignRanksWithTies(e)[i] = Promise!RanksOf(byID)[e[i].id]
  <2> DEFINE s == e[i].score
  <2>1. assignRanksWithTies(e)[i] = 1 + Cardinality(Better(e, s))
    BY <1>2, RanksCountTheBetter
  <2>2. ASSUME NEW j \in DOMAIN all, all[j].score > s PROVE j \in DOMAIN e
    <3> SUFFICES ASSUME j \notin DOMAIN e PROVE FALSE
      OBVIOUS
    <3>1. i \in 1..Len(all) /\ j \in 1..Len(all) /\ i < j /\ e[i] = all[i]
      BY <1>4, <1>5
    <3>2. less(all[i].score, all[i].id, all[j].score, all[j].id)
      BY <1>1, <3>1 DEF InOrder
    <3>3. all[i] \in Item /\ all[j] \in Item
      BY <1>3, <3>1, ElementOfSeq
    <3>4. all[i].score \in Int /\ all[j].score \in Int /\ all[j].score > all[i].score
      BY <2>2, <3>1, <3>3 DEF Item
    <3> QED  BY <3>2, <3>4 DEF less
  <2>3. Better(e, s) = Better(all, s)
    <3> HIDE DEF s
    <3> QED  BY <1>5, <2>2 DEF Better
  <2>4. Cardinality(Better(all, s)) = Cardinality({u \in DOMAIN byID : byID[u] > s})
    <3>1. OncePerTalent(all)
      BY <1>5, <1>6 DEF OncePerTalent
    <3>2. /\ \A j \in DOMAIN all : all[j].id \in DOMAIN byID /\ byID[all[j].id] = all[j].score
          /\ \A t \in DOMAIN byID : \E j \in DOMAIN all : all[j].id = t
      BY <1>5, <1>6
    <3>3. DOMAIN byID = {all[j].id : j \in DOMAIN all}
      BY <3>2
    <3>4. \A j \in DOMAIN all : byID[all[j].id] = all[j].score
      BY <3>2
    <3> HIDE DEF s
    <3> QED  BY <1>3, <3>1, <3>3, <3>4, BetterTalents
  <2>5. e[i].id \in DOMAIN byID /\ byID[e[i].id] = s
    BY <1>5, <1>6
  <2>6. Promise!RanksOf(byID)[e[i].id]
          = 1 + Cardinality({u \in DOMAIN byID : byID[u] > byID[e[i].id]})
    BY <2>5, RanksOnBoard
  <2> QED  BY <2>1, <2>3, <2>4, <2>5, <2>6
<1>8. \A i \in DOMAIN e : /\ e[i].id \in DOMAIN byID /\ e[i].score = byID[e[i].id]
                          /\ Cardinality(AboveOn(byID, e[i].id)) = i - 1
  BY <1>5, <1>6
<1>9. Len(e) = IF Cardinality(DOMAIN byID) < Limit THEN Cardinality(DOMAIN byID) ELSE Limit
  BY <1>3, <1>4
<1> QED  BY <1>4, <1>7, <1>8, <1>9 DEF TopOfBoard, e

\* The history grows by the new board.
LEMMA BoardIsKept ==
  ASSUME BoardsKept, Records', boards' = Append(boards, byID')
  PROVE  /\ BoardsKept'
         /\ \A i \in DOMAIN boards : i \in DOMAIN boards' /\ boards'[i] = boards[i]
<1>1. byID' \in BoardValues
  <2>1. byID' \in [DOMAIN byID' -> Int] /\ DOMAIN byID' \in SUBSET Talents
    BY DEF Records
  <2> QED  BY <2>1 DEF BoardValues
<1>2. boards \in Seq(BoardValues)
  BY DEF BoardsKept
<1> HIDE DEF BoardValues
<1>3. /\ boards' \in Seq(BoardValues) /\ Len(boards') = Len(boards) + 1
      /\ boards'[Len(boards')] = byID' /\ Len(boards) \in Nat
      /\ DOMAIN boards = 1..Len(boards) /\ DOMAIN boards' = 1..Len(boards')
      /\ \A i \in 1..Len(boards) : boards'[i] = boards[i]
  BY <1>1, <1>2, AppendProperties, LenProperties
<1>4. boards' # <<>>
  BY <1>3, EmptySeq
<1> QED  BY <1>3, <1>4 DEF BoardsKept

\* What was read fits whatever history follows.
LEMMA StillFits ==
  ASSUME NEW c, NEW bs, NEW bs2, NEW st, NEW st2, ListFits(c, bs, st),
         NEW n \in Nat, DOMAIN bs = 1..n,
         \A i \in DOMAIN bs : i \in DOMAIN bs2 /\ bs2[i] = bs[i], st \subseteq st2
  PROVE  ListFits(c, bs2, st2)
<1>1. CASE c.pc \in {"ranks", "done"}
  <2>1. /\ {"from", "entries", "events"} \subseteq DOMAIN c
        /\ c.from \in DOMAIN bs /\ TopOfBoard(c.entries, bs[c.from])
        /\ \A i \in DOMAIN c.entries :
             <<c.entries[i].id, c.entries[i].score, c.events[i]>> \in st
    BY <1>1 DEF ListFits
  <2>2. c.from \in DOMAIN bs2 /\ bs2[c.from] = bs[c.from]
    BY <2>1
  <2>3. CASE c.pc = "done"
    <3>1. PICK k \in 1..c.from : \A i \in DOMAIN c.entries :
                /\ c.entries[i].id \in DOMAIN bs[k]
                /\ c.ranks[i] = Promise!RanksOf(bs[k])[c.entries[i].id]
      BY <2>3 DEF ListFits
    <3>2. k \in DOMAIN bs
      BY <2>1, <3>1
    <3>3. bs2[k] = bs[k]
      BY <3>2
    <3> QED  BY <2>1, <2>2, <3>1, <3>3 DEF ListFits
  <2>4. CASE c.pc # "done"
    BY <2>1, <2>2, <2>4 DEF ListFits
  <2> QED  BY <2>3, <2>4
<1>2. CASE c.pc \notin {"ranks", "done"}
  BY <1>2 DEF ListFits
<1> QED  BY <1>1, <1>2


\* No list is between the two locks while the store is changed.
LEMMA ListsOutlive ==
  ASSUME BoardsKept, ListsKept, call' = call, stored \subseteq stored',
         \A i \in DOMAIN boards : i \in DOMAIN boards' /\ boards'[i] = boards[i],
         \A r \in TopNCalls : call[r].pc # "ranks"
  PROVE  ListsKept'
<1>1. Len(boards) \in Nat /\ DOMAIN boards = 1..Len(boards)
  BY LenProperties DEF BoardsKept
<1>2. ASSUME NEW r \in TopNCalls
      PROVE  ListFits(call'[r], boards', stored') /\ call'[r].pc # "ranks"
  <2>1. ListFits(call[r], boards, stored) /\ call[r].pc # "ranks"
    BY DEF ListsKept
  <2>2. ListFits(call[r], boards', stored')
    BY <1>1, <2>1, StillFits
  <2> QED  BY <2>1, <2>2
<1> QED  BY <1>2 DEF ListsKept

\* The record of one talent has another event.
LEMMA EventIsSet ==
  ASSUME NEW t, NEW w, event' = SetEvent(t, w)
  PROVE  /\ DOMAIN event' = DOMAIN event \cup {t} /\ event'[t] = w
         /\ \A u \in DOMAIN event : u # t => event'[u] = event[u]
BY DEF SetEvent

\* A new record is whole from the start.
LEMMA CreateKeepsLists ==
  ASSUME StoreInv, Records', ListInv, NEW w \in Writers, NEW t \in Talents, NEW ns \in Int,
         CreateRecord(w, t, ns)
  PROVE  ListInv'
<1>1. /\ mu = NoOne /\ mu' = NoOne /\ Reading = {} /\ call' = call
      /\ byID' = [u \in DOMAIN byID \cup {t} |-> IF u = t THEN ns ELSE byID[u]]
      /\ event' = SetEvent(t, w)
      /\ writer' = [writer EXCEPT ![w] = [pc |-> "done", talent |-> t, score |-> ns]]
      /\ boards' = Append(boards, byID') /\ stored' = stored \cup {<<t, ns, w>>}
  BY DEF CreateRecord, CanLock, NewTalent, WriterAt, Written
<1>2. BoardsKept' /\ \A i \in DOMAIN boards : i \in DOMAIN boards' /\ boards'[i] = boards[i]
  BY <1>1, BoardIsKept DEF ListInv
<1>3. RecordsKept'
  <2>1. /\ DOMAIN byID' = DOMAIN byID \cup {t} /\ byID'[t] = ns
        /\ \A u \in DOMAIN byID : u # t => byID'[u] = byID[u]
    BY <1>1
  <2>2. /\ DOMAIN event' = DOMAIN event \cup {t} /\ event'[t] = w
        /\ \A u \in DOMAIN event : u # t => event'[u] = event[u]
    BY <1>1, EventIsSet
  <2>3. /\ DOMAIN byID \subseteq DOMAIN event
        /\ \A u \in DOMAIN byID : <<u, byID[u], event[u]>> \in stored
        /\ \A v \in Writers : writer[v].pc = "event" =>
             <<writer[v].talent, writer[v].score, v>> \in stored
    BY <1>1 DEF ListInv, RecordsKept
  <2>4. \A u \in DOMAIN byID' : <<u, byID'[u], event'[u]>> \in stored'
    BY <1>1, <2>1, <2>2, <2>3
  <2>5. \A v \in Writers : writer'[v].pc = "event" => v # w /\ writer'[v] = writer[v]
    BY <1>1 DEF StoreInv, WriterInv
  <2>6. \A v \in Writers : writer'[v].pc = "event" =>
             <<writer'[v].talent, writer'[v].score, v>> \in stored'
    BY <1>1, <2>3, <2>5
  <2> QED  BY <2>1, <2>2, <2>3, <2>4, <2>6 DEF RecordsKept
<1>4. ListsKept'
  BY <1>1, <1>2, ListsOutlive DEF ListInv, Reading
<1> QED  BY <1>2, <1>3, <1>4 DEF ListInv

\* An improvement begins: the record of its talent is not whole now.
LEMMA ImproveKeepsLists ==
  ASSUME StoreInv, Records', ListInv, NEW w \in Writers, NEW t \in Talents, NEW ns \in Int,
         ImproveScore(w, t, ns)
  PROVE  ListInv'
<1>1. /\ mu = NoOne /\ mu' = w /\ w # NoOne /\ Reading = {} /\ call' = call /\ event' = event
      /\ t \in DOMAIN byID /\ byID' = [byID EXCEPT ![t] = ns]
      /\ writer' = [writer EXCEPT ![w] = [pc |-> "event", talent |-> t, score |-> ns]]
      /\ boards' = Append(boards, byID') /\ stored' = stored \cup {<<t, ns, w>>}
  BY StoreAssumption DEF ImproveScore, CanLock, WriterAt, Written
<1>2. BoardsKept' /\ \A i \in DOMAIN boards : i \in DOMAIN boards' /\ boards'[i] = boards[i]
  BY <1>1, BoardIsKept DEF ListInv
<1>3. RecordsKept'
  <2>1. DOMAIN byID' = DOMAIN byID /\ \A u \in DOMAIN byID : u # t => byID'[u] = byID[u]
    BY <1>1
  <2>2. /\ DOMAIN byID \subseteq DOMAIN event
        /\ \A u \in DOMAIN byID : <<u, byID[u], event[u]>> \in stored
        /\ \A v \in Writers : writer[v].pc = "event" =>
             <<writer[v].talent, writer[v].score, v>> \in stored
    BY <1>1 DEF ListInv, RecordsKept
  <2>3. /\ writer'[w] = [pc |-> "event", talent |-> t, score |-> ns]
        /\ \A v \in Writers : v # w => writer'[v] = writer[v]
    BY <1>1 DEF StoreInv, WriterInv
  <2>4. mu' # NoOne /\ writer'[mu'].pc = "event" /\ writer'[mu'].talent = t
    BY <1>1, <2>3
  <2>5. \A u \in DOMAIN byID' : u # t => <<u, byID'[u], event'[u]>> \in stored'
    BY <1>1, <2>1, <2>2
  <2>6. ASSUME NEW v \in Writers, writer'[v].pc = "event"
        PROVE  <<writer'[v].talent, writer'[v].score, v>> \in stored'
    BY <1>1, <2>2, <2>3, <2>6
  <2> QED  BY <1>1, <2>1, <2>2, <2>4, <2>5, <2>6 DEF RecordsKept
<1>4. ListsKept'
  BY <1>1, <1>2, ListsOutlive DEF ListInv, Reading
<1> QED  BY <1>2, <1>3, <1>4 DEF ListInv

\* A writer inside the critical section keeps the lists out.
LEMMA NoListWhileWriting ==
  ASSUME StoreInv, ListInv, NEW w \in Writers, writer[w].pc \in {"event", "insert"}
  PROVE  mu = w /\ w # NoOne /\ \A r \in TopNCalls : call[r].pc # "ranks"
BY StoreAssumption DEF StoreInv, WriterInv, ListInv, ListsKept

\* Score and event belong together again.
LEMMA EventKeepsLists ==
  ASSUME StoreInv, ListInv, NEW w \in Writers, ImproveEvent(w)
  PROVE  ListInv'
<1> DEFINE t == writer[w].talent
<1>1. /\ writer[w].pc = "event" /\ event' = SetEvent(t, w)
      /\ writer' = [writer EXCEPT ![w].pc = "insert"]
      /\ UNCHANGED <<byID, mu, call, stored, boards>>
  BY DEF ImproveEvent, history
<1>2. mu = w /\ w # NoOne /\ \A r \in TopNCalls : call[r].pc # "ranks"
  BY <1>1, NoListWhileWriting
<1>3. t \in DOMAIN byID /\ byID[t] = writer[w].score
  BY <1>2 DEF StoreInv, TreeInv
<1>4. RecordsKept'
  <2>1. /\ DOMAIN event' = DOMAIN event \cup {t} /\ event'[t] = w
        /\ \A u \in DOMAIN event : u # t => event'[u] = event[u]
    <3> HIDE DEF t
    <3> QED  BY <1>1, EventIsSet
  <2>2. /\ DOMAIN byID \subseteq DOMAIN event
        /\ \A u \in DOMAIN byID : u # t => <<u, byID[u], event[u]>> \in stored
        /\ \A v \in Writers : writer[v].pc = "event" =>
             <<writer[v].talent, writer[v].score, v>> \in stored
    BY <1>2 DEF ListInv, RecordsKept
  <2>3. <<t, byID[t], w>> \in stored
    BY <1>1, <1>3, <2>2
  <2> HIDE DEF t
  <2>4. \A u \in DOMAIN byID' : <<u, byID'[u], event'[u]>> \in stored'
    BY <1>1, <2>1, <2>2, <2>3
  <2>5. \A v \in Writers : writer'[v].pc = "event" => writer'[v] = writer[v]
    BY <1>1 DEF StoreInv, WriterInv
  <2>6. \A v \in Writers : writer'[v].pc = "event" =>
             <<writer'[v].talent, writer'[v].score, v>> \in stored'
    BY <1>1, <2>2, <2>5
  <2> QED  BY <1>1, <2>1, <2>2, <2>4, <2>6 DEF RecordsKept
<1>5. BoardsKept'
  BY <1>1 DEF ListInv, BoardsKept
<1>6. ListsKept'
  BY <1>1, <1>2, ListsOutlive DEF ListInv
<1> QED  BY <1>4, <1>5, <1>6 DEF ListInv

\* The tree has no part in the records.
LEMMA TreeKeepsLists ==
  ASSUME StoreInv, ListInv, NEW w \in Writers, ImproveTree(w)
  PROVE  ListInv'
<1>1. /\ writer[w].pc = "insert" /\ mu' = NoOne
      /\ writer' = [writer EXCEPT ![w].pc = "done"]
      /\ UNCHANGED <<byID, event, call, stored, boards>>
  BY DEF ImproveTree, history
<1>2. mu = w /\ w # NoOne /\ \A r \in TopNCalls : call[r].pc # "ranks"
  BY <1>1, NoListWhileWriting
<1>3. RecordsKept'
  <2>1. /\ DOMAIN byID \subseteq DOMAIN event
        /\ \A u \in DOMAIN byID : <<u, byID[u], event[u]>> \in stored
        /\ \A v \in Writers : writer[v].pc = "event" =>
             <<writer[v].talent, writer[v].score, v>> \in stored
    BY <1>1, <1>2 DEF ListInv, RecordsKept
  <2>2. \A v \in Writers : writer'[v].pc = "event" => writer'[v] = writer[v]
    BY <1>1 DEF StoreInv, WriterInv
  <2> QED  BY <1>1, <2>1, <2>2 DEF RecordsKept
<1>4. BoardsKept'
  BY <1>1 DEF ListInv, BoardsKept
<1>5. ListsKept'
  BY <1>1, <1>2, ListsOutlive DEF ListInv
<1> QED  BY <1>3, <1>4, <1>5 DEF ListInv


\* A step of TopN: the store rests, and the call's own reading fits it.
LEMMA ListGoesOn ==
  ASSUME StoreInv, ListInv, NEW r \in TopNCalls, NEW f, Goes(r, f),
         UNCHANGED <<store, writer, ranking, history>>,
         ListFits(Over(f, call[r]), boards, stored),
         Over(f, call[r]).pc = "ranks" => mu = NoOne /\ Over(f, call[r]).from = Len(boards)
  PROVE  ListInv'
<1>1. UNCHANGED <<byID, event, mu, writer, stored, boards>>
  BY DEF store, history
<1>2. DOMAIN call = RankCalls \cup TopNCalls
  BY DEF StoreInv, CallInv
<1>3. /\ call'[r] = Over(f, call[r])
      /\ \A q \in TopNCalls : q # r => call'[q] = call[q]
  BY <1>2, CallGoes
<1>4. ASSUME NEW q \in TopNCalls
      PROVE  /\ ListFits(call'[q], boards, stored)
             /\ call'[q].pc = "ranks" => mu = NoOne /\ call'[q].from = Len(boards)
  <2>1. CASE q = r
    BY <1>3, <2>1
  <2>2. CASE q # r
    BY <1>3, <2>2 DEF ListInv, ListsKept
  <2> QED  BY <2>1, <2>2
<1> QED  BY <1>1, <1>4 DEF ListInv, BoardsKept, RecordsKept, ListsKept

\* A refused call lists nothing.
LEMMA RefusalKeepsLists ==
  ASSUME StoreInv, ListInv, NEW r \in TopNCalls, BadRequest(r)
  PROVE  ListInv'
<1> DEFINE f == [pc |-> "bad_request"]
           d == Over(f, call[r])
<1>1. Goes(r, f) /\ UNCHANGED <<store, writer, ranking, history>>
  BY DEF BadRequest
<1>2. d.pc = "bad_request"
  BY DEF Over
<1> HIDE DEF f, d
<1>3. ListFits(d, boards, stored)
  BY <1>2 DEF ListFits
<1> QED  BY <1>1, <1>2, <1>3, ListGoesOn DEF d

\* What is collected under mu.RLock fits the last board.
LEMMA CollectKeepsLists ==
  ASSUME StoreInv, ListInv, NEW r \in TopNCalls, CollectTop(r)
  PROVE  ListInv'
<1> DEFINE n == Len(boards)
           es == collectTopN(byID, root, Limit)
           ev == [i \in DOMAIN es |-> event[es[i].id]]
           f == [pc |-> "ranks", from |-> n, entries |-> es, events |-> ev]
           d == Over(f, call[r])
<1>1. /\ Goes(r, f) /\ mu = NoOne
      /\ UNCHANGED <<store, writer, ranking, history>>
  BY DEF CollectTop, CanRLock
<1>2. TopOfBoard(es, byID)
  BY <1>1, WholeTree, TopFits DEF StoreInv
<1>3. n \in DOMAIN boards /\ boards[n] = byID
  <2>1. boards \in Seq(BoardValues) /\ boards # <<>> /\ byID = boards[n]
    BY DEF ListInv, BoardsKept
  <2> HIDE DEF BoardValues
  <2> QED  BY <2>1, LenProperties, EmptySeq
<1> HIDE DEF n, es
<1>4. \A i \in DOMAIN es : <<es[i].id, es[i].score, ev[i]>> \in stored
  <2>1. \A t \in DOMAIN byID : <<t, byID[t], event[t]>> \in stored
    BY <1>1 DEF ListInv, RecordsKept
  <2>2. \A i \in DOMAIN es : es[i].id \in DOMAIN byID /\ es[i].score = byID[es[i].id]
    BY <1>2 DEF TopOfBoard
  <2> QED  BY <2>1, <2>2
<1> HIDE DEF ev
<1>5. /\ DOMAIN f = {"pc", "from", "entries", "events"}
      /\ f.pc = "ranks" /\ f.from = n /\ f.entries = es /\ f.events = ev
  OBVIOUS
<1> HIDE DEF f
<1>6. /\ d.pc = "ranks" /\ d.from = n /\ d.entries = es /\ d.events = ev
      /\ {"from", "entries", "events"} \subseteq DOMAIN d
  BY <1>5 DEF Over
<1> HIDE DEF d
<1>7. ListFits(d, boards, stored)
  BY <1>2, <1>3, <1>4, <1>6 DEF ListFits
<1> QED  BY <1>1, <1>6, <1>7, ListGoesOn DEF d, n

\* The ranks are those of the snapshot's board, or of the list's own.
LEMMA AssignKeepsLists ==
  ASSUME StoreInv, SnapshotWasTrue, ListInv, NEW r \in TopNCalls, AssignTopRanks(r)
  PROVE  ListInv'
<1> DEFINE c == call[r]
           es == c.entries
           ranks == IF \A i \in DOMAIN es : es[i].id \in DOMAIN rankSnapshot
                    THEN [i \in DOMAIN es |-> rankSnapshot[es[i].id]]
                    ELSE assignRanksWithTies(es)
           f == [pc |-> "done", ranks |-> ranks]
           d == Over(f, c)
<1>1. /\ c.pc = "ranks" /\ Goes(r, f) /\ UNCHANGED <<store, writer, ranking, history>>
  BY DEF AssignTopRanks
<1>2. /\ {"from", "entries", "events"} \subseteq DOMAIN c
      /\ c.from \in DOMAIN boards /\ TopOfBoard(es, boards[c.from])
      /\ \A i \in DOMAIN es : <<es[i].id, es[i].score, c.events[i]>> \in stored
      /\ c.from = Len(boards)
  BY <1>1 DEF ListInv, ListsKept, ListFits
<1>3. Len(boards) \in Nat /\ DOMAIN boards = 1..Len(boards)
  BY LenProperties DEF ListInv, BoardsKept
<1>4. \E k \in 1..c.from : \A i \in DOMAIN es :
        es[i].id \in DOMAIN boards[k] /\ ranks[i] = Promise!RanksOf(boards[k])[es[i].id]
  <2> HIDE DEF es
  <2>1. CASE \A i \in DOMAIN es : es[i].id \in DOMAIN rankSnapshot
    <3>1. PICK k \in DOMAIN boards : rankSnapshot = Promise!RanksOf(boards[k])
      BY DEF SnapshotWasTrue, Promise!SnapshotWasTrue
    <3>2. DOMAIN rankSnapshot = DOMAIN boards[k]
      BY <3>1, RanksOnBoard
    <3>3. \A i \in DOMAIN es : ranks[i] = rankSnapshot[es[i].id]
      BY <2>1
    <3> HIDE DEF ranks, c
    <3> QED  BY <1>2, <1>3, <2>1, <3>1, <3>2, <3>3
  <2>2. CASE ~\A i \in DOMAIN es : es[i].id \in DOMAIN rankSnapshot
    <3>1. ranks = assignRanksWithTies(es)
      BY <2>2
    <3> HIDE DEF ranks, c
    <3> QED  BY <1>2, <1>3, <3>1 DEF TopOfBoard
  <2> QED  BY <2>1, <2>2
<1> HIDE DEF c, ranks
<1>5. DOMAIN f = {"pc", "ranks"} /\ f.pc = "done" /\ f.ranks = ranks
  OBVIOUS
<1> HIDE DEF f
<1>6. /\ d.pc = "done" /\ d.ranks = ranks /\ d.from = c.from
      /\ d.entries = es /\ d.events = c.events
      /\ {"from", "entries", "events"} \subseteq DOMAIN d
  BY <1>2, <1>5 DEF Over
<1> HIDE DEF d, es
<1>7. ListFits(d, boards, stored)
  BY <1>2, <1>4, <1>6 DEF ListFits
<1> QED  BY <1>1, <1>6, <1>7, ListGoesOn DEF d, c


\* Nothing the others do reaches the lists.
LEMMA OthersKeepLists ==
  ASSUME ListInv, UNCHANGED <<byID, event, mu, stored, boards>>,
         \A w \in Writers : writer'[w].pc = "event" => writer'[w] = writer[w],
         mu # NoOne => writer'[mu] = writer[mu],
         \A r \in TopNCalls : call'[r] = call[r]
  PROVE  ListInv'
<1>1. BoardsKept'
  BY DEF ListInv, BoardsKept
<1>2. RecordsKept'
  BY DEF ListInv, RecordsKept
<1>3. ListsKept'
  <2>1. ASSUME NEW r \in TopNCalls
        PROVE  /\ ListFits(call'[r], boards, stored)
               /\ call'[r].pc = "ranks" => mu = NoOne /\ call'[r].from = Len(boards)
    BY DEF ListInv, ListsKept
  <2> QED  BY <2>1 DEF ListsKept
<1> QED  BY <1>1, <1>2, <1>3 DEF ListInv

\* A score that is no better changes no record.
LEMMA LeaveKeepsLists ==
  ASSUME StoreInv, ListInv, NEW w \in Writers, NEW t, NEW ns, LeaveRecord(w, t, ns)
  PROVE  ListInv'
<1>1. /\ mu = NoOne /\ UNCHANGED <<byID, event, mu, call, stored, boards>>
      /\ writer' = [writer EXCEPT ![w] = [pc |-> "done", talent |-> t, score |-> ns]]
  BY DEF LeaveRecord, CanLock, NotAnImprovement, WriterAt, vars, history
<1>2. \A v \in Writers : writer'[v].pc = "event" => writer'[v] = writer[v]
  BY <1>1 DEF StoreInv, WriterInv
<1> QED  BY <1>1, <1>2, OthersKeepLists

\* Calls of Rank change nothing but themselves.
LEMMA RankKeepsLists ==
  ASSUME StoreInv, ListInv, NEW r \in RankCalls, Rank(r)
  PROVE  ListInv'
<1>1. /\ UNCHANGED <<store, writer, ranking, history>>
      /\ \E f : Goes(r, f)
  BY DEF Rank, BadRequest, FindRecord, LookUpRank, ComputeRank, ReadScore, ReadEvent
<1>2. PICK f : Goes(r, f)
  BY <1>1
<1>3. \A q \in TopNCalls : q # r /\ call'[q] = call[q]
  BY <1>2, CallGoes, StoreAssumption DEF StoreInv, CallInv
<1> QED  BY <1>1, <1>3, OthersKeepLists DEF store, history

\* Every step keeps the lists coherent.
LEMMA ListInvStep ==
  ASSUME StoreInv, StoreInv', SnapshotWasTrue, ListInv, [StoreNext]_allVars
  PROVE  ListInv'
<1>1. ASSUME NEW w \in Writers, Update(w) PROVE ListInv'
  <2>1. ASSUME NEW u \in Updates,
               \/ CreateRecord(w, u[1], toFixedPoint(u[2]))
               \/ LeaveRecord(w, u[1], toFixedPoint(u[2]))
               \/ ImproveScore(w, u[1], toFixedPoint(u[2]))
        PROVE  ListInv'
    <3> DEFINE t == u[1]
               ns == toFixedPoint(u[2])
    <3>1. t \in Talents /\ ns \in Int
      BY UpdatedScore
    <3>2. CreateRecord(w, t, ns) \/ LeaveRecord(w, t, ns) \/ ImproveScore(w, t, ns)
      BY <2>1
    <3>3. Records'
      BY DEF StoreInv, TreeInv
    <3> HIDE DEF t, ns
    <3> QED  BY <3>1, <3>2, <3>3, CreateKeepsLists, LeaveKeepsLists, ImproveKeepsLists
  <2> QED  BY <1>1, <2>1, EventKeepsLists, TreeKeepsLists DEF Update
<1>2. ASSUME NEW r \in TopNCalls, TopN(r) PROVE ListInv'
  BY <1>2, RefusalKeepsLists, CollectKeepsLists, AssignKeepsLists DEF TopN
<1>3. CASE Collect \/ Publish \/ StopUpdating
  BY <1>3, OthersKeepLists DEF Collect, Publish, StopUpdating, store, history
<1>4. CASE UNCHANGED allVars
  BY <1>4, OthersKeepLists DEF allVars, store, history
<1> QED  BY <1>1, <1>2, <1>3, <1>4, RankKeepsLists DEF StoreNext

\* At first there are no records and no lists.
LEMMA ListBegins == StoreInit => ListInv
<1> SUFFICES ASSUME StoreInit PROVE ListInv
  OBVIOUS
<1>1. /\ boards = <<byID>> /\ DOMAIN byID = {} /\ byID \in [{} -> Int]
      /\ \A w \in Writers : writer[w].pc = "idle"
      /\ \A r \in TopNCalls : call[r].pc = "idle"
  BY DEF StoreInit, Init
<1>2. byID \in BoardValues
  BY <1>1 DEF BoardValues
<1>3. BoardsKept
  <2> HIDE DEF BoardValues
  <2> QED  BY <1>1, <1>2 DEF BoardsKept
<1> QED  BY <1>1, <1>3 DEF ListInv, RecordsKept, ListsKept, ListFits

\* TopN lists the first talents of the board it locked, each with the score and
\* the event that belong together, and gives them the ranks of one board there
\* had been by then, that of the last snapshot or the one it locked.
THEOREM StoreListsAreCoherent == StoreSpec => []TopNIsCoherent
<1>1. StoreInit => StoreInv /\ ListInv
  BY StoreBegins, ListBegins
<1>2. StoreInv /\ [StoreNext]_allVars => StoreInv'
  BY StoreStep
<1>3. StoreInv /\ StoreInv' /\ SnapshotWasTrue /\ ListInv /\ [StoreNext]_allVars => ListInv'
  BY ListInvStep
<1>4. ListInv => TopNIsCoherent
  <2> SUFFICES ASSUME ListInv, NEW r \in Listed
               PROVE  LET es == call[r].entries
                          b  == boards[call[r].from]
                      IN  /\ Len(es) = IF Cardinality(DOMAIN b) < Limit
                                       THEN Cardinality(DOMAIN b) ELSE Limit
                          /\ \A i \in DOMAIN es :
                               /\ es[i].score = b[es[i].id]
                               /\ Cardinality({u \in DOMAIN b :
                                                 less(b[u], u, es[i].score, es[i].id)}) = i - 1
                               /\ <<es[i].id, es[i].score, call[r].events[i]>> \in stored
                          /\ \E k \in 1..call[r].from : \A i \in DOMAIN es :
                               es[i].id \in DOMAIN boards[k]
                                 /\ call[r].ranks[i] = RanksOf(boards[k])[es[i].id]
    BY DEF TopNIsCoherent
  <2>1. ListFits(call[r], boards, stored) /\ call[r].pc = "done"
    BY DEF Listed, ListInv, ListsKept
  <2> QED  BY <2>1 DEF ListFits, TopOfBoard, AboveOn, RanksOf
<1> QED  BY <1>1, <1>2, <1>3, <1>4, StoreSnapshotsAreTrue, PTL DEF StoreSpec
=============================================================================
