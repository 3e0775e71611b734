------------------------- MODULE DedupeWindowProofs -------------------------
(* What recording, evicting and forgetting do to a window of the deduper.   *)
EXTENDS DedupeWindow, FiniteSetTheorems, SequenceTheorems, TLAPS

\* Dropping the i-th id keeps the order of the others.
LEMMA DropAtShape ==
  ASSUME NEW S, NEW w \in Seq(S), NEW i \in 1..Len(w)
  PROVE  /\ DropAt(w, i) \in Seq(S)
         /\ Len(DropAt(w, i)) = Len(w) - 1
         /\ \A k \in 1..(Len(w) - 1) :
              DropAt(w, i)[k] = IF k < i THEN w[k] ELSE w[k + 1]
<1> DEFINE before == SubSeq(w, 1, i - 1)
           after  == SubSeq(w, i + 1, Len(w))
<1>1. /\ before \in Seq(S) /\ Len(before) = i - 1
      /\ \A k \in 1..(i - 1) : before[k] = w[k]
  <2>1. \A k \in 1..(i - 1) : w[k] \in S
    BY ElementOfSeq, LenProperties
  <2> QED  BY <2>1, SubSeqProperties, LenProperties
<1>2. /\ after \in Seq(S) /\ Len(after) = Len(w) - i
      /\ \A k \in 1..(Len(w) - i) : after[k] = w[i + k]
  <2>1. \A k \in (i + 1)..Len(w) : w[k] \in S
    BY ElementOfSeq, LenProperties
  <2> QED  BY <2>1, SubSeqProperties, LenProperties
<1>3. Len(w) \in Nat /\ i \in Int /\ 1 <= i /\ i <= Len(w)
  BY LenProperties
<1> HIDE DEF before, after
<1>4. /\ before \o after \in Seq(S) /\ Len(before \o after) = Len(w) - 1
      /\ \A k \in 1..(Len(w) - 1) :
           (before \o after)[k] = IF k <= i - 1 THEN before[k] ELSE after[k - (i - 1)]
  <2>1. Len(before) + Len(after) = Len(w) - 1
    BY <1>1, <1>2, <1>3
  <2>2. /\ before \o after \in Seq(S) /\ Len(before \o after) = Len(before) + Len(after)
        /\ \A k \in 1..(Len(before) + Len(after)) :
             (before \o after)[k] = IF k <= Len(before) THEN before[k] ELSE after[k - Len(before)]
    BY <1>1, <1>2, ConcatProperties
  <2> QED  BY <2>1, <2>2, <1>1
<1> DEFINE both == before \o after
<1> HIDE DEF both
<1>5. ASSUME NEW k \in 1..(Len(w) - 1)
      PROVE  both[k] = IF k < i THEN w[k] ELSE w[k + 1]
  <2>0. both[k] = IF k <= i - 1 THEN before[k] ELSE after[k - (i - 1)]
    BY <1>4 DEF both
  <2>1. CASE k < i
    BY <2>0, <2>1, <1>1, <1>3
  <2>2. CASE k >= i
    <3>1. k - (i - 1) \in 1..(Len(w) - i) /\ i + (k - (i - 1)) = k + 1
      BY <2>2, <1>3
    <3>2. after[k - (i - 1)] = w[k + 1]
      BY <3>1, <1>2
    <3> QED  BY <3>2, <2>0, <2>2, <1>3
  <2> QED  BY <2>1, <2>2, <1>3
<1> QED  BY <1>4, <1>5 DEF DropAt, both, before, after

\* Forgetting an id removes exactly that id.
LEMMA UnrecordForgets ==
  ASSUME NEW Ids, NEW w \in Windows(Ids), NEW id
  PROVE  /\ Unrecord(w, id) \in Windows(Ids)
         /\ Recorded(Unrecord(w, id)) = Recorded(w) \ {id}
<1>1. CASE id \notin Recorded(w)
  BY <1>1 DEF Unrecord
<1>2. CASE id \in Recorded(w)
  <2> DEFINE i == CHOOSE j \in DOMAIN w : w[j] = id
             v == DropAt(w, i)
  <2>1. /\ w \in Seq(Ids) /\ Len(w) \in Nat /\ DOMAIN w = 1..Len(w) /\ Len(w) <= MaxSize
        /\ \A j, k \in 1..Len(w) : w[j] = w[k] => j = k
    BY LenProperties DEF Windows
  <2>2. i \in 1..Len(w) /\ w[i] = id
    BY <1>2, <2>1 DEF Recorded
  <2> HIDE DEF i
  <2>3. /\ v \in Seq(Ids) /\ Len(v) = Len(w) - 1 /\ DOMAIN v = 1..(Len(w) - 1)
        /\ \A k \in 1..(Len(w) - 1) : v[k] = IF k < i THEN w[k] ELSE w[k + 1]
    <3>1. /\ v \in Seq(Ids) /\ Len(v) = Len(w) - 1
          /\ \A k \in 1..(Len(w) - 1) : v[k] = IF k < i THEN w[k] ELSE w[k + 1]
      BY <2>1, <2>2, DropAtShape
    <3> HIDE DEF v
    <3> QED  BY <3>1, LenProperties
  <2> HIDE DEF v
  <2>4. \A j, k \in DOMAIN v : v[j] = v[k] => j = k
    BY <2>1, <2>2, <2>3
  <2>5. Recorded(v) \subseteq Recorded(w) \ {id}
    BY <2>1, <2>2, <2>3 DEF Recorded
  <2>6. ASSUME NEW x \in Recorded(w) \ {id}
        PROVE  x \in Recorded(v)
    <3>1. PICK j \in 1..Len(w) : w[j] = x /\ j # i
      BY <2>1, <2>2 DEF Recorded
    <3>2. CASE j < i
      BY <3>1, <3>2, <2>1, <2>2, <2>3 DEF Recorded
    <3>3. CASE j > i
      <4>1. j - 1 \in 1..(Len(w) - 1) /\ v[j - 1] = x
        BY <3>1, <3>3, <2>1, <2>2, <2>3
      <4> QED  BY <4>1, <2>3 DEF Recorded
    <3> QED  BY <3>1, <3>2, <3>3, <2>1, <2>2
  <2>7. v \in Windows(Ids)
    BY <2>1, <2>3, <2>4, MaxSizeAssumption DEF Windows
  <2>8. Unrecord(w, id) = v
    BY <1>2 DEF Unrecord, v, i
  <2> QED  BY <2>5, <2>6, <2>7, <2>8
<1> QED  BY <1>1, <1>2

\* Recording a new id keeps the window well formed; all it can forget is the
\* oldest id, and only when the window is full.
LEMMA RecordNewRecords ==
  ASSUME NEW Ids, NEW w \in Windows(Ids), NEW id \in Ids, id \notin Recorded(w)
  PROVE  /\ RecordNew(w, id) \in Windows(Ids)
         /\ id \in Recorded(RecordNew(w, id))
         /\ Recorded(RecordNew(w, id)) \subseteq Recorded(w) \cup {id}
         /\ Len(w) < MaxSize =>
              Recorded(RecordNew(w, id)) = Recorded(w) \cup {id}
<1> DEFINE e == EvictFIFO(w)
           v == Append(e, id)
<1>1. /\ w \in Seq(Ids) /\ Len(w) \in Nat /\ DOMAIN w = 1..Len(w) /\ Len(w) <= MaxSize
      /\ \A j, k \in 1..Len(w) : w[j] = w[k] => j = k
      /\ \A j \in 1..Len(w) : w[j] # id
  BY LenProperties DEF Windows, Recorded
<1>2. /\ e \in Seq(Ids) /\ Len(e) < MaxSize /\ Len(e) \in Nat /\ DOMAIN e = 1..Len(e)
      /\ \A j, k \in 1..Len(e) : e[j] = e[k] => j = k
      /\ Recorded(e) \subseteq Recorded(w)
      /\ Len(w) < MaxSize => e = w
  <2>1. CASE Len(w) < MaxSize
    <3>1. ~(Len(w) >= MaxSize)
      <4>1. Len(w) \in Int /\ MaxSize \in Int
        BY <1>1, MaxSizeAssumption
      <4> QED  BY <4>1, <2>1
    <3>2. e = w
      BY <3>1, Zenon DEF EvictFIFO
    <3> QED  BY <3>2, <2>1, <1>1
  <2>2. CASE Len(w) >= MaxSize
    <3>1. w # <<>> /\ e = Tail(w)
      BY <2>2, <1>1, MaxSizeAssumption, EmptySeq DEF EvictFIFO
    <3>2. /\ e \in Seq(Ids) /\ Len(e) = Len(w) - 1
          /\ \A i \in 1..(Len(w) - 1) : e[i] = w[i + 1]
      BY <3>1, <1>1, HeadTailProperties
    <3>3. Len(e) \in Nat /\ DOMAIN e = 1..Len(e)
      BY <3>2, LenProperties
    <3> HIDE DEF e
    <3>4. \A i \in 1..Len(e) : i + 1 \in 1..Len(w) /\ e[i] = w[i + 1]
      BY <3>2, <3>3, <1>1
    <3>5. Recorded(e) \subseteq Recorded(w)
      BY <3>3, <3>4, <1>1 DEF Recorded
    <3>6. \A j, k \in 1..Len(e) : e[j] = e[k] => j = k
      <4> SUFFICES ASSUME NEW j \in 1..Len(e), NEW k \in 1..Len(e), e[j] = e[k]
                   PROVE  j = k
        OBVIOUS
      <4>1. j + 1 = k + 1
        BY <3>4, <1>1
      <4> QED  BY <4>1, <3>3
    <3> QED  BY <3>2, <3>3, <3>5, <3>6, <2>2, <1>1, MaxSizeAssumption
  <2> QED  BY <2>1, <2>2, <1>1, MaxSizeAssumption
<1> HIDE DEF e
<1>3. /\ v \in Seq(Ids) /\ Len(v) = Len(e) + 1 /\ DOMAIN v = 1..(Len(e) + 1)
      /\ \A i \in 1..Len(e) : v[i] = e[i]
      /\ v[Len(e) + 1] = id
  BY <1>2, AppendProperties, LenProperties
<1> HIDE DEF v
<1>4. \A j \in 1..Len(e) : e[j] # id
  BY <1>1, <1>2 DEF Recorded
<1>5. \A j, k \in DOMAIN v : v[j] = v[k] => j = k
  BY <1>2, <1>3, <1>4
<1>6. Recorded(v) = Recorded(e) \cup {id}
  BY <1>2, <1>3 DEF Recorded
<1>7. v \in Windows(Ids)
  BY <1>2, <1>3, <1>5, MaxSizeAssumption DEF Windows
<1>8. RecordNew(w, id) = v
  BY DEF RecordNew, v, e
<1> QED  BY <1>2, <1>6, <1>7, <1>8

\* When all ids fit in the window, a new id never finds it full.
LEMMA NoEvictionWhenIdsFit ==
  ASSUME NEW Ids, IsFiniteSet(Ids), Cardinality(Ids) <= MaxSize,
         NEW w \in Windows(Ids), NEW id \in Ids, id \notin Recorded(w)
  PROVE  Len(w) < MaxSize
<1>1. /\ w \in [1..Len(w) -> Ids] /\ Len(w) \in Nat /\ DOMAIN w = 1..Len(w)
      /\ \A j, k \in 1..Len(w) : w[j] = w[k] => j = k
  BY LenProperties DEF Windows
<1>2. w \in [1..Len(w) -> Ids \ {id}]
  BY <1>1 DEF Recorded
<1>3. w \in Injection(1..Len(w), Ids \ {id})
  BY <1>1, <1>2 DEF Injection, IsInjective
<1>4. /\ IsFiniteSet(Ids \ {id}) /\ Cardinality(Ids \ {id}) = Cardinality(Ids) - 1
      /\ Cardinality(Ids) \in Nat
  BY FS_RemoveElement, FS_CardinalityType
<1>5. Cardinality(1..Len(w)) <= Cardinality(Ids \ {id})
  BY <1>3, <1>4, FS_Injection
<1>6. Cardinality(1..Len(w)) = Len(w)
  <2>1. Cardinality(1..Len(w)) = IF 1 > Len(w) THEN 0 ELSE Len(w) - 1 + 1
    BY <1>1, FS_Interval
  <2> QED  BY <2>1, <1>1
<1> QED  BY <1>1, <1>4, <1>5, <1>6, MaxSizeAssumption

-----------------------------------------------------------------------------
(* How long a window remembers *)

\* age[x] is how many other ids have been recorded since x was, up to MaxSize.
\* The ids behind an id of the window were all recorded after it ...
Aged(w, age) == \A i \in 1..Len(w) : age[w[i]] >= Len(w) - i

\* ... and an id is in the window until MaxSize others have been recorded.
KeepsLast(Ids, w, age) == \A id \in Ids : age[id] < MaxSize => id \in Recorded(w)

Remembers(Ids, w, age) ==
  /\ w \in Windows(Ids)
  /\ age \in [Ids -> 0..MaxSize]
  /\ Aged(w, age)
  /\ KeepsLast(Ids, w, age)

\* The shape of a window, as arithmetic and sequence facts the steps below use.
LEMMA WindowShape ==
  ASSUME NEW Ids, NEW w \in Windows(Ids)
  PROVE  /\ w \in Seq(Ids) /\ Len(w) \in Nat /\ DOMAIN w = 1..Len(w) /\ Len(w) <= MaxSize
         /\ \A i \in 1..Len(w) : w[i] \in Ids
         /\ \A i, j \in 1..Len(w) : w[i] = w[j] => i = j
         /\ MaxSize \in Nat /\ MaxSize > 0
<1>1. w \in Seq(Ids) /\ Len(w) <= MaxSize /\ \A i, j \in DOMAIN w : w[i] = w[j] => i = j
  BY DEF Windows
<1> QED  BY <1>1, LenProperties, ElementOfSeq, MaxSizeAssumption

LEMMA RecordNewShape ==
  ASSUME NEW Ids, NEW w \in Windows(Ids), NEW id \in Ids
  PROVE  LET v == RecordNew(w, id)
         IN  \/ /\ Len(w) < MaxSize /\ Len(v) = Len(w) + 1
                /\ v[Len(w) + 1] = id
                /\ \A i \in 1..Len(w) : v[i] = w[i]
             \/ /\ Len(w) = MaxSize /\ Len(v) = Len(w)
                /\ v[Len(w)] = id
                /\ \A i \in 1..(Len(w) - 1) : v[i] = w[i + 1]
<1> DEFINE v == RecordNew(w, id)
<1>1. w \in Seq(Ids) /\ Len(w) \in Nat /\ Len(w) <= MaxSize /\ MaxSize \in Nat /\ MaxSize > 0
  BY WindowShape
<1>2. CASE Len(w) < MaxSize
  <2>1. ~(Len(w) >= MaxSize)
    BY <1>1, <1>2
  <2>2. EvictFIFO(w) = w
    BY <2>1, Zenon DEF EvictFIFO
  <2>3. v = Append(w, id)
    BY <2>2 DEF RecordNew
  <2> HIDE DEF v
  <2> QED  BY <1>1, <1>2, <2>3, AppendProperties DEF v
<1>3. CASE Len(w) = MaxSize
  <2>1. Len(w) >= MaxSize /\ w # <<>>
    BY <1>1, <1>3, EmptySeq
  <2>2. EvictFIFO(w) = Tail(w)
    BY <2>1, Zenon DEF EvictFIFO
  <2>3. v = Append(Tail(w), id)
    BY <2>2 DEF RecordNew
  <2> DEFINE e == Tail(w)
  <2>4. /\ e \in Seq(Ids) /\ Len(e) = Len(w) - 1
        /\ \A i \in 1..(Len(w) - 1) : e[i] = w[i + 1]
    BY <1>1, <2>1, HeadTailProperties
  <2>5. v = Append(e, id)
    BY <2>3
  <2> HIDE DEF e, v
  <2>6. /\ Len(v) = Len(w) /\ v[Len(w)] = id
        /\ \A i \in 1..(Len(w) - 1) : v[i] = e[i]
    <3>1. /\ Len(v) = Len(e) + 1 /\ v[Len(e) + 1] = id
          /\ \A i \in 1..Len(e) : v[i] = e[i]
      BY <2>4, <2>5, AppendProperties
    <3>2. Len(e) + 1 = Len(w)
      BY <2>4, <1>1
    <3> QED  BY <2>4, <3>1, <3>2
  <2>7. \A i \in 1..(Len(w) - 1) : v[i] = w[i + 1]
    BY <2>4, <2>6
  <2> QED  BY <1>3, <2>6, <2>7 DEF v
<1> QED  BY <1>1, <1>2, <1>3

\* One more record: everyone else ages by one, and the evicted id is MaxSize old.
LEMMA RecordingAges ==
  ASSUME NEW Ids, NEW w, NEW age, Remembers(Ids, w, age),
         NEW id \in Ids, id \notin Recorded(w),
         NEW v, v = RecordNew(w, id),
         NEW old, old = [x \in Ids |-> IF x = id THEN 0
                                      ELSE IF age[x] < MaxSize THEN age[x] + 1 ELSE MaxSize]
  PROVE  Remembers(Ids, v, old)
<1> DEFINE n == Len(w)
<1>1. /\ w \in Windows(Ids) /\ id \notin Recorded(w)
      /\ v = RecordNew(w, id) /\ age \in [Ids -> 0..MaxSize]
      /\ MaxSize \in Nat /\ MaxSize > 0 /\ n \in Nat /\ n <= MaxSize
      /\ DOMAIN w = 1..n
      /\ \A i \in 1..n : w[i] \in Ids /\ w[i] # id
  BY WindowShape DEF Remembers, Recorded
<1>2. /\ v \in Windows(Ids) /\ id \in Recorded(v)
      /\ DOMAIN v = 1..Len(v)
  BY <1>1, RecordNewRecords, WindowShape
<1>3. /\ old \in [Ids -> 0..MaxSize] /\ old[id] = 0
      /\ \A x \in Ids \ {id} :
           old[x] = IF age[x] < MaxSize THEN age[x] + 1 ELSE MaxSize
  BY <1>1
<1>4. \A i \in 1..n : age[w[i]] >= n - i /\ age[w[i]] \in 0..MaxSize
  BY <1>1 DEF Remembers, Aged
<1>5. CASE n < MaxSize
  <2>1. /\ Len(v) = n + 1 /\ v[n + 1] = id
        /\ \A i \in 1..n : v[i] = w[i]
    BY <1>1, <1>5, RecordNewShape
  <2>2. Recorded(v) = Recorded(w) \cup {id}
    BY <1>1, <1>5, RecordNewRecords
  <2> HIDE DEF n
  <2>3. ASSUME NEW i \in 1..(n + 1)
        PROVE  old[v[i]] >= (n + 1) - i
    <3>1. CASE i = n + 1
      BY <3>1, <2>1, <1>1, <1>3
    <3>2. CASE i \in 1..n
      <4>1. /\ age[w[i]] >= n - i /\ age[w[i]] \in 0..MaxSize
            /\ w[i] \in Ids \ {id} /\ v[i] = w[i]
        BY <3>2, <2>1, <1>1, <1>4
      <4>2. old[v[i]] = IF age[w[i]] < MaxSize
                                 THEN age[w[i]] + 1 ELSE MaxSize
        BY <4>1, <1>3
      <4> QED  BY <3>2, <4>1, <4>2, <1>1, <1>5
    <3> QED  BY <3>1, <3>2, <1>1
  <2>4. Aged(v, old)
    BY <2>1, <2>3 DEF Aged
  <2>5. KeepsLast(Ids, v, old)
    BY <1>1, <1>3, <2>2 DEF Remembers, KeepsLast
  <2> QED  BY <1>2, <1>3, <2>4, <2>5 DEF Remembers
<1>6. CASE n = MaxSize
  <2>1. /\ Len(v) = n /\ v[n] = id
        /\ \A i \in 1..(n - 1) : v[i] = w[i + 1]
    BY <1>1, <1>6, RecordNewShape
  <2> HIDE DEF n
  <2>2. ASSUME NEW i \in 1..n
        PROVE  old[v[i]] >= n - i
    <3>1. CASE i = n
      BY <3>1, <2>1, <1>1, <1>3
    <3>2. CASE i \in 1..(n - 1)
      <4>1. i + 1 \in 1..n /\ v[i] = w[i + 1]
        BY <3>2, <2>1, <1>1
      <4>2. /\ age[w[i + 1]] >= n - (i + 1)
            /\ age[w[i + 1]] \in 0..MaxSize
            /\ w[i + 1] \in Ids \ {id}
        BY <4>1, <1>1, <1>4
      <4>3. old[v[i]] = IF age[w[i + 1]] < MaxSize
                                 THEN age[w[i + 1]] + 1 ELSE MaxSize
        BY <4>1, <4>2, <1>3
      <4> QED  BY <3>2, <4>2, <4>3, <1>1
    <3> QED  BY <3>1, <3>2, <1>1
  <2>3. Aged(v, old)
    BY <2>1, <2>2 DEF Aged
  <2>4. ASSUME NEW x \in Ids, old[x] < MaxSize
        PROVE  x \in Recorded(v)
    <3>1. CASE x = id
      BY <3>1, <1>2
    <3>2. CASE x # id
      <4>1. age[x] \in 0..MaxSize /\ age[x] < MaxSize /\ age[x] + 1 < MaxSize
        BY <2>4, <3>2, <1>1, <1>3
      <4>2. PICK j \in 1..n : w[j] = x
        BY <4>1, <1>1 DEF Remembers, KeepsLast, Recorded
      <4>3. j # 1
        BY <4>1, <4>2, <1>1, <1>4, <1>6
      <4>4. j - 1 \in 1..(n - 1) /\ v[j - 1] = x
        BY <4>2, <4>3, <1>1, <2>1
      <4>5. j - 1 \in DOMAIN v
        BY <4>4, <1>1, <1>2, <2>1
      <4> QED  BY <4>4, <4>5 DEF Recorded
    <3> QED  BY <3>1, <3>2
  <2> QED  BY <1>2, <1>3, <2>3, <2>4 DEF Remembers, KeepsLast
<1>7. n < MaxSize \/ n = MaxSize
  <2> HIDE DEF n
  <2> QED  BY <1>1
<1> QED  BY <1>5, <1>6, <1>7

\* A rollback brings the ids behind the forgotten one closer to the head and
\* moves those in front of it no further.
LEMMA ForgettingKeepsAge ==
  ASSUME NEW Ids, NEW w, NEW age, Remembers(Ids, w, age), NEW id \in Ids,
         NEW v, v = Unrecord(w, id),
         NEW old, old = [age EXCEPT ![id] = MaxSize]
  PROVE  Remembers(Ids, v, old)
<1> DEFINE n == Len(w)
<1>1. /\ w \in Windows(Ids) /\ w \in Seq(Ids)
      /\ v = Unrecord(w, id) /\ age \in [Ids -> 0..MaxSize]
      /\ MaxSize \in Nat /\ MaxSize > 0 /\ n \in Nat /\ n <= MaxSize
      /\ DOMAIN w = 1..n
      /\ \A i \in 1..n : w[i] \in Ids
      /\ \A i, j \in 1..n : w[i] = w[j] => i = j
  BY WindowShape DEF Remembers
<1>2. /\ v \in Windows(Ids)
      /\ Recorded(v) = Recorded(w) \ {id}
  BY <1>1, UnrecordForgets
<1>3. /\ old \in [Ids -> 0..MaxSize] /\ old[id] = MaxSize
      /\ \A x \in Ids \ {id} : old[x] = age[x]
  BY <1>1
<1>4. KeepsLast(Ids, v, old)
  BY <1>1, <1>2, <1>3 DEF Remembers, KeepsLast
<1>5. \A i \in 1..n : age[w[i]] >= n - i /\ age[w[i]] \in 0..MaxSize
  BY <1>1 DEF Remembers, Aged
<1>6. Aged(v, old)
  <2>1. CASE id \notin Recorded(w)
    <3>1. v = w
      BY <1>1, <2>1 DEF Unrecord
    <3>2. \A i \in 1..n : w[i] # id
      BY <1>1, <2>1 DEF Recorded
    <3>3. \A i \in 1..n : old[w[i]] = age[w[i]]
      BY <1>1, <1>3, <3>2
    <3> QED  BY <1>5, <3>1, <3>3 DEF Aged
  <2>2. CASE id \in Recorded(w)
    <3> DEFINE k == CHOOSE j \in DOMAIN w : w[j] = id
    <3>1. k \in 1..n /\ w[k] = id
      BY <1>1, <2>2 DEF Recorded
    <3>2. v = DropAt(w, k)
      BY <1>1, <2>2 DEF Unrecord
    <3> HIDE DEF k
    <3>3. /\ Len(v) = n - 1
          /\ \A i \in 1..(n - 1) : v[i] = IF i < k THEN w[i] ELSE w[i + 1]
      <4>1. w \in Seq(Ids) /\ k \in 1..Len(w)
        BY <1>1, <3>1
      <4>2. /\ Len(DropAt(w, k)) = Len(w) - 1
            /\ \A i \in 1..(Len(w) - 1) :
                 DropAt(w, k)[i] = IF i < k THEN w[i] ELSE w[i + 1]
        BY <4>1, DropAtShape
      <4> QED  BY <3>2, <4>2
    <3> HIDE DEF n
    <3>4. ASSUME NEW i \in 1..(n - 1)
          PROVE  old[v[i]] >= (n - 1) - i
      <4>1. CASE i < k
        <5>1. i \in 1..n /\ i # k /\ v[i] = w[i]
          BY <4>1, <3>1, <3>3, <1>1
        <5>2. old[v[i]] = age[w[i]]
          BY <5>1, <3>1, <1>1, <1>3
        <5> QED  BY <5>1, <5>2, <1>1, <1>5
      <4>2. CASE i >= k
        <5>1. i + 1 \in 1..n /\ i + 1 # k /\ v[i] = w[i + 1]
          BY <4>2, <3>1, <3>3, <1>1
        <5>2. old[v[i]] = age[w[i + 1]]
          BY <5>1, <3>1, <1>1, <1>3
        <5> QED  BY <5>1, <5>2, <1>1, <1>5
      <4> QED  BY <4>1, <4>2, <3>1, <1>1
    <3> QED  BY <3>3, <3>4 DEF Aged
  <2> QED  BY <2>1, <2>2
<1> QED  BY <1>2, <1>3, <1>4, <1>6 DEF Remembers

-----------------------------------------------------------------------------
(* The order of a window *)

\* The window recorded x before y.
Before(w, x, y) == \E a, b \in DOMAIN w : a < b /\ w[a] = x /\ w[b] = y

\* A new id comes last, and the others keep their order.
LEMMA RecordNewOrder ==
  ASSUME NEW Ids, NEW w \in Windows(Ids), NEW id \in Ids, id \notin Recorded(w),
         NEW x, NEW y, Before(RecordNew(w, id), x, y)
  PROVE  Before(w, x, y) \/ y = id
<1> DEFINE v == RecordNew(w, id)
<1>1. /\ DOMAIN w = 1..Len(w) /\ Len(w) \in Nat
      /\ DOMAIN v = 1..Len(v) /\ Len(v) \in Nat
  BY RecordNewRecords, WindowShape
<1>2. \/ /\ Len(v) = Len(w) + 1 /\ v[Len(w) + 1] = id
         /\ \A i \in 1..Len(w) : v[i] = w[i]
      \/ /\ Len(v) = Len(w) /\ v[Len(w)] = id
         /\ \A i \in 1..(Len(w) - 1) : v[i] = w[i + 1]
  BY RecordNewShape
<1>3. PICK a \in 1..Len(v), b \in 1..Len(v) : a < b /\ v[a] = x /\ v[b] = y
  BY <1>1 DEF Before
<1> HIDE DEF v
<1>4. CASE b = Len(v)
  BY <1>2, <1>3, <1>4
<1>5. CASE b # Len(v) /\ Len(v) = Len(w) + 1 /\ \A i \in 1..Len(w) : v[i] = w[i]
  <2>1. a \in 1..Len(w) /\ b \in 1..Len(w) /\ w[a] = x /\ w[b] = y
    BY <1>1, <1>3, <1>5
  <2> QED  BY <2>1, <1>1, <1>3 DEF Before
<1>6. CASE b # Len(v) /\ Len(v) = Len(w) /\ \A i \in 1..(Len(w) - 1) : v[i] = w[i + 1]
  <2>0. /\ Len(w) \in Nat /\ Len(v) = Len(w) /\ b # Len(v) /\ a < b
        /\ a \in 1..Len(v) /\ b \in 1..Len(v)
    BY <1>1, <1>3, <1>6
  <2>1. /\ a + 1 \in 1..Len(w) /\ b + 1 \in 1..Len(w) /\ a + 1 < b + 1
        /\ a \in 1..(Len(w) - 1) /\ b \in 1..(Len(w) - 1)
    BY <2>0
  <2>2. w[a + 1] = x /\ w[b + 1] = y
    BY <2>1, <1>3, <1>6
  <2> QED  BY <2>1, <2>2, <1>1 DEF Before
<1> QED  BY <1>2, <1>4, <1>5, <1>6

\* Forgetting an id leaves the others in their order.
LEMMA UnrecordOrder ==
  ASSUME NEW Ids, NEW w \in Windows(Ids), NEW id, NEW x, NEW y,
         Before(Unrecord(w, id), x, y)
  PROVE  Before(w, x, y)
<1>1. CASE id \notin Recorded(w)
  BY <1>1 DEF Unrecord
<1>2. CASE id \in Recorded(w)
  <2> DEFINE k == CHOOSE j \in DOMAIN w : w[j] = id
             v == DropAt(w, k)
  <2>1. w \in Seq(Ids) /\ DOMAIN w = 1..Len(w) /\ Len(w) \in Nat
    BY WindowShape
  <2>2. k \in 1..Len(w)
    BY <1>2, <2>1 DEF Recorded
  <2>3. Before(v, x, y)
    BY <1>2 DEF Unrecord
  <2> HIDE DEF k
  <2>4. /\ v \in Seq(Ids) /\ Len(v) = Len(w) - 1
        /\ \A i \in 1..(Len(w) - 1) : v[i] = IF i < k THEN w[i] ELSE w[i + 1]
    BY <2>1, <2>2, DropAtShape
  <2> HIDE DEF v
  <2>5. DOMAIN v = 1..(Len(w) - 1)
    BY <2>4, LenProperties
  <2>6. PICK a \in 1..(Len(w) - 1), b \in 1..(Len(w) - 1) : a < b /\ v[a] = x /\ v[b] = y
    BY <2>3, <2>5 DEF Before
  <2> DEFINE c == IF a < k THEN a ELSE a + 1
             d == IF b < k THEN b ELSE b + 1
  <2>7. c \in 1..Len(w) /\ d \in 1..Len(w) /\ c < d
    BY <2>1, <2>2, <2>6
  <2>8. w[c] = x /\ w[d] = y
    BY <2>4, <2>6
  <2> HIDE DEF c, d
  <2> QED  BY <2>1, <2>7, <2>8 DEF Before
<1> QED  BY <1>1, <1>2

\* The window that has just forgotten x to record an id is full of ids that
\* were recorded after x.
LEMMA EvictionLeavesFull ==
  ASSUME NEW Ids, NEW w \in Windows(Ids), NEW id \in Ids, id \notin Recorded(w),
         NEW x \in Recorded(w), x \notin Recorded(RecordNew(w, id))
  PROVE  /\ IsFiniteSet(Recorded(RecordNew(w, id)))
         /\ Cardinality(Recorded(RecordNew(w, id))) = MaxSize
         /\ \A y \in Recorded(RecordNew(w, id)) : y = id \/ Before(w, x, y)
<1> DEFINE v == RecordNew(w, id)
<1>1. /\ DOMAIN w = 1..Len(w) /\ Len(w) \in Nat /\ MaxSize \in Nat /\ MaxSize > 0
      /\ DOMAIN v = 1..Len(v) /\ Len(v) \in Nat
      /\ \A i, j \in 1..Len(v) : v[i] = v[j] => i = j
  BY RecordNewRecords, WindowShape
<1>2. ~(Len(w) < MaxSize)
  BY RecordNewRecords
<1>3. /\ Len(w) = MaxSize /\ Len(v) = Len(w) /\ v[Len(w)] = id
      /\ \A i \in 1..(Len(w) - 1) : v[i] = w[i + 1]
  BY <1>2, RecordNewShape
<1> HIDE DEF v
<1>4. PICK a \in 1..Len(w) : w[a] = x
  BY <1>1 DEF Recorded
<1>5. a = 1
  <2> SUFFICES ASSUME a # 1 PROVE FALSE
    OBVIOUS
  <2>1. a - 1 \in 1..(Len(w) - 1) /\ v[a - 1] = x
    BY <1>1, <1>3, <1>4
  <2>2. a - 1 \in DOMAIN v
    BY <1>1, <1>3, <2>1
  <2> QED  BY <2>1, <2>2 DEF Recorded, v
<1>6. ASSUME NEW y \in Recorded(v) PROVE y = id \/ Before(w, x, y)
  <2>1. PICK b \in 1..Len(v) : v[b] = y
    BY <1>1 DEF Recorded
  <2>2. CASE b = Len(v)
    BY <1>3, <2>1, <2>2
  <2>3. CASE b # Len(v)
    <3>1. b \in 1..(Len(w) - 1) /\ b + 1 \in 1..Len(w) /\ 1 < b + 1 /\ 1 \in 1..Len(w)
      BY <1>1, <1>3, <2>1, <2>3
    <3>2. w[b + 1] = y /\ w[1] = x
      BY <1>3, <1>4, <1>5, <2>1, <3>1
    <3> QED  BY <1>1, <3>1, <3>2 DEF Before
  <2> QED  BY <2>2, <2>3
<1>7. IsFiniteSet(Recorded(v)) /\ Cardinality(Recorded(v)) = MaxSize
  <2>1. IsFiniteSet(1..Len(v)) /\ Cardinality(1..Len(v)) = MaxSize
    <3>1. 1 \in Int /\ Len(v) \in Int
      BY <1>1
    <3>2. IsFiniteSet(1..Len(v))
      BY <3>1, FS_Interval
    <3>3. Cardinality(1..Len(v)) = IF 1 > Len(v) THEN 0 ELSE Len(v) - 1 + 1
      BY <3>1, FS_Interval
    <3> QED  BY <3>2, <3>3, <1>1, <1>3
  <2> DEFINE f == [i \in 1..Len(v) |-> v[i]]
  <2>2. f \in Bijection(1..Len(v), Recorded(v))
    <3>1. f \in Injection(1..Len(v), Recorded(v))
      BY <1>1 DEF Injection, IsInjective, Recorded
    <3>2. \A y \in Recorded(v) : \E i \in 1..Len(v) : f[i] = y
      BY <1>1 DEF Recorded
    <3> HIDE DEF f
    <3> QED  BY <3>1, <3>2 DEF Bijection, Injection, Surjection
  <2> HIDE DEF f
  <2>3. ExistsBijection(1..Len(v), Recorded(v))
    BY <2>2 DEF ExistsBijection
  <2> QED  BY <2>1, <2>3, FS_Bijection
<1> QED  BY <1>6, <1>7 DEF v
=============================================================================
