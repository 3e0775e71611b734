------------------------------- MODULE Treap -------------------------------
(***************************************************************************)
(* The treap of internal/adapters/repository and the algorithms over it:   *)
(* fixed-point scores, priorities, insertion, deletion, the two in-order   *)
(* collections, the two ways of computing ranks, and UpdateBestWithMeta as *)
(* the one operation that changes the tree and the map byID together.      *)
(*                                                                         *)
(* A talent id is an integer (only its order matters) with a hash; a Go    *)
(* int64 is an integer from -HalfRange to HalfRange - 1, so overflow and   *)
(* saturation happen within reach of the checker.  What the code does by   *)
(* recursion over a node is a recursive function over the subtrees of that *)
(* node.                                                                   *)
(***************************************************************************)
EXTENDS Integers, Sequences, FiniteSets

CONSTANTS
  Talents,       \* a set of integers
  IdHash,        \* the 31-based hash of each id
  HalfRange,     \* half as many as there are values of scoreFP (2^63 in the code)
  ScoreScale,    \* fixed-point units per score point (10^12 in the code)
  MaxScoreValue  \* bound of scores before scaling, on both sides (10^12)

ASSUME TreapAssumption ==
  /\ Talents \subseteq Nat /\ IdHash \in [Talents -> Nat]
  /\ HalfRange \in Nat \ {0} /\ ScoreScale \in Nat \ {0} /\ MaxScoreValue \in Nat

VARIABLES
  root,          \* TreapStore.root
  byID           \* TreapStore.byID: talent -> fixed-point score of its record

-----------------------------------------------------------------------------
(* Scores and priorities *)

MaxFP == HalfRange - 1
MinFP == -HalfRange

\* int64 arithmetic wraps.
Wrap(x) == ((x - MinFP) % (2 * HalfRange)) + MinFP

\* A float64 is <<"nan">>, <<"+inf">>, <<"-inf">> or <<"num", n>>.
IsFloat(x) == x[1] \in {"nan", "+inf", "-inf"} \/ (x[1] = "num" /\ x[2] \in Int)

toFixedPoint(x) ==
  IF x[1] = "nan" THEN 0
  ELSE IF x[1] = "+inf" THEN MaxFP
  ELSE IF x[1] = "-inf" THEN MinFP
  ELSE LET clamped == IF x[2] > MaxScoreValue THEN MaxScoreValue
                      ELSE IF x[2] < -MaxScoreValue THEN -MaxScoreValue ELSE x[2]
           scaled  == clamped * ScoreScale
       IN  IF scaled >= MaxFP THEN MaxFP ELSE IF scaled <= MinFP THEN MinFP ELSE scaled

\* The constants of the generator, reduced to the range; wrapping makes the
\* product of the residues the residue of the product.
scoreToPriority(score, id) ==
  LET range  == 2 * HalfRange
      result == Wrap(score * (1103515245 % range) + (12345 % range) + IdHash[id])
  IN  IF result < 0 THEN -result ELSE result

\* (aScore, aID) appears before (bScore, bID): score descending, id ascending.
less(aScore, aID, bScore, bID) ==
  \/ aScore > bScore
  \/ aScore = bScore /\ aID < bID

-----------------------------------------------------------------------------
(* The tree *)

Nil == [nil |-> TRUE]

nsize(n) == IF n = Nil THEN 0 ELSE n.size

fix(n) == [n EXCEPT !.size = 1 + nsize(n.left) + nsize(n.right)]

\* Mutant of rotateRight: the node that moves down keeps its old size.
rotateRightUnfixed(y) ==
  LET x == y.left
  IN  fix([x EXCEPT !.right = [y EXCEPT !.left = x.right]])

rotateRight(y) ==
  LET x == y.left
  IN  fix([x EXCEPT !.right = fix([y EXCEPT !.left = x.right])])

rotateLeft(x) ==
  LET y == x.right
  IN  fix([y EXCEPT !.left = fix([x EXCEPT !.right = y.left])])

Leaf(id, score) ==
  [id |-> id, score |-> score, prio |-> scoreToPriority(score, id),
   left |-> Nil, right |-> Nil, size |-> 1]

\* n, its children, their children and so on; n.size rounds reach them all.
Subtrees(n) ==
  LET children(S) == UNION {{m.left, m.right} : m \in S \ {Nil}}
      within[k \in 0..nsize(n)] ==
        IF k = 0 THEN {n} ELSE within[k - 1] \cup children(within[k - 1])
  IN  within[nsize(n)]

insert(n, id, score) ==
  LET ins[m \in Subtrees(n)] ==
        IF m = Nil THEN Leaf(id, score)
        ELSE IF less(score, id, m.score, m.id)
        THEN LET t == [m EXCEPT !.left = ins[m.left]]
             IN  fix(IF t.left.prio > t.prio THEN rotateRight(t) ELSE t)
        ELSE LET t == [m EXCEPT !.right = ins[m.right]]
             IN  fix(IF t.right.prio > t.prio THEN rotateLeft(t) ELSE t)
  IN  ins[n]

\* What deleteNode may be called on below n: Nil, and the nodes of n, each with
\* its own children or, on the way down, with children of nodes it sank below.
Sinking(n) ==
  {Nil} \cup {fix([[m EXCEPT !.left = a] EXCEPT !.right = b]) :
               m \in Subtrees(n) \ {Nil}, a \in Subtrees(n), b \in Subtrees(n)}

deleteNode(n, id, score) ==
  LET del[m \in Sinking(n)] ==
        IF m = Nil THEN Nil
        ELSE IF score = m.score /\ id = m.id
        THEN IF m.left = Nil THEN m.right
             ELSE IF m.right = Nil THEN m.left
             ELSE IF m.left.prio > m.right.prio
             THEN LET t == rotateRight(m) IN fix([t EXCEPT !.right = del[t.right]])
             ELSE LET t == rotateLeft(m) IN fix([t EXCEPT !.left = del[t.left]])
        ELSE IF less(score, id, m.score, m.id)
        THEN fix([m EXCEPT !.left = del[m.left]])
        ELSE fix([m EXCEPT !.right = del[m.right]])
  IN  del[n]

-----------------------------------------------------------------------------
(* Reading the tree.  An entry takes its score from the talent's record. *)

Entry(records, n) == [id |-> n.id, score |-> records[n.id]]

\* Lists of entries of the tree n.
Lists(records, n) == Seq({Entry(records, m) : m \in Subtrees(n) \ {Nil}})

\* Mutant of collectTopN: the limit is not looked at again after the left
\* subtree.
collectTopNOverLimit(records, n, limit) ==
  LET top[m \in Subtrees(n)] ==
        [out \in Lists(records, n) |->
          IF m = Nil \/ Len(out) >= limit THEN out
          ELSE top[m.right][Append(top[m.left][out], Entry(records, m))]]
  IN  top[n][<<>>]

\* top[m] is what the traversal of m makes of the list it is given.
collectTopN(records, n, limit) ==
  LET top[m \in Subtrees(n)] ==
        [out \in Lists(records, n) |->
          IF m = Nil \/ Len(out) >= limit THEN out
          ELSE LET left == top[m.left][out]
                   here == IF Len(left) < limit THEN Append(left, Entry(records, m)) ELSE left
               IN  IF Len(here) < limit THEN top[m.right][here] ELSE here]
  IN  top[n][<<>>]

collectAllEntries(records, n) ==
  LET all[m \in Subtrees(n)] ==
        IF m = Nil THEN <<>> ELSE all[m.left] \o <<Entry(records, m)>> \o all[m.right]
  IN  all[n]

\* Mutant of countHigherRanked: the lower scores below a better node are
\* taken to be lower than the target, too.
countHigherRankedLeft(n, targetID, targetScore) ==
  LET count[m \in Subtrees(n)] ==
        IF m = Nil \/ m.id = targetID THEN 0
        ELSE (IF less(m.score, m.id, targetScore, targetID) THEN 1 ELSE 0) + count[m.left]
  IN  count[n]

\* How many nodes the traversal counts as ranking higher than the target.  At
\* the target's own node it returns at once.
countHigherRanked(n, targetID, targetScore) ==
  LET count[m \in Subtrees(n)] ==
        IF m = Nil THEN 0
        ELSE IF less(m.score, m.id, targetScore, targetID)
        THEN 1 + count[m.left] + count[m.right]
        ELSE IF less(targetScore, targetID, m.score, m.id)
        THEN count[m.left]
        ELSE 0
  IN  count[n]

calculateRank(n, id, score) == IF n = Nil THEN 0 ELSE 1 + countHigherRanked(n, id, score)

\* Mutant of assignRanksWithTies: no rank is skipped after a tie.
assignDenseRanks(entries) ==
  [i \in DOMAIN entries |->
     1 + Cardinality({entries[j].score : j \in {k \in DOMAIN entries :
                                                   entries[k].score > entries[i].score}})]

\* The rank of each entry: entries are grouped by score, the groups are taken
\* from the highest score down, and each group's rank is that of the group
\* before it and as many more as that group has entries.
assignRanksWithTies(entries) ==
  LET group(s)  == {i \in DOMAIN entries : entries[i].score = s}
      scores    == {entries[i].score : i \in DOMAIN entries}
      higher(s) == {u \in scores : u > s}
      currentRank[s \in scores] ==
        IF higher(s) = {} THEN 1
        ELSE LET before == CHOOSE u \in higher(s) : \A v \in higher(s) : u <= v
             IN  currentRank[before] + Cardinality(group(before))
  IN  [i \in DOMAIN entries |-> currentRank[entries[i].score]]

-----------------------------------------------------------------------------
(* UpdateBestWithMeta *)

vars == <<root, byID>>

Init == root = Nil /\ byID = <<>>

NewTalent(t, ns) ==
  /\ t \notin DOMAIN byID
  /\ byID' = [u \in DOMAIN byID \cup {t} |-> IF u = t THEN ns ELSE byID[u]]
  /\ root' = insert(root, t, ns)

\* Mutant of Improvement: the old node stays in the tree.
ImprovementWithoutDelete(t, ns) ==
  /\ t \in DOMAIN byID /\ ns > byID[t]
  /\ byID' = [byID EXCEPT ![t] = ns]
  /\ root' = insert(root, t, ns)

Improvement(t, ns) ==
  /\ t \in DOMAIN byID /\ ns > byID[t]
  /\ byID' = [byID EXCEPT ![t] = ns]
  /\ root' = insert(deleteNode(root, t, byID[t]), t, ns)

NotAnImprovement(t, ns) ==
  /\ t \in DOMAIN byID /\ ns <= byID[t]
  /\ UNCHANGED vars

UpdateBestWithMeta(t, x) ==
  LET ns == toFixedPoint(x)
  IN  NewTalent(t, ns) \/ Improvement(t, ns) \/ NotAnImprovement(t, ns)
=============================================================================
