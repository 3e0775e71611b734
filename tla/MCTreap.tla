------------------------------ MODULE MCTreap ------------------------------
(* Treap driven by every sequence of updates with scores from Floats, and   *)
(* what must be true of the tree and of what is read from it.               *)
EXTENDS Treap

CONSTANT Floats          \* the scores submitted

ASSUME FloatsAssumption == \A x \in Floats : IsFloat(x)

Next == \E t \in Talents, x \in Floats : UpdateBestWithMeta(t, x)

Spec == Init /\ [][Next]_vars

\* Scores below, at and above what fits, on both sides, and the odd floats.
MCFloats ==
  {<<"num", n>> : n \in {-30, 0, 1, 2, 13, 14}} \cup {<<"nan">>, <<"+inf">>, <<"-inf">>}

\* 1 and 2 are a pair like "Aa" and "BB", which hash alike.
MCIdHash == [t \in Talents |-> IF t = 2 THEN 97 ELSE 96 + t]

NodesOf(n) == Subtrees(n) \ {Nil}

\* Search tree, heap and sizes, at every node.
WellFormed ==
  \A n \in NodesOf(root) :
    /\ \A l \in NodesOf(n.left) : less(l.score, l.id, n.score, n.id) /\ l.prio <= n.prio
    /\ \A r \in NodesOf(n.right) : less(n.score, n.id, r.score, r.id) /\ r.prio <= n.prio
    /\ n.size = Cardinality(NodesOf(n))

\* The tree and the map hold the same talents with the same scores: no update
\* loses a node, leaves a stale one behind or inserts one twice.
TreeMatchesMap ==
  /\ {<<n.id, n.score>> : n \in NodesOf(root)} = {<<t, byID[t]>> : t \in DOMAIN byID}
  /\ nsize(root) = Cardinality(DOMAIN byID)

\* The talents that rank higher than t, read off the map.
Above(t) == {u \in DOMAIN byID : less(byID[u], u, byID[t], t)}

\* The leaderboard, read off the map.
Ranking ==
  LET place(k) == CHOOSE t \in DOMAIN byID : Cardinality(Above(t)) = k - 1
  IN  [k \in 1..Cardinality(DOMAIN byID) |-> [id |-> place(k), score |-> byID[place(k)]]]

\* TopN(n) is the first n places of the leaderboard, for every n, and the
\* collection the snapshot is made from is all of it.
TopNIsPrefix ==
  /\ collectAllEntries(byID, root) = Ranking
  /\ \A n \in 1..(Cardinality(Talents) + 1) :
       collectTopN(byID, root, n) =
         SubSeq(Ranking, 1, IF n < Len(Ranking) THEN n ELSE Len(Ranking))

\* The snapshot's ranks: one more than the number of strictly better talents.
RanksShareTies ==
  LET entries == collectAllEntries(byID, root)
      ranks   == assignRanksWithTies(entries)
  IN  \A i \in DOMAIN entries :
        ranks[i] = 1 + Cardinality({u \in DOMAIN byID : byID[u] > entries[i].score})

\* calculateRank's comment: "Returns the 1-based rank (1 = highest score)".
FallbackRankIsPlace ==
  \A t \in DOMAIN byID : calculateRank(root, t, byID[t]) = 1 + Cardinality(Above(t))

\* By exactly how much it is wrong: it leaves out the left subtree of the
\* talent's own node, all of which ranks higher.
FallbackRankDeficit ==
  \A n \in NodesOf(root) :
    calculateRank(root, n.id, n.score) = 1 + Cardinality(Above(n.id)) - nsize(n.left)
=============================================================================
