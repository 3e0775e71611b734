---------------------------- MODULE MCTreapStore ----------------------------
(* TLC instances of TreapStore. *)
EXTENDS TreapStore

\* 1 and 2 are a pair like "Aa" and "BB", which hash alike.
MCIdHash == [t \in Talents |-> IF t = 2 THEN 97 ELSE 96 + t]

\* A tie of 1 and 2, then 1 overtakes.
MCUpdates == {<<1, <<"num", 1>>>>, <<2, <<"num", 1>>>>, <<1, <<"num", 2>>>>}
=============================================================================
