-------------------------- MODULE MCLoadGenerator --------------------------
(* TLC instance of LoadGenerator. *)
EXTENDS LoadGenerator

CONSTANT r1

\* The first two events share the best score.
MCScore == [e \in Events |-> IF e <= 2 THEN 2 ELSE 1]
=============================================================================
