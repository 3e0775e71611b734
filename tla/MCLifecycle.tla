---------------------------- MODULE MCLifecycle ----------------------------
(* TLC instance of Lifecycle. *)
EXTENDS Lifecycle, TLC

CONSTANTS p1, p2, p3, i1, i2

\* p1 and p2 repeat one event.
MCIdOf == (p1 :> i1) @@ (p2 :> i1) @@ (p3 :> i2)
=============================================================================
