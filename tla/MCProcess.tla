----------------------------- MODULE MCProcess -----------------------------
(* TLC instance of Process. *)
EXTENDS Process, TLC

CONSTANTS p1, p2, p3, p4, i1, i2

MCIdOf == (p1 :> i1) @@ (p2 :> i1) @@ (p3 :> i1) @@ (p4 :> i2)
=============================================================================
