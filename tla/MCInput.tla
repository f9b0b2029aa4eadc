------------------------------- MODULE MCInput -------------------------------
(* Movements that reach the edges of a small screen.                       *)
EXTENDS Input

MCDeltas == {-4, 3}
=============================================================================
