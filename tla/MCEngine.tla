------------------------------ MODULE MCEngine ------------------------------
(* Engine with one observer and one executor as model values.               *)
EXTENDS Engine

CONSTANTS x1, o1, c1
=============================================================================
