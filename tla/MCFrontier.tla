----------------------------- MODULE MCFrontier -----------------------------
EXTENDS Frontier

(* The last of the events cannot be encoded.                               *)
FourEvents == 1..4
LastEvent == {4}
=============================================================================
