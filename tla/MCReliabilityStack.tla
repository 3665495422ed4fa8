------------------------- MODULE MCReliabilityStack -------------------------
(* ReliabilityStack with actions that expire at once, soon or never.        *)
EXTENDS ReliabilityStack

Mixed == {0, 2, Forever}
=============================================================================
