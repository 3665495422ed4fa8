------------------------ MODULE MCConfirmationWindow ------------------------
(* The window on its own, with the rows buffered for one key bounded.       *)
EXTENDS ConfirmationWindow

CONSTANT MaxRows   \* bound: rows a group may collect

ASSUME MaxRows \in Nat \ {0}

RowsBounded ==
  \A b \in DOMAIN pending : Len(pending[b].rows) <= MaxRows

MCNext == Next /\ RowsBounded'

MCSpec == Init /\ [][MCNext]_vars
=============================================================================
