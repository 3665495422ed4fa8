---------------------------- MODULE BlockPosition ----------------------------
(***************************************************************************)
(* The built-in Position of block sources (src/persistence/position.rs): a *)
(* u64 block number.  MaxKey stands for u64::MAX.  Option::None is None,   *)
(* which sits below every key.                                             *)
(***************************************************************************)
EXTENDS Integers

CONSTANT MaxKey

None == -1

REOBSERVATION == "Halt"

BlockPositions == 0..MaxKey

sort_key(p) == p

from_sort_key(k) == k

advance(prev, next) == IF prev # None /\ prev > next THEN prev ELSE next

contains(w, pos) == pos <= w

(* saturating_add(1).                                                      *)
resume_key(p) == IF p < MaxKey THEN p + 1 ELSE MaxKey

(* The persisted text.  A decimal integer is the only text that decodes:   *)
(* anything else, the JSON of another kind of position too, is an error    *)
(* and not a position.                                                     *)
encode(p) == [kind |-> "decimal", number |-> p]

decodes(text) == text.kind = "decimal" /\ text.number \in BlockPositions

decode(text) == text.number
=============================================================================
