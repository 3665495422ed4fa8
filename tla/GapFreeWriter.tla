---------------------------- MODULE GapFreeWriter ----------------------------
(***************************************************************************)
(* The safety core that BlockWriter and ConfirmationWindow share           *)
(* (src/persistence/writer/mod.rs), and the Store it writes to, seen       *)
(* through its contract: one write(position, rows) is one transaction that *)
(* inserts the rows and folds the position into the progress row.          *)
(*                                                                         *)
(* Positions are block heights (BlockPosition): u64 keys 0..MaxKey, where  *)
(* MaxKey stands for u64::MAX.  Option::None is None = -1, which sits      *)
(* below every key, so the code's "let Some(f) = x && key <= f" is the     *)
(* plain comparison key <= x.  A row is what encode derives from one       *)
(* event; two events are equal exactly when their rows are.                *)
(***************************************************************************)
EXTENDS Integers, Sequences

CONSTANTS
  Row,          \* the rows events encode to
  Unencodable,  \* the events encode rejects, named by the row they lack
  MaxKey,       \* u64::MAX: the largest sort key
  WriteFails    \* whether a Store write may return an error

ASSUME WriterAssumption ==
  /\ Unencodable \subseteq Row
  /\ MaxKey \in Nat
  /\ WriteFails \in BOOLEAN

VARIABLES
  table,    \* the event table: the rows stored under each key
  progress  \* the stored position of the progress table, or None

storeVars == <<table, progress>>

None == -1
Keys == 0..MaxKey
Positions == Keys \cup {None}

-----------------------------------------------------------------------------
(* BlockPosition: advance is the maximum, and the arithmetic saturates.    *)

advance(p, q) == IF p > q THEN p ELSE q

saturating_add(a, b) == IF a + b > MaxKey THEN MaxKey ELSE a + b

saturating_sub(a, b) == IF a > b THEN a - b ELSE 0

resume_key(p) == IF p = None THEN 0 ELSE saturating_add(p, 1)

-----------------------------------------------------------------------------
(* The two fallible steps of the core.                                     *)

encodes(row) == row \notin Unencodable

StoreInit ==
  /\ table = [k \in Keys |-> <<>>]
  /\ progress = None

StoreTypeOK ==
  /\ table \in [Keys -> Seq(Row)]
  /\ progress \in Positions

insert_rows(key, rows) == table' = [table EXCEPT ![key] = @ \o rows]

(* The stored position never moves back: the new one is folded into it.    *)
advance_watermark(key) == progress' = advance(progress, key)

(* The transaction of one Store::write: the rows and the position commit   *)
(* together or not at all.                                                 *)
write(key, rows) == insert_rows(key, rows) /\ advance_watermark(key)

(* flush on its failing path: write returned an error.  An error reported  *)
(* by COMMIT leaves open whether the transaction took effect.              *)
failed_write(key, rows) ==
  /\ WriteFails
  /\ \/ UNCHANGED storeVars
     \/ write(key, rows)
=============================================================================
