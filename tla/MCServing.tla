----------------------------- MODULE MCServing -----------------------------
EXTENDS Serving

(* Table "a" infers its columns, and its field outgrows i64; table "b"     *)
(* declares a NUMERIC column.                                              *)
InferredAndNumeric ==
  [t \in Tables |-> IF t = "a" THEN NoColumns ELSE [f \in Fields |-> "Numeric"]]

BigAndSmall == [t \in Tables |-> IF t = "a" THEN {"int", "big"} ELSE {"int"}]

ClientLimits == {None, Invalid, 2}
=============================================================================
