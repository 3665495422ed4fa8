------------------------------- MODULE Record -------------------------------
(***************************************************************************)
(* The mapping between one event type and its SQL rows                     *)
(* (src/persistence/record.rs, schema.rs), and what the two backends make  *)
(* of the values it binds (src/persistence/dialect.rs).  A field's value   *)
(* is abstracted to its kind, a cell to the variant of SqlValue it is.     *)
(***************************************************************************)
EXTENDS Naturals

(* The kinds of JSON value a field takes, from event to event.  "big" is a *)
(* u64 above i64::MAX.                                                     *)
Kinds == {"null", "bool", "int", "big", "real", "string", "nested"}

SqlTypes == {"Integer", "Real", "Text", "Blob", "Numeric"}

(* A cell of text is "Digits" when the text is that of a number.           *)
Cells == {"Integer", "Real", "Text", "Digits", "Null"}

Reserved == {"block_number", "_payload"}

NoColumns == [f \in {} |-> "Text"]

(* The best-guess column type of a field, from one value of it.            *)
infer_type(k) ==
  CASE k \in {"bool", "int"} -> "Integer"
    [] k = "real"            -> "Real"
    [] OTHER                 -> "Text"

(* The cell a value becomes: a u64 above i64::MAX spills to text.          *)
json_to_sql(k) ==
  CASE k = "null"            -> "Null"
    [] k \in {"bool", "int"} -> "Integer"
    [] k = "big"             -> "Digits"
    [] k = "real"            -> "Real"
    [] OTHER                 -> "Text"

(* ensure_no_reserved_names, and the same test on inferred columns.        *)
names_reserved(names) == names \cap Reserved # {}

(* The columns after an encode: declared ones are fixed, inferred ones are *)
(* taken from the first event that encodes and kept.                       *)
freeze_columns(frozen, event) ==
  IF frozen # NoColumns THEN frozen ELSE [f \in DOMAIN event |-> infer_type(event[f])]

(* The one misfit encode looks for.  Mutant: it looks for none.            *)
ensure_no_fit(type, cell) == TRUE
ensure_value_fits(type, cell) == ~(type = "Integer" /\ cell \in {"Text", "Digits"})

(* A column without a field becomes NULL.                                  *)
cell_of(event, column) == IF column \in DOMAIN event THEN json_to_sql(event[column]) ELSE "Null"

encodes(frozen, event) ==
  LET columns == freeze_columns(frozen, event) IN
    /\ ~names_reserved(DOMAIN columns)
    /\ \A c \in DOMAIN columns : ensure_value_fits(columns[c], cell_of(event, c))

encode(frozen, event) ==
  [c \in DOMAIN freeze_columns(frozen, event) |-> cell_of(event, c)]

-----------------------------------------------------------------------------
(* The backends.                                                           *)

Dialects == {"sqlite", "postgres"}

(* The keyword of a column: PostgreSQL keeps NUMERIC columns as text.      *)
column_type(dialect, type) == IF dialect = "postgres" /\ type = "Numeric" THEN "Text" ELSE type

(* Whether the backend takes a cell into a column: PostgreSQL has no       *)
(* assignment cast from text to a number, nor from anything an event's     *)
(* field becomes to BYTEA; SQLite takes anything.                          *)
binds(dialect, type, cell) ==
  dialect = "postgres" =>
    /\ type # "Blob"
    /\ type \in {"Integer", "Real"} => cell \notin {"Text", "Digits"}

(* What the column then holds.  A text column holds text.  SQLite turns    *)
(* digits in a column of numeric affinity into a number, a float when they *)
(* exceed 64 bits, and leaves other text alone.                            *)
held(dialect, type, cell) ==
  IF cell = "Null" THEN "Null" ELSE
    CASE type = "Text"                                                  -> "Text"
      [] type = "Real" /\ cell # "Text"                                 -> "Real"
      [] type \in {"Integer", "Numeric"} /\ cell = "Digits"             -> "Real"
      [] type = "Integer" /\ cell # "Digits" /\ dialect = "postgres"    -> "Integer"
      [] OTHER                                                          -> cell

(* The type the catalog reports: SQLite's NUMERIC as TEXT.                 *)
normalize_type(type) == IF type = "Numeric" THEN "Text" ELSE type

(* cell_to_json: whether a cell decodes as the type reported for it.       *)
cell_to_json(type, cell) == cell = "Null" \/ cell = type
=============================================================================
