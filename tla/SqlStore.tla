------------------------------ MODULE SqlStore ------------------------------
(***************************************************************************)
(* The SQL Store (src/persistence/sqlstore.rs, query.rs, dialect.rs) under *)
(* several collectors, each the one writer of its own table, that share    *)
(* one store and one connection pool.  A write is a transaction of several *)
(* statements, each a step; PostgreSQL is assumed at READ COMMITTED.       *)
(*                                                                         *)
(* An archive written before positions were encoded has a progress table   *)
(* without the position column ("old"); the first write migrates it.  The  *)
(* column it gains is nullable, the column of a fresh table is not.        *)
(***************************************************************************)
EXTENDS Record, FiniteSets, Sequences, Integers

CONSTANTS
  Tables,     \* the event tables, one collector each
  Fields,     \* the field names of the event types
  FieldKinds, \* the kinds of value the fields of a table's event type take
  Overrides,  \* the declared columns of each table's Record, or NoColumns
  MaxI64,     \* the largest sort key the signed columns take
  MaxKey,     \* u64::MAX
  OldTables,  \* the tables an archive from before the position column has
  DbFails     \* whether a statement or a commit may fail

ASSUME SqlStoreAssumption ==
  /\ IsFiniteSet(Tables)
  /\ Fields # {} /\ \A t \in Tables : FieldKinds[t] \subseteq Kinds
  /\ \A t \in Tables : Overrides[t] \in [DOMAIN Overrides[t] -> SqlTypes]
  /\ MaxI64 \in Nat \ {0} /\ MaxKey \in Nat /\ MaxI64 < MaxKey
  /\ OldTables \subseteq Tables
  /\ DbFails \in BOOLEAN

VARIABLES
  dialect,    \* the backend
  shape,      \* the progress table: "absent", "old", "nullable", "current"
  columns,    \* the column types of the event tables; NoColumns when absent
  progress,   \* the progress rows: last_block and position
  rows,       \* the rows of the event tables, in order of insertion
  migration_checked,
  pc,         \* where a table's collector, or its transaction, has got to
  attempt,    \* which attempt of a write this is
  batch,      \* the position and the event being written
  tx,         \* what the open transaction has changed
  frozen,     \* the inferred columns of each Record
  reached,    \* the position a collector resumed from or has written
  verdict,    \* why a collector's persistence has halted
  foreign     \* history: tables whose columns the Record of an earlier subscription
              \* inferred, or another binary made

pos == INSTANCE BlockPosition

Events == [t \in Tables |-> [Fields -> FieldKinds[t]]]

dbVars == <<dialect, shape, columns, progress, rows>>
memVars == <<migration_checked, pc, attempt, batch, tx, frozen, reached, verdict>>
storeVars == <<dbVars, memVars, foreign>>

None == -1
Null == [kind |-> "null"]
NoRow == [last_block |-> None, position |-> [kind |-> "none"]]
NoTx == [created |-> FALSE, altered |-> FALSE, inserted |-> FALSE]
NoBatch == [position |-> None, event |-> [f \in Fields |-> "null"]]

(* is_duplicate_object: only PostgreSQL has such errors.                   *)
is_duplicate_object == dialect = "postgres"

-----------------------------------------------------------------------------
(* Reading the resume point.                                               *)

(* last_block's decimal text, for a column that is absent or holds NULL.   *)
resume_from_last_block(t) == pos!decode(pos!encode(progress[t].last_block))

(* stored_position: the encoded position, or else last_block.  Mutant:     *)
(* NULL reads as no row.                                                   *)
stored_position_strict(t) ==
  IF progress[t] = NoRow \/ progress[t].position = Null THEN None
  ELSE IF shape = "old" THEN resume_from_last_block(t) ELSE pos!decode(progress[t].position)
stored_position(t) ==
  IF progress[t] = NoRow THEN None
  ELSE IF shape = "old" \/ progress[t].position = Null
    THEN resume_from_last_block(t)
    ELSE pos!decode(progress[t].position)

(* replay: the rows up to a position, by block and then in the order of    *)
(* insertion.  The payload column always decodes.                          *)
replay(t, up_to) ==
  LET selected == {i \in DOMAIN rows[t] : rows[t][i].block <= up_to}
      earlier(i) == {j \in selected : \/ rows[t][j].block < rows[t][i].block
                                      \/ rows[t][j].block = rows[t][i].block /\ j < i}
  IN  [n \in 1..Cardinality(selected) |->
         rows[t][CHOOSE i \in selected : Cardinality(earlier(i)) = n - 1]]

(* No statement gets past the lock of an uncommitted ADD COLUMN.           *)
Locked(t) == \E u \in Tables \ {t} : tx[u].altered

(* The first time, after a stream has ended, and after a restart: with a   *)
(* Record of its own, whose inferred columns are not frozen yet.           *)
subscribe(t) ==
  /\ pc[t] = "down" /\ ~Locked(t)
  /\ frozen' = [frozen EXCEPT ![t] = NoColumns]
  /\ reached' = [reached EXCEPT ![t] = stored_position(t)]
  /\ pc' = [pc EXCEPT ![t] = "idle"]
  /\ UNCHANGED <<dbVars, migration_checked, attempt, batch, tx, verdict, foreign>>

-----------------------------------------------------------------------------
(* write.                                                                  *)

(* The writer fails: the transaction is rolled back, what was to be        *)
(* written is dropped, and nothing more is written.                        *)
Halted(t, why) ==
  /\ pc' = [pc EXCEPT ![t] = "halted"]
  /\ attempt' = [attempt EXCEPT ![t] = 1]
  /\ batch' = [batch EXCEPT ![t] = NoBatch]
  /\ tx' = [tx EXCEPT ![t] = NoTx]
  /\ verdict' = [verdict EXCEPT ![t] = why]

(* The schema in force for a table's Record.                               *)
Frozen(t) == IF Overrides[t] # NoColumns THEN Overrides[t] ELSE frozen[t]

(* The next group of the collector: its event is encoded, which freezes    *)
(* the Record, or halts persistence.                                       *)
start_write(t) ==
  /\ pc[t] = "idle"
  /\ \E p \in (reached[t] + 1)..MaxKey, e \in Events[t] :
       \/ /\ encodes(Frozen(t), e)
          /\ batch' = [batch EXCEPT ![t] = [position |-> p, event |-> e]]
          /\ frozen' = [frozen EXCEPT ![t] = freeze_columns(Frozen(t), e)]
          /\ attempt' = [attempt EXCEPT ![t] = 1]
          /\ pc' = [pc EXCEPT ![t] = "begin"]
          /\ UNCHANGED <<tx, verdict>>
       \/ /\ ~encodes(Frozen(t), e)
          /\ Halted(t, "encode")
          /\ UNCHANGED frozen
  /\ UNCHANGED <<dbVars, migration_checked, reached, foreign>>

Open == {"wait", "migrate", "alter", "insert", "commit"}

(* The connections of the pool: one, unless PostgreSQL's was injected.     *)
max_connections == IF dialect = "sqlite" THEN 1 ELSE Cardinality(Tables)

(* pool.begin: a connection is free.                                       *)
begin(t) ==
  /\ pc[t] = "begin"
  /\ Cardinality({u \in Tables : pc[u] \in Open}) < max_connections

(* A duplicate-object error is a lost race on DDL: the transaction is      *)
(* rolled back and tried once more; any other error halts the writer.      *)
(* Mutant: it is not tried again.                                          *)
RaceLost_halts(t) == Halted(t, "race")
RaceLost(t) ==
  \/ /\ is_duplicate_object /\ attempt[t] = 1
     /\ attempt' = [attempt EXCEPT ![t] = 2]
     /\ pc' = [pc EXCEPT ![t] = "begin"]
     /\ tx' = [tx EXCEPT ![t] = NoTx]
     /\ UNCHANGED <<batch, verdict>>
  \/ ~(is_duplicate_object /\ attempt[t] = 1) /\ Halted(t, "race")

Creating(t) == \E u \in Tables \ {t} : tx[u].created

(* The first statements of a transaction.  CREATE TABLE IF NOT EXISTS of   *)
(* the progress table waits for another transaction that is creating it.   *)
create_tables(t) ==
  /\ begin(t)
  /\ \/ /\ shape # "absent"
        /\ pc' = [pc EXCEPT ![t] = "migrate"]
        /\ UNCHANGED tx
     \/ /\ shape = "absent" /\ ~Creating(t)
        /\ pc' = [pc EXCEPT ![t] = "migrate"]
        /\ tx' = [tx EXCEPT ![t].created = TRUE]
     \/ /\ shape = "absent" /\ Creating(t)
        /\ pc' = [pc EXCEPT ![t] = "wait"]
        /\ UNCHANGED tx
  /\ UNCHANGED <<dbVars, migration_checked, attempt, batch, frozen, reached, verdict, foreign>>

(* It ended: rolled back, and the table is ours to create; or committed,   *)
(* and the statement fails although the table exists.                      *)
create_resumes(t) ==
  /\ pc[t] = "wait" /\ ~Creating(t)
  /\ \/ /\ shape = "absent"
        /\ pc' = [pc EXCEPT ![t] = "migrate"]
        /\ tx' = [tx EXCEPT ![t].created = TRUE]
        /\ UNCHANGED <<attempt, batch, verdict>>
     \/ shape # "absent" /\ RaceLost(t)
  /\ UNCHANGED <<dbVars, migration_checked, frozen, reached, foreign>>

(* The probe for the position column, unless a committed write has made    *)
(* it unnecessary.  Its failure is undone by a savepoint.                  *)
migrate_if_needed(t) ==
  /\ pc[t] = "migrate"
  /\ \/ migration_checked /\ pc' = [pc EXCEPT ![t] = "insert"]
     \/ /\ ~migration_checked /\ ~Locked(t)
        /\ shape \in {"nullable", "current"} \/ tx[t].created
        /\ pc' = [pc EXCEPT ![t] = "insert"]
     \/ /\ ~migration_checked /\ ~Locked(t)
        /\ shape = "old"
        /\ pc' = [pc EXCEPT ![t] = "alter"]
  /\ UNCHANGED <<dbVars, migration_checked, attempt, batch, tx, frozen, reached, verdict,
                 foreign>>

(* ADD COLUMN needs the progress table to itself.                          *)
add_position_column(t) ==
  /\ pc[t] = "alter"
  /\ \A u \in Tables \ {t} : pc[u] \notin {"insert", "commit"}
  /\ \/ /\ shape = "old"
        /\ tx' = [tx EXCEPT ![t].altered = TRUE]
        /\ pc' = [pc EXCEPT ![t] = "insert"]
        /\ UNCHANGED <<attempt, batch, verdict>>
     \/ shape # "old" /\ RaceLost(t)
  /\ UNCHANGED <<dbVars, migration_checked, frozen, reached, foreign>>

(* The column types of the schema in force, and those of the table the     *)
(* rows go to: the ones it was created with, by whichever Record it was.   *)
TypesOf(t) == [c \in DOMAIN Frozen(t) |-> column_type(dialect, Frozen(t)[c])]
Columns(t) == IF columns[t] # NoColumns THEN columns[t] ELSE TypesOf(t)

HasPosition(t) == shape \in {"nullable", "current"} \/ tx[t].created \/ tx[t].altered

sort_key_to_i64(key) == key <= MaxI64

(* What stops insert_rows and advance_watermark, if anything.              *)
Refusal(t) ==
  LET cells == encode(Frozen(t), batch[t].event) IN
    IF ~sort_key_to_i64(batch[t].position) THEN "key"
    ELSE IF \E c \in DOMAIN cells :
              c \notin DOMAIN Columns(t) \/ ~binds(dialect, Columns(t)[c], cells[c]) THEN "bind"
    ELSE IF ~HasPosition(t) THEN "undefined_column" ELSE "none"

insert_rows(t) ==
  /\ pc[t] = "insert" /\ ~Locked(t)
  /\ \/ /\ Refusal(t) = "none"
        /\ tx' = [tx EXCEPT ![t].inserted = TRUE]
        /\ pc' = [pc EXCEPT ![t] = "commit"]
        /\ UNCHANGED <<attempt, batch, verdict>>
     \/ Refusal(t) # "none" /\ Halted(t, Refusal(t))
  /\ UNCHANGED <<dbVars, migration_checked, frozen, reached, foreign>>

(* The progress row after the upsert: both columns, folded over what the   *)
(* locked SELECT read.                                                     *)
advance_watermark(t) ==
  LET prev == IF progress[t] = NoRow \/ progress[t].position = Null THEN None
              ELSE IF shape = "old" THEN progress[t].last_block
              ELSE pos!decode(progress[t].position)
      next == pos!advance(prev, batch[t].position)
  IN  [last_block |-> next, position |-> pos!encode(next)]

(* The migration's CAST fills every row that has no position.              *)
backfill_position(p) ==
  IF p # NoRow /\ p.position = Null THEN [p EXCEPT !.position = pos!encode(p.last_block)] ELSE p

(* Everything the transaction did becomes visible at once.                 *)
Committed(t) ==
  LET e == batch[t].event
      cells == encode(Frozen(t), e)
      moved == IF tx[t].altered
                 THEN [u \in Tables |-> backfill_position(progress[u])] ELSE progress
  IN  /\ shape' = IF tx[t].created THEN "current"
                  ELSE IF tx[t].altered THEN "nullable" ELSE shape
      /\ columns' = [columns EXCEPT ![t] = Columns(t)]
      /\ rows' = [rows EXCEPT ![t] = Append(@,
                    [block |-> batch[t].position,
                     cells |-> [c \in DOMAIN cells |-> held(dialect, Columns(t)[c], cells[c])]])]
      /\ progress' = [moved EXCEPT ![t] = advance_watermark(t)]
      /\ UNCHANGED dialect

(* COMMIT, then the flag, which a failed commit leaves alone.  Mutant: the *)
(* error of COMMIT is not looked at.                                       *)
commit_unchecked(t) ==
  /\ pc[t] = "commit"
  /\ Committed(t) \/ (DbFails /\ UNCHANGED dbVars)
  /\ migration_checked' = TRUE
  /\ pc' = [pc EXCEPT ![t] = "idle"]
  /\ reached' = [reached EXCEPT ![t] = batch[t].position]
  /\ tx' = [tx EXCEPT ![t] = NoTx]
  /\ attempt' = [attempt EXCEPT ![t] = 1]
  /\ batch' = [batch EXCEPT ![t] = NoBatch]
  /\ UNCHANGED <<frozen, verdict, foreign>>
commit(t) ==
  /\ pc[t] = "commit"
  /\ \/ /\ Committed(t)
        /\ migration_checked' = TRUE
        /\ pc' = [pc EXCEPT ![t] = "idle"]
        /\ reached' = [reached EXCEPT ![t] = batch[t].position]
        /\ tx' = [tx EXCEPT ![t] = NoTx]
        /\ attempt' = [attempt EXCEPT ![t] = 1]
        /\ batch' = [batch EXCEPT ![t] = NoBatch]
        /\ UNCHANGED verdict
     \/ /\ DbFails                       \* the outcome of the commit is open
        /\ Committed(t) \/ UNCHANGED dbVars
        /\ Halted(t, "db")
        /\ UNCHANGED <<migration_checked, reached>>
  /\ UNCHANGED <<frozen, foreign>>

(* A statement fails for reasons of the database: the transaction is       *)
(* rolled back.                                                            *)
statement_fails(t) ==
  /\ DbFails /\ pc[t] \in {"migrate", "alter", "insert"}
  /\ Halted(t, "db")
  /\ UNCHANGED <<dbVars, migration_checked, frozen, reached, foreign>>

(* The streams of these tables end or are dropped, at whatever await they  *)
(* are: their Records go with them, and their open transactions are rolled *)
(* back.  (A COMMIT whose answer is not waited for is one whose outcome is *)
(* open, followed by this.)  Declared columns are the same in the next     *)
(* Record; inferred ones are left behind in the table.                     *)
EndStreams(S) ==
  /\ pc' = [t \in Tables |-> IF t \in S THEN "down" ELSE pc[t]]
  /\ attempt' = [t \in Tables |-> IF t \in S THEN 1 ELSE attempt[t]]
  /\ batch' = [t \in Tables |-> IF t \in S THEN NoBatch ELSE batch[t]]
  /\ tx' = [t \in Tables |-> IF t \in S THEN NoTx ELSE tx[t]]
  /\ frozen' = [t \in Tables |-> IF t \in S THEN NoColumns ELSE frozen[t]]
  /\ reached' = [t \in Tables |-> IF t \in S THEN None ELSE reached[t]]
  /\ verdict' = [t \in Tables |-> IF t \in S THEN "none" ELSE verdict[t]]
  /\ foreign' = foreign \cup {t \in S : columns[t] # NoColumns /\ Overrides[t] = NoColumns}
  /\ UNCHANGED dbVars

(* The driver's loop comes round to subscribe again; the store lives on.   *)
stream_ends(t) ==
  /\ pc[t] # "down"
  /\ EndStreams({t})
  /\ UNCHANGED migration_checked

(* The process dies and starts again with a fresh store.                   *)
restart ==
  /\ EndStreams(Tables)
  /\ migration_checked' = FALSE

(* A binary that knows nothing of positions writes a table's first row     *)
(* into a migrated archive, while the collector is down.  (That it goes on *)
(* from a row that has a position is left out.)                            *)
old_binary_write(t) ==
  /\ pc[t] = "down" /\ shape = "nullable" /\ ~Locked(t)
  /\ progress[t] = NoRow
  /\ progress' = [progress EXCEPT ![t] = [last_block |-> 0, position |-> Null]]
  /\ rows' = [rows EXCEPT ![t] = <<[block |-> 0, cells |-> [f \in Fields |-> "Null"]]>>]
  /\ columns' = [columns EXCEPT ![t] = [f \in Fields |-> "Text"]]
  /\ foreign' = foreign \cup {t}
  /\ UNCHANGED <<dialect, shape, memVars>>

(* A fresh database, or an old archive in which OldTables have rows.       *)
StoreInit ==
  /\ dialect \in Dialects
  /\ \/ shape = "absent" /\ foreign = {}
     \/ shape = "old" /\ foreign = OldTables
  /\ columns = [t \in Tables |-> IF t \in foreign THEN [f \in Fields |-> "Integer"] ELSE NoColumns]
  /\ rows = [t \in Tables |->
               IF t \in foreign THEN <<[block |-> 0, cells |-> [f \in Fields |-> "Integer"]]>>
               ELSE <<>>]
  /\ progress = [t \in Tables |->
                   IF t \in foreign THEN [last_block |-> 0, position |-> Null] ELSE NoRow]
  /\ migration_checked = FALSE
  /\ pc = [t \in Tables |-> "down"]
  /\ attempt = [t \in Tables |-> 1]
  /\ batch = [t \in Tables |-> NoBatch]
  /\ tx = [t \in Tables |-> NoTx]
  /\ frozen = [t \in Tables |-> NoColumns]
  /\ reached = [t \in Tables |-> None]
  /\ verdict = [t \in Tables |-> "none"]

Write(t) ==
  \/ subscribe(t) \/ start_write(t) \/ create_tables(t) \/ create_resumes(t)
  \/ migrate_if_needed(t) \/ add_position_column(t) \/ insert_rows(t) \/ commit(t)
  \/ statement_fails(t) \/ stream_ends(t) \/ old_binary_write(t)

StoreNext == restart \/ \E t \in Tables : Write(t)

-----------------------------------------------------------------------------
(* Properties.                                                             *)

(* The columns encode does not look at.                                    *)
Unguarded(t) == \E c \in DOMAIN Frozen(t) : Frozen(t)[c] \in {"Real", "Blob"}

(* A write fails only for a cause of its own: the database failed, the     *)
(* event does not encode, its key is above i64::MAX, the column is a REAL  *)
(* or BLOB one, which encode does not look at, or the table has other      *)
(* column types than the Record in force because an earlier subscription   *)
(* inferred them or another binary made it.  Collectors that create or     *)
(* migrate the shared tables at the same time never halt one another, and  *)
(* no failed attempt or dropped stream leaves the store convinced of a     *)
(* migration that was rolled back.                                         *)
FailureHasCause ==
  \A t \in Tables :
    \/ verdict[t] \in {"none", "db", "encode", "key"}
    \/ verdict[t] = "bind" /\ (Unguarded(t) \/ (t \in foreign /\ columns[t] # TypesOf(t)))

Highest(t) ==
  IF rows[t] = <<>> THEN None
  ELSE CHOOSE b \in {rows[t][i].block : i \in DOMAIN rows[t]} :
         \A i \in DOMAIN rows[t] : rows[t][i].block <= b

(* In every shape of the progress table, across the migration, restarts    *)
(* and commits whose outcome was lost, a resume goes on exactly behind the *)
(* last committed group, the replay before it returns every committed row, *)
(* and what the serving layer reports agrees.                              *)
ResumeIsExact ==
  \A t \in Tables :
    /\ stored_position(t) = Highest(t)
    /\ replay(t, stored_position(t)) = rows[t]
    /\ progress[t].last_block = Highest(t)

(* Once a table's watermark is committed, the rows at or below it are      *)
(* final: no later write, retry or restart changes one or adds one there.  *)
BelowWatermarkIsFinal ==
  [][\A t \in Tables :
       /\ \A i \in DOMAIN rows[t] : i \in DOMAIN rows'[t] /\ rows'[t][i] = rows[t][i]
       /\ \A i \in DOMAIN rows'[t] \ DOMAIN rows[t] :
            rows'[t][i].block > progress[t].last_block]_storeVars

(* The rows of a table under one key, in order of insertion.               *)
RowsAt(t, k) ==
  LET at == {i \in DOMAIN rows[t] : rows[t][i].block = k} IN
    [n \in 1..Cardinality(at) |->
       rows[t][CHOOSE i \in at : Cardinality({j \in at : j <= i}) = n].cells]

(* The Store that the writers take for granted, seen in one table and its  *)
(* progress row.                                                           *)
contract(t) == INSTANCE GapFreeWriter WITH
                 Row         <- UNION {[C -> Cells] : C \in {Fields, DOMAIN Overrides[t]}},
                 Unencodable <- {},
                 WriteFails  <- DbFails,
                 table       <- [k \in 0..MaxKey |-> RowsAt(t, k)],
                 progress    <- stored_position(t)

Acknowledged(t) == pc[t] = "commit" /\ pc'[t] = "idle"

(* A write of several statements, interleaved with those of other tables,  *)
(* tried again, rolled back, cut off or left in doubt, implements the one  *)
(* step of the contract: nothing changes, or the rows of one group above   *)
(* the stored position appear together with that position; and a write     *)
(* that returns Ok has taken that step with its own group.                 *)
StoreContract ==
  [][\A t \in Tables :
       \/ UNCHANGED <<rows[t], stored_position(t)>> /\ ~Acknowledged(t)
       \/ \E k \in (stored_position(t) + 1)..MaxKey :
            /\ contract(t)!write(k, RowsAt(t, k)') /\ RowsAt(t, k)' # <<>>
            /\ Acknowledged(t) => k = batch[t].position]_storeVars
=============================================================================
