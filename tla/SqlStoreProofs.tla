--------------------------- MODULE SqlStoreProofs ---------------------------
(***************************************************************************)
(* The archive and what is served from it, for every number of tables and  *)
(* every kind of event, for the specification of Serving, whose own steps  *)
(* leave the archive alone: writers that share a store fail for causes of  *)
(* their own only (IInv), a resume is exact and committed rows are final   *)
(* (ArchiveInv), pages are complete and errors have a cause (ServingInv),  *)
(* and a write is atomic in the sense of GapFreeWriter (SqlImplementsStore).*)
(* And the laws of the block positions that the progress rows hold.        *)
(***************************************************************************)
EXTENDS Serving, WellFoundedInduction, SequenceTheorems, FiniteSetTheorems, TLAPS

Steps == {"down", "idle", "begin", "halted"} \cup Open
Verdicts == {"none", "db", "encode", "key", "bind", "race", "undefined_column"}

StoreTypeOK ==
  /\ dialect \in Dialects
  /\ shape \in {"absent", "old", "nullable", "current"}
  /\ migration_checked \in BOOLEAN
  /\ pc \in [Tables -> Steps]
  /\ attempt \in [Tables -> {1, 2}]
  /\ tx \in [Tables -> [created : BOOLEAN, altered : BOOLEAN, inserted : BOOLEAN]]
  /\ verdict \in [Tables -> Verdicts]
  /\ batch = [t \in Tables |-> batch[t]]
  /\ frozen = [t \in Tables |-> frozen[t]]
  /\ columns = [t \in Tables |-> columns[t]]

Migrated == shape \in {"nullable", "current"}

(* Why the second attempt of a write loses no race, and why no insert      *)
(* misses the position column: what each step of a transaction knows of    *)
(* the progress table, which only ever moves towards Migrated.             *)
RaceOK ==
  /\ migration_checked => Migrated
  /\ \A t \in Tables :
       /\ tx[t].created \/ tx[t].altered => pc[t] \in Open
       /\ attempt[t] = 2 => Migrated
       /\ pc[t] \in {"wait", "alter"} => attempt[t] = 1
       /\ pc[t] = "wait" => shape # "old"
       /\ pc[t] = "alter" => shape # "absent"
       /\ pc[t] = "migrate" => shape # "absent" \/ tx[t].created
       /\ pc[t] \in {"insert", "commit"} => HasPosition(t)

(* SQLite's errors are never taken for a lost race; its pool of one        *)
(* connection leaves nobody to race with.                                  *)
AloneOK ==
  dialect = "sqlite" =>
    \A t \in Tables :
      /\ pc[t] # "wait"
      /\ pc[t] = "alter" => shape = "old"
      /\ \A u \in Tables : pc[t] \in Open /\ pc[u] \in Open => t = u

(* Why a cell binds: the event was encoded under the schema in force, and  *)
(* a table this subscription created, or any one whose columns are         *)
(* declared, has the columns of that schema.                               *)
ColumnOK ==
  \A t \in Tables :
    /\ pc[t] = "down" => frozen[t] = NoColumns
    /\ t \notin foreign /\ columns[t] # NoColumns =>
         columns[t] = TypesOf(t) /\ Frozen(t) # NoColumns
    /\ pc[t] \in {"begin"} \cup Open =>
         /\ encodes(Frozen(t), batch[t].event)
         /\ freeze_columns(Frozen(t), batch[t].event) = Frozen(t)

(* What may keep a cell from binding.                                      *)
Misfit(t) == Unguarded(t) \/ (t \in foreign /\ columns[t] # TypesOf(t))

VerdictOK ==
  \A t \in Tables :
    /\ pc[t] # "halted" => verdict[t] = "none"
    /\ verdict[t] \in {"none", "db", "encode", "key"} \/ (verdict[t] = "bind" /\ Misfit(t))

IInv == StoreTypeOK /\ RaceOK /\ AloneOK /\ ColumnOK /\ VerdictOK

-----------------------------------------------------------------------------
(* Freezing the columns twice from one event changes nothing.              *)
LEMMA FreezeTwice ==
  ASSUME NEW f, NEW e
  PROVE  freeze_columns(freeze_columns(f, e), e) = freeze_columns(f, e)
  BY DEF freeze_columns

(* What encodes under a schema encodes under the schema it freezes.        *)
LEMMA EncodesFrozen ==
  ASSUME NEW f, NEW e, encodes(f, e)
  PROVE  encodes(freeze_columns(f, e), e)
  BY FreezeTwice DEF encodes

(* begin on SQLite finds no transaction open.                              *)
LEMMA NobodyElse ==
  ASSUME StoreTypeOK, dialect = "sqlite", NEW t \in Tables, begin(t),
         NEW u \in Tables
  PROVE  pc[u] \notin Open
<1> DEFINE S == {v \in Tables : pc[v] \in Open}
<1>1. IsFiniteSet(S)
  BY SqlStoreAssumption, FS_Subset
<1>2. Cardinality(S) < 1 /\ Cardinality(S) \in Nat
  BY <1>1, FS_CardinalityType DEF begin, max_connections
<1>3. S = {}
  BY <1>1, <1>2, FS_EmptySet
<1> QED BY <1>3

(* The reasons insert_rows refuses a batch.                                *)
LEMMA RefusalHasCause ==
  ASSUME IInv, NEW t \in Tables, pc[t] = "insert"
  PROVE  \/ Refusal(t) \in {"none", "key"}
         \/ Refusal(t) = "bind" /\ Misfit(t)
<1> DEFINE cells == encode(Frozen(t), batch[t].event)
<1>1. HasPosition(t)
  BY DEF IInv, RaceOK
<1>2. /\ encodes(Frozen(t), batch[t].event)
      /\ freeze_columns(Frozen(t), batch[t].event) = Frozen(t)
  BY DEF IInv, ColumnOK, Open
<1>3. DOMAIN cells = DOMAIN Frozen(t)
  BY <1>2 DEF encode
<1>4. ASSUME ~Misfit(t), NEW c \in DOMAIN cells
      PROVE  c \in DOMAIN Columns(t) /\ binds(dialect, Columns(t)[c], cells[c])
  <2>1. Columns(t) = TypesOf(t)
    BY <1>4 DEF IInv, ColumnOK, Columns, Misfit
  <2>2. c \in DOMAIN Columns(t) /\ Columns(t)[c] = column_type(dialect, Frozen(t)[c])
    BY <1>3, <1>4, <2>1 DEF TypesOf
  <2>3. Frozen(t)[c] \notin {"Real", "Blob"}
    BY <1>3, <1>4 DEF Unguarded, Misfit
  <2>4. cells[c] = cell_of(batch[t].event, c)
    BY <1>2, <1>3 DEF encode
  <2>5. ensure_value_fits(Frozen(t)[c], cells[c])
    BY <1>2, <1>3, <2>4 DEF encodes
  <2> QED BY <2>2, <2>3, <2>5 DEF column_type, ensure_value_fits, binds
<1> QED BY <1>1, <1>4 DEF Refusal

-----------------------------------------------------------------------------
(* The invariant holds at first.                                           *)
LEMMA InitInv == ASSUME StoreInit PROVE IInv
<1>1. StoreTypeOK
  BY DEF StoreInit, StoreTypeOK, Dialects, Steps, Open, Verdicts, NoTx
<1>2. RaceOK /\ AloneOK
  BY DEF StoreInit, RaceOK, AloneOK, Open, NoTx
<1>3. ColumnOK
  BY DEF StoreInit, ColumnOK, Open
<1>4. VerdictOK
  BY DEF StoreInit, VerdictOK
<1> QED BY <1>1, <1>2, <1>3, <1>4 DEF IInv

-----------------------------------------------------------------------------
(* Steps that freeze nothing, start no write and touch no event table.     *)
LEMMA ColumnFrame ==
  ASSUME ColumnOK, UNCHANGED <<dialect, columns, frozen, foreign>>,
         \A t \in Tables : /\ pc'[t] \in {"begin"} \cup Open =>
                                pc[t] \in {"begin"} \cup Open /\ batch'[t] = batch[t]
                           /\ pc'[t] = "down" => pc[t] = "down"
  PROVE  ColumnOK'
  BY DEF ColumnOK, TypesOf, Frozen

(* The table of a halted collector is left alone.                          *)
LEMMA MisfitFrame ==
  ASSUME NEW t \in Tables, UNCHANGED dialect, frozen'[t] = frozen[t],
         columns'[t] = columns[t], t \in foreign => t \in foreign', Misfit(t)
  PROVE  Misfit(t)'
  BY DEF Misfit, Unguarded, TypesOf, Frozen

(* Steps after which nobody has halted who had not.                        *)
LEMMA VerdictFrame ==
  ASSUME VerdictOK, UNCHANGED <<dialect, frozen, verdict>>, foreign \subseteq foreign',
         \A t \in Tables : pc[t] = "halted" => columns'[t] = columns[t],
         \A t \in Tables : pc[t] = "halted" <=> pc'[t] = "halted"
  PROVE  VerdictOK'
<1> SUFFICES ASSUME NEW t \in Tables
             PROVE  /\ pc'[t] # "halted" => verdict'[t] = "none"
                    /\ \/ verdict'[t] \in {"none", "db", "encode", "key"}
                       \/ verdict'[t] = "bind" /\ Misfit(t)'
  BY DEF VerdictOK
<1>1. verdict[t] = "bind" => Misfit(t)'
  BY MisfitFrame DEF VerdictOK
<1> QED BY <1>1 DEF VerdictOK

(* A collector halts for one of the causes.                                *)
LEMMA VerdictHalted ==
  ASSUME StoreTypeOK, VerdictOK, NEW t \in Tables, NEW why,
         UNCHANGED <<dialect, frozen, foreign>>, Halted(t, why),
         \A u \in Tables : pc[u] = "halted" => columns'[u] = columns[u],
         \/ why \in {"db", "encode", "key"}
         \/ why = "bind" /\ UNCHANGED columns /\ Misfit(t)
  PROVE  VerdictOK'
<1> SUFFICES ASSUME NEW u \in Tables
             PROVE  /\ pc'[u] # "halted" => verdict'[u] = "none"
                    /\ \/ verdict'[u] \in {"none", "db", "encode", "key"}
                       \/ verdict'[u] = "bind" /\ Misfit(u)'
  BY DEF VerdictOK
<1>1. CASE u = t
  <2>1. why = "bind" => Misfit(t)'
    BY MisfitFrame
  <2> QED BY <1>1, <2>1 DEF StoreTypeOK, Halted
<1>2. CASE u # t
  <2>1. pc'[u] = pc[u] /\ verdict'[u] = verdict[u]
    BY <1>2 DEF StoreTypeOK, Halted
  <2>2. verdict[u] = "bind" => Misfit(u)'
    BY MisfitFrame DEF VerdictOK
  <2> QED BY <2>1, <2>2 DEF VerdictOK
<1> QED BY <1>1, <1>2

(* subscribe keeps the invariant.                                          *)
LEMMA SubscribeInv == ASSUME IInv, NEW t \in Tables, subscribe(t) PROVE IInv'
<1> USE DEF IInv, subscribe, dbVars
<1>0. UNCHANGED frozen
  BY DEF StoreTypeOK, ColumnOK
<1>1. StoreTypeOK'
  BY DEF StoreTypeOK, Steps
<1>2. RaceOK' /\ AloneOK'
  BY DEF StoreTypeOK, RaceOK, AloneOK, Open, Migrated, HasPosition
<1>3. ColumnOK'
  BY <1>0, ColumnFrame DEF StoreTypeOK, Open
<1>4. VerdictOK'
  BY <1>0, VerdictFrame DEF StoreTypeOK
<1> QED BY <1>1, <1>2, <1>3, <1>4

(* start_write keeps the invariant.                                        *)
LEMMA StartWriteInv == ASSUME IInv, NEW t \in Tables, start_write(t) PROVE IInv'
<1> USE DEF IInv, dbVars
<1>1. PICK e : \/ /\ encodes(Frozen(t), e)
                  /\ \E p : batch' = [batch EXCEPT ![t] = [position |-> p, event |-> e]]
                  /\ frozen' = [frozen EXCEPT ![t] = freeze_columns(Frozen(t), e)]
                  /\ attempt' = [attempt EXCEPT ![t] = 1]
                  /\ pc' = [pc EXCEPT ![t] = "begin"]
                  /\ UNCHANGED <<tx, verdict>>
               \/ /\ ~encodes(Frozen(t), e)
                  /\ Halted(t, "encode")
                  /\ UNCHANGED frozen
  BY DEF start_write
<1>2. pc[t] = "idle" /\ UNCHANGED <<dialect, shape, columns, migration_checked, foreign>>
  BY DEF start_write
<1>3. StoreTypeOK'
  <2>1. CASE Halted(t, "encode") /\ UNCHANGED frozen
    BY <1>2, <2>1 DEF StoreTypeOK, Steps, Verdicts, Halted, NoTx
  <2>2. CASE ~(Halted(t, "encode") /\ UNCHANGED frozen)
    BY <1>1, <1>2, <2>2 DEF StoreTypeOK, Steps
  <2> QED BY <1>1, <2>1, <2>2
<1>4. RaceOK' /\ AloneOK'
  BY <1>1, <1>2 DEF StoreTypeOK, RaceOK, AloneOK, Open, Migrated, HasPosition, Halted, NoTx
<1>5. CASE Halted(t, "encode") /\ UNCHANGED frozen
  <2>1. ColumnOK'
    BY <1>2, <1>5, ColumnFrame DEF StoreTypeOK, Halted, Open
  <2>2. VerdictOK'
    BY <1>2, <1>5, VerdictHalted
  <2> QED BY <1>3, <1>4, <2>1, <2>2
<1>6. CASE /\ encodes(Frozen(t), e)
           /\ \E p : batch' = [batch EXCEPT ![t] = [position |-> p, event |-> e]]
           /\ frozen' = [frozen EXCEPT ![t] = freeze_columns(Frozen(t), e)]
           /\ pc' = [pc EXCEPT ![t] = "begin"]
           /\ UNCHANGED verdict
  <2>1. Frozen(t)' = freeze_columns(Frozen(t), e)
    BY <1>6 DEF StoreTypeOK, Frozen, freeze_columns
  <2>2. \A u \in Tables \ {t} : Frozen(u)' = Frozen(u) /\ batch'[u] = batch[u] /\ pc'[u] = pc[u]
    BY <1>6 DEF StoreTypeOK, Frozen
  <2>3. batch'[t].event = e
    BY <1>6 DEF StoreTypeOK
  <2>4. /\ encodes(Frozen(t)', batch'[t].event)
        /\ freeze_columns(Frozen(t)', batch'[t].event) = Frozen(t)'
    BY <1>6, <2>1, <2>3, FreezeTwice, EncodesFrozen
  <2>5. Frozen(t) # NoColumns => Frozen(t)' = Frozen(t)
    BY <2>1 DEF freeze_columns
  <2>6. ColumnOK'
    <3> SUFFICES ASSUME NEW u \in Tables
                 PROVE  /\ pc'[u] = "down" => frozen'[u] = NoColumns
                        /\ u \notin foreign' /\ columns'[u] # NoColumns =>
                             columns'[u] = TypesOf(u)' /\ Frozen(u)' # NoColumns
                        /\ pc'[u] \in {"begin"} \cup Open =>
                             /\ encodes(Frozen(u)', batch'[u].event)
                             /\ freeze_columns(Frozen(u)', batch'[u].event) = Frozen(u)'
      BY DEF ColumnOK
    <3>0. IF u = t THEN pc'[u] = "begin" ELSE frozen'[u] = frozen[u]
      BY <1>6 DEF StoreTypeOK
    <3>1. CASE u = t
      BY <1>2, <2>4, <2>5, <3>0, <3>1 DEF ColumnOK, TypesOf
    <3>2. CASE u # t
      BY <1>2, <2>2, <3>0, <3>2 DEF ColumnOK, TypesOf
    <3> QED BY <3>1, <3>2
  <2>7. VerdictOK'
    <3> SUFFICES ASSUME NEW u \in Tables
                 PROVE  /\ pc'[u] # "halted" => verdict'[u] = "none"
                        /\ \/ verdict'[u] \in {"none", "db", "encode", "key"}
                           \/ verdict'[u] = "bind" /\ Misfit(u)'
      BY DEF VerdictOK
    <3>1. CASE u = t
      BY <1>2, <1>6, <3>1 DEF VerdictOK
    <3>2. CASE u # t
      <4>1. pc'[u] = pc[u] /\ verdict'[u] = verdict[u] /\ frozen'[u] = frozen[u]
        BY <1>6, <3>2 DEF StoreTypeOK
      <4>2. verdict[u] = "bind" => Misfit(u)'
        BY <1>2, <4>1, MisfitFrame DEF VerdictOK
      <4> QED BY <4>1, <4>2 DEF VerdictOK
    <3> QED BY <3>1, <3>2
  <2> QED BY <1>3, <1>4, <2>6, <2>7
<1> QED BY <1>1, <1>5, <1>6

(* create_tables keeps the invariant.                                      *)
LEMMA CreateTablesInv == ASSUME IInv, NEW t \in Tables, create_tables(t) PROVE IInv'
<1> USE DEF IInv, dbVars
<1>1. pc[t] = "begin" /\ pc' \in {[pc EXCEPT ![t] = "migrate"], [pc EXCEPT ![t] = "wait"]}
  BY DEF create_tables, begin
<1>2. UNCHANGED <<dialect, shape, columns, migration_checked, attempt, batch, frozen, verdict,
                  foreign>>
  BY DEF create_tables
<1>3. StoreTypeOK'
  <2>1. tx' = tx \/ tx' = [tx EXCEPT ![t].created = TRUE]
    BY DEF create_tables
  <2>2. tx' \in [Tables -> [created : BOOLEAN, altered : BOOLEAN, inserted : BOOLEAN]]
    <3>1. tx \in [Tables -> [created : BOOLEAN, altered : BOOLEAN, inserted : BOOLEAN]]
      BY DEF StoreTypeOK
    <3>2. CASE tx' = tx
      BY <3>1, <3>2
    <3>3. CASE tx' = [tx EXCEPT ![t].created = TRUE]
      BY <3>1, <3>3
    <3> QED BY <2>1, <3>2, <3>3
  <2>3. pc' \in [Tables -> Steps]
    BY <1>1 DEF StoreTypeOK, Steps, Open
  <2> QED BY <1>2, <2>2, <2>3 DEF StoreTypeOK
<1>4. RaceOK'
  BY <1>1, <1>2 DEF create_tables, StoreTypeOK, RaceOK, Open, Migrated, HasPosition
<1>5. AloneOK'
  <2> SUFFICES ASSUME dialect = "sqlite" PROVE AloneOK'
    BY <1>2 DEF AloneOK
  <2>1. \A u \in Tables : pc[u] \notin Open
    BY NobodyElse DEF create_tables
  <2>2. ~Creating(t)
    BY <2>1 DEF Creating, RaceOK
  <2>3. pc' = [pc EXCEPT ![t] = "migrate"]
    BY <2>2 DEF create_tables
  <2> QED BY <1>2, <2>1, <2>3 DEF StoreTypeOK, AloneOK, Open
<1>6. ColumnOK'
  BY <1>1, <1>2, ColumnFrame DEF StoreTypeOK, Open
<1>7. VerdictOK'
  BY <1>1, <1>2, VerdictFrame DEF StoreTypeOK
<1> QED BY <1>3, <1>4, <1>5, <1>6, <1>7

(* A lost race is tried again: it is the first attempt that loses it, and  *)
(* on PostgreSQL.                                                          *)
LEMMA RaceLostInv ==
  ASSUME IInv, NEW t \in Tables, RaceLost(t), pc[t] \in {"wait", "alter"}, Migrated,
         UNCHANGED <<dbVars, migration_checked, frozen, reached, foreign>>
  PROVE  IInv'
<1> USE DEF IInv, dbVars
<1>1. attempt[t] = 1 /\ dialect = "postgres"
  BY DEF RaceOK, AloneOK, StoreTypeOK, Dialects, Migrated
<1>2. /\ tx' = [tx EXCEPT ![t] = NoTx]
      /\ attempt' = [attempt EXCEPT ![t] = 2]
      /\ pc' = [pc EXCEPT ![t] = "begin"]
      /\ UNCHANGED <<batch, verdict>>
  BY <1>1 DEF RaceLost, is_duplicate_object
<1>3. StoreTypeOK'
  BY <1>2 DEF StoreTypeOK, Steps, NoTx
<1>4. RaceOK' /\ AloneOK'
  BY <1>1, <1>2 DEF StoreTypeOK, RaceOK, AloneOK, Open, Migrated, HasPosition, NoTx
<1>5. ColumnOK'
  BY <1>2, ColumnFrame DEF StoreTypeOK, Open
<1>6. VerdictOK'
  BY <1>2, VerdictFrame DEF StoreTypeOK
<1> QED BY <1>3, <1>4, <1>5, <1>6

(* create_resumes keeps the invariant.                                     *)
LEMMA CreateResumesInv == ASSUME IInv, NEW t \in Tables, create_resumes(t) PROVE IInv'
<1> USE DEF IInv, dbVars
<1>1. CASE shape # "absent"
  BY <1>1, RaceLostInv DEF create_resumes, StoreTypeOK, RaceOK, Migrated
<1>2. CASE shape = "absent"
  <2>1. /\ pc[t] = "wait" /\ pc' = [pc EXCEPT ![t] = "migrate"]
        /\ tx' = [tx EXCEPT ![t].created = TRUE]
        /\ UNCHANGED <<dialect, shape, columns, migration_checked, attempt, batch, frozen,
                       verdict, foreign>>
    BY <1>2 DEF create_resumes
  <2>2. StoreTypeOK'
    BY <2>1 DEF StoreTypeOK, Steps, Open
  <2>3. RaceOK' /\ AloneOK'
    BY <2>1 DEF StoreTypeOK, RaceOK, AloneOK, Open, Migrated, HasPosition
  <2>4. ColumnOK'
    BY <2>1, ColumnFrame DEF StoreTypeOK, Open
  <2>5. VerdictOK'
    BY <2>1, VerdictFrame DEF StoreTypeOK
  <2> QED BY <2>2, <2>3, <2>4, <2>5
<1> QED BY <1>1, <1>2

(* migrate_if_needed keeps the invariant.                                  *)
LEMMA MigrateInv == ASSUME IInv, NEW t \in Tables, migrate_if_needed(t) PROVE IInv'
<1> USE DEF IInv, dbVars
<1>1. /\ pc[t] = "migrate"
      /\ \/ (Migrated \/ tx[t].created) /\ pc' = [pc EXCEPT ![t] = "insert"]
         \/ shape = "old" /\ pc' = [pc EXCEPT ![t] = "alter"]
  BY DEF migrate_if_needed, RaceOK, Migrated
<1>2. UNCHANGED <<dialect, shape, columns, migration_checked, attempt, batch, tx, frozen, verdict,
                  foreign>>
  BY DEF migrate_if_needed
<1>3. StoreTypeOK'
  BY <1>1, <1>2 DEF StoreTypeOK, Steps, Open
<1>4. RaceOK'
  <2>1. CASE (Migrated \/ tx[t].created) /\ pc' = [pc EXCEPT ![t] = "insert"]
    BY <1>1, <1>2, <2>1 DEF StoreTypeOK, RaceOK, Open, Migrated, HasPosition
  <2>2. CASE shape = "old" /\ pc' = [pc EXCEPT ![t] = "alter"]
    BY <1>1, <1>2, <2>2 DEF StoreTypeOK, RaceOK, Open, Migrated, HasPosition
  <2> QED BY <1>1, <2>1, <2>2
<1>5. AloneOK'
  BY <1>1, <1>2 DEF StoreTypeOK, AloneOK, Open
<1>6. ColumnOK'
  BY <1>1, <1>2, ColumnFrame DEF StoreTypeOK, Open
<1>7. VerdictOK'
  BY <1>1, <1>2, VerdictFrame DEF StoreTypeOK
<1> QED BY <1>3, <1>4, <1>5, <1>6, <1>7

(* add_position_column keeps the invariant.                                *)
LEMMA AddColumnInv == ASSUME IInv, NEW t \in Tables, add_position_column(t) PROVE IInv'
<1> USE DEF IInv, dbVars
<1>1. CASE shape # "old"
  BY <1>1, RaceLostInv DEF add_position_column, StoreTypeOK, RaceOK, Migrated
<1>2. CASE shape = "old"
  <2>1. /\ pc[t] = "alter" /\ pc' = [pc EXCEPT ![t] = "insert"]
        /\ tx' = [tx EXCEPT ![t].altered = TRUE]
        /\ UNCHANGED <<dialect, shape, columns, migration_checked, attempt, batch, frozen,
                       verdict, foreign>>
    BY <1>2 DEF add_position_column
  <2>2. StoreTypeOK'
    BY <2>1 DEF StoreTypeOK, Steps, Open
  <2>3. RaceOK' /\ AloneOK'
    BY <2>1 DEF StoreTypeOK, RaceOK, AloneOK, Open, Migrated, HasPosition
  <2>4. ColumnOK'
    BY <2>1, ColumnFrame DEF StoreTypeOK, Open
  <2>5. VerdictOK'
    BY <2>1, VerdictFrame DEF StoreTypeOK
  <2> QED BY <2>2, <2>3, <2>4, <2>5
<1> QED BY <1>1, <1>2

(* insert_rows keeps the invariant.                                        *)
LEMMA InsertInv == ASSUME IInv, NEW t \in Tables, insert_rows(t) PROVE IInv'
<1> USE DEF IInv, dbVars
<1>1. /\ pc[t] = "insert"
      /\ UNCHANGED <<dialect, shape, columns, migration_checked, frozen, foreign>>
  BY DEF insert_rows
<1>2. CASE Refusal(t) = "none"
  <2>1. /\ tx' = [tx EXCEPT ![t].inserted = TRUE]
        /\ pc' = [pc EXCEPT ![t] = "commit"]
        /\ UNCHANGED <<attempt, batch, verdict>>
    BY <1>2 DEF insert_rows
  <2>2. StoreTypeOK'
    BY <1>1, <2>1 DEF StoreTypeOK, Steps, Open
  <2>3. RaceOK' /\ AloneOK'
    BY <1>1, <2>1 DEF StoreTypeOK, RaceOK, AloneOK, Open, Migrated, HasPosition
  <2>4. ColumnOK'
    BY <1>1, <2>1, ColumnFrame DEF StoreTypeOK, Open
  <2>5. VerdictOK'
    BY <1>1, <2>1, VerdictFrame DEF StoreTypeOK
  <2> QED BY <2>2, <2>3, <2>4, <2>5
<1>3. CASE Refusal(t) # "none"
  <2>1. Halted(t, Refusal(t))
    BY <1>3 DEF insert_rows
  <2>2. Refusal(t) = "key" \/ (Refusal(t) = "bind" /\ Misfit(t))
    BY <1>1, <1>3, RefusalHasCause
  <2>3. StoreTypeOK'
    BY <1>1, <2>1, <2>2 DEF StoreTypeOK, Steps, Open, Halted, NoTx, Verdicts
  <2>4. RaceOK' /\ AloneOK'
    BY <1>1, <2>1 DEF StoreTypeOK, RaceOK, AloneOK, Open, Migrated, HasPosition, Halted, NoTx
  <2>5. ColumnOK'
    BY <1>1, <2>1, ColumnFrame DEF StoreTypeOK, Open, Halted
  <2>6. VerdictOK'
    BY <1>1, <2>1, <2>2, VerdictHalted
  <2> QED BY <2>3, <2>4, <2>5, <2>6
<1> QED BY <1>2, <1>3

(* statement_fails keeps the invariant.                                    *)
LEMMA StatementFailsInv == ASSUME IInv, NEW t \in Tables, statement_fails(t) PROVE IInv'
<1> USE DEF IInv, dbVars, statement_fails
<1>1. StoreTypeOK'
  BY DEF StoreTypeOK, Steps, Halted, NoTx, Verdicts
<1>2. RaceOK' /\ AloneOK'
  BY DEF StoreTypeOK, RaceOK, AloneOK, Open, Migrated, HasPosition, Halted, NoTx
<1>3. ColumnOK'
  BY ColumnFrame DEF StoreTypeOK, Open, Halted
<1>4. VerdictOK'
  BY VerdictHalted
<1> QED BY <1>1, <1>2, <1>3, <1>4

(* After a commit the progress table has its position column, and the      *)
(* event table the columns of the schema in force, or the ones it had.     *)
LEMMA CommitInv == ASSUME IInv, NEW t \in Tables, commit(t) PROVE IInv'
<1> USE DEF IInv, dbVars
<1>1. /\ pc[t] = "commit"
      /\ tx' = [tx EXCEPT ![t] = NoTx]
      /\ attempt' = [attempt EXCEPT ![t] = 1]
      /\ batch' = [batch EXCEPT ![t] = NoBatch]
      /\ UNCHANGED <<dialect, frozen, foreign>>
  BY DEF commit, Committed, Halted
<1>2. Committed(t) => Migrated'
  BY <1>1 DEF Committed, RaceOK, HasPosition, Migrated
<1>3. \/ Migrated' /\ columns' = [columns EXCEPT ![t] = Columns(t)]
      \/ UNCHANGED <<shape, columns>>
  BY <1>2 DEF commit, Committed
<1>4. \/ /\ Migrated' /\ migration_checked' = TRUE
         /\ pc' = [pc EXCEPT ![t] = "idle"]
         /\ UNCHANGED verdict
      \/ Halted(t, "db") /\ UNCHANGED migration_checked
  BY <1>2 DEF commit
<1>5. shape' \in {"absent", "old", "nullable", "current"}
  BY <1>3 DEF StoreTypeOK, Migrated
<1>6. pc' \in {[pc EXCEPT ![t] = "idle"], [pc EXCEPT ![t] = "halted"]}
  BY <1>4 DEF Halted
<1>7. StoreTypeOK'
  BY <1>1, <1>3, <1>4, <1>5, <1>6 DEF StoreTypeOK, Steps, Verdicts, Halted, NoTx
<1>8. RaceOK'
  <2>1. Migrated => Migrated'
    BY <1>3 DEF Migrated
  <2>2. migration_checked' => Migrated'
    BY <1>4, <2>1 DEF RaceOK
  <2> SUFFICES ASSUME NEW u \in Tables
               PROVE  /\ tx'[u].created \/ tx'[u].altered => pc'[u] \in Open
                      /\ attempt'[u] = 2 => Migrated'
                      /\ pc'[u] \in {"wait", "alter"} => attempt'[u] = 1
                      /\ pc'[u] = "wait" => shape' # "old"
                      /\ pc'[u] = "alter" => shape' # "absent"
                      /\ pc'[u] = "migrate" => shape' # "absent" \/ tx'[u].created
                      /\ pc'[u] \in {"insert", "commit"} => HasPosition(u)'
    BY <2>2 DEF RaceOK
  <2>3. CASE u = t
    BY <1>1, <1>6, <2>3 DEF StoreTypeOK, Open, NoTx
  <2>4. CASE u # t
    <3>1. pc'[u] = pc[u] /\ tx'[u] = tx[u] /\ attempt'[u] = attempt[u]
      BY <1>1, <1>6, <2>4 DEF StoreTypeOK
    <3> QED BY <1>3, <2>1, <3>1 DEF RaceOK, Migrated, HasPosition
  <2> QED BY <2>3, <2>4
<1>9. AloneOK'
  BY <1>1, <1>6 DEF StoreTypeOK, AloneOK, Open
<1>10. ColumnOK'
  <2> SUFFICES ASSUME NEW u \in Tables
               PROVE  /\ pc'[u] = "down" => frozen'[u] = NoColumns
                      /\ u \notin foreign' /\ columns'[u] # NoColumns =>
                           columns'[u] = TypesOf(u)' /\ Frozen(u)' # NoColumns
                      /\ pc'[u] \in {"begin"} \cup Open =>
                           /\ encodes(Frozen(u)', batch'[u].event)
                           /\ freeze_columns(Frozen(u)', batch'[u].event) = Frozen(u)'
    BY DEF ColumnOK
  <2>1. Frozen(u)' = Frozen(u) /\ TypesOf(u)' = TypesOf(u)
    BY <1>1 DEF Frozen, TypesOf
  <2>2. CASE u = t
    <3>1. pc'[u] \notin {"down", "begin"} \cup Open
      BY <1>6, <2>2 DEF StoreTypeOK, Open
    <3>2. columns'[u] = columns[u] \/ columns'[u] = Columns(u)
      BY <1>3, <2>2 DEF StoreTypeOK
    <3>3. Frozen(u) = NoColumns => TypesOf(u) = NoColumns
      BY DEF TypesOf, NoColumns
    <3>4. (Columns(u) = columns[u] /\ columns[u] # NoColumns) \/ Columns(u) = TypesOf(u)
      BY DEF Columns, TypesOf
    <3> QED BY <1>1, <2>1, <3>1, <3>2, <3>3, <3>4 DEF ColumnOK
  <2>3. CASE u # t
    <3>1. pc'[u] = pc[u] /\ batch'[u] = batch[u] /\ columns'[u] = columns[u]
      BY <1>1, <1>3, <1>6, <2>3 DEF StoreTypeOK
    <3> QED BY <1>1, <2>1, <3>1 DEF ColumnOK
  <2> QED BY <2>2, <2>3
<1>11. VerdictOK'
  <2>0. \A u \in Tables : pc[u] = "halted" => columns'[u] = columns[u]
    BY <1>1, <1>3 DEF StoreTypeOK
  <2>1. CASE Halted(t, "db")
    BY <1>1, <2>0, <2>1, VerdictHalted
  <2>2. CASE pc' = [pc EXCEPT ![t] = "idle"] /\ UNCHANGED verdict
    BY <1>1, <2>0, <2>2, VerdictFrame DEF StoreTypeOK
  <2> QED BY <1>4, <2>1, <2>2
<1> QED BY <1>7, <1>8, <1>9, <1>10, <1>11

(* The end of any number of streams keeps the invariant: the tables whose  *)
(* columns were inferred become foreign, declared columns stay in force.   *)
LEMMA EndStreamsInv ==
  ASSUME IInv, NEW S \in SUBSET Tables, EndStreams(S),
         migration_checked' \in {FALSE, migration_checked}
  PROVE  IInv'
<1> USE DEF IInv, dbVars, EndStreams
<1>1. StoreTypeOK'
  BY DEF StoreTypeOK, Steps, Verdicts, NoTx
<1>2. RaceOK'
  <2>0. migration_checked' => migration_checked
    OBVIOUS
  <2> SUFFICES ASSUME NEW t \in Tables
               PROVE  /\ tx'[t].created \/ tx'[t].altered => pc'[t] \in Open
                      /\ attempt'[t] = 2 => Migrated'
                      /\ pc'[t] \in {"wait", "alter"} => attempt'[t] = 1
                      /\ pc'[t] = "wait" => shape' # "old"
                      /\ pc'[t] = "alter" => shape' # "absent"
                      /\ pc'[t] = "migrate" => shape' # "absent" \/ tx'[t].created
                      /\ pc'[t] \in {"insert", "commit"} => HasPosition(t)'
    BY <2>0 DEF RaceOK, Migrated
  <2>1. CASE t \in S
    <3>1. pc'[t] = "down" /\ tx'[t] = NoTx /\ attempt'[t] = 1
      BY <2>1
    <3> QED BY <3>1 DEF NoTx
  <2>2. CASE t \notin S
    <3>1. pc'[t] = pc[t] /\ tx'[t] = tx[t] /\ attempt'[t] = attempt[t] /\ shape' = shape
      BY <2>2
    <3> QED BY <3>1 DEF RaceOK, Migrated, HasPosition
  <2> QED BY <2>1, <2>2
<1>3. AloneOK'
  BY DEF StoreTypeOK, AloneOK, Open
<1>4. ColumnOK'
  <2> SUFFICES ASSUME NEW t \in Tables
               PROVE  /\ pc'[t] = "down" => frozen'[t] = NoColumns
                      /\ t \notin foreign' /\ columns'[t] # NoColumns =>
                           columns'[t] = TypesOf(t)' /\ Frozen(t)' # NoColumns
                      /\ pc'[t] \in {"begin"} \cup Open =>
                           /\ encodes(Frozen(t)', batch'[t].event)
                           /\ freeze_columns(Frozen(t)', batch'[t].event) = Frozen(t)'
    BY DEF ColumnOK
  <2>1. CASE t \notin S
    <3>1. /\ pc'[t] = pc[t] /\ frozen'[t] = frozen[t] /\ batch'[t] = batch[t]
          /\ t \notin foreign' => t \notin foreign
      BY <2>1
    <3>2. Frozen(t)' = Frozen(t) /\ TypesOf(t)' = TypesOf(t)
      BY <3>1 DEF Frozen, TypesOf
    <3> QED BY <3>1, <3>2 DEF ColumnOK
  <2>2. CASE t \in S
    <3>1. pc'[t] = "down" /\ frozen'[t] = NoColumns
      BY <2>2
    <3>2. ASSUME t \notin foreign', columns'[t] # NoColumns
          PROVE  columns'[t] = TypesOf(t)' /\ Frozen(t)' # NoColumns
      <4>1. Overrides[t] # NoColumns /\ t \notin foreign
        BY <2>2, <3>2
      <4>2. Frozen(t)' = Frozen(t) /\ TypesOf(t)' = TypesOf(t)
        BY <4>1 DEF Frozen, TypesOf
      <4> QED BY <3>2, <4>1, <4>2 DEF ColumnOK
    <3> QED BY <3>1, <3>2 DEF Open
  <2> QED BY <2>1, <2>2
<1>5. VerdictOK'
  <2> SUFFICES ASSUME NEW t \in Tables
               PROVE  /\ pc'[t] # "halted" => verdict'[t] = "none"
                      /\ \/ verdict'[t] \in {"none", "db", "encode", "key"}
                         \/ verdict'[t] = "bind" /\ Misfit(t)'
    BY DEF VerdictOK
  <2>1. CASE t \notin S
    <3>1. /\ pc'[t] = pc[t] /\ verdict'[t] = verdict[t] /\ frozen'[t] = frozen[t]
          /\ t \in foreign => t \in foreign'
      BY <2>1
    <3>2. verdict[t] = "bind" => Misfit(t)'
      BY <3>1, MisfitFrame DEF VerdictOK
    <3> QED BY <3>1, <3>2 DEF VerdictOK
  <2>2. CASE t \in S
    BY <2>2
  <2> QED BY <2>1, <2>2
<1> QED BY <1>1, <1>2, <1>3, <1>4, <1>5

(* old_binary_write keeps the invariant.                                   *)
LEMMA OldBinaryInv == ASSUME IInv, NEW t \in Tables, old_binary_write(t) PROVE IInv'
<1> USE DEF IInv, dbVars, memVars
<1>1. /\ pc[t] = "down"
      /\ columns' = [columns EXCEPT ![t] = [f \in Fields |-> "Text"]]
      /\ foreign' = foreign \cup {t}
      /\ UNCHANGED <<dialect, shape, migration_checked, pc, attempt, batch, tx, frozen, verdict>>
  BY DEF old_binary_write
<1>2. StoreTypeOK'
  BY <1>1 DEF StoreTypeOK
<1>3. RaceOK' /\ AloneOK'
  BY <1>1 DEF RaceOK, AloneOK, Migrated, HasPosition
<1>4. ColumnOK'
  BY <1>1 DEF StoreTypeOK, ColumnOK, TypesOf, Frozen, Open
<1>5. VerdictOK'
  <2>1. \A u \in Tables : pc[u] = "halted" => columns'[u] = columns[u]
    BY <1>1 DEF StoreTypeOK
  <2> QED BY <1>1, <2>1, VerdictFrame
<1> QED BY <1>2, <1>3, <1>4, <1>5

(* Every step of the store keeps the invariant.                            *)
LEMMA StoreStepInv == ASSUME IInv, [StoreNext]_storeVars PROVE IInv'
<1>1. CASE restart
  BY <1>1, EndStreamsInv DEF restart
<1>2. ASSUME NEW t \in Tables, Write(t) PROVE IInv'
  <2>1. stream_ends(t) => IInv'
    BY EndStreamsInv DEF stream_ends
  <2> QED BY <1>2, <2>1, SubscribeInv, StartWriteInv, CreateTablesInv, CreateResumesInv,
             MigrateInv, AddColumnInv, InsertInv, CommitInv, StatementFailsInv, OldBinaryInv
          DEF Write
<1>3. CASE UNCHANGED storeVars
  <2> USE DEF IInv, storeVars, dbVars, memVars
  <2>1. StoreTypeOK' /\ RaceOK' /\ AloneOK'
    BY <1>3 DEF StoreTypeOK, RaceOK, AloneOK, Migrated, HasPosition
  <2>2. ColumnOK'
    BY <1>3, ColumnFrame
  <2>3. VerdictOK'
    BY <1>3, VerdictFrame
  <2> QED BY <2>1, <2>2, <2>3
<1> QED BY <1>1, <1>2, <1>3 DEF StoreNext

(* The serving layer only reads.                                           *)
LEMMA ServingReads == ASSUME [Next]_vars PROVE [StoreNext]_storeVars
<1>1. CASE Handle
  BY <1>1 DEF Handle, get_health_handler, list_tables_handler, get_status_handler, check_table,
     get_schema_handler, query_rows_handler
<1>2. CASE shutdown \/ drained \/ \E source \in Sources : serve(source)
  BY <1>2 DEF shutdown, drained, serve
<1> QED BY <1>1, <1>2 DEF Next, vars

(* However many collectors share the store, create or migrate its tables   *)
(* at the same time, fail, retry, lose their streams, subscribe again with *)
(* fresh Records and restart, a write halts persistence only for a cause   *)
(* of its own.                                                             *)
THEOREM WritesFailForCause == Spec => []FailureHasCause
<1>1. Init => IInv
  BY InitInv DEF Init
<1>2. IInv /\ [Next]_vars => IInv'
  BY StoreStepInv, ServingReads
<1>3. IInv => FailureHasCause
  BY DEF IInv, VerdictOK, Misfit, FailureHasCause
<1> QED BY <1>1, <1>2, <1>3, PTL DEF Spec

-----------------------------------------------------------------------------
(***************************************************************************)
(* Sequences and initial segments.                                         *)
(***************************************************************************)

(* Every non-empty set of naturals has a least element.                    *)
LEMMA Least ==
  ASSUME NEW T \in SUBSET Nat, T # {}
  PROVE  \E x \in T : \A y \in T : x <= y
<1>1. PICK x \in T : \A y \in T : ~ (<<y, x>> \in OpToRel(<, Nat))
  BY NatLessThanWellFounded, WFMin
<1>2. \A y \in T : ~(y < x)
  BY <1>1 DEF OpToRel
<1> QED BY <1>2

(* A set of indices that holds, with an index, all smaller ones is an      *)
(* initial segment.                                                        *)
LEMMA InitialSegment ==
  ASSUME NEW n \in Nat, NEW S \in SUBSET (1..n), \A i \in S, j \in 1..n : j < i => j \in S
  PROVE  \E m \in 0..n : S = 1..m
<1> DEFINE Out == {i \in Nat : i >= 1 /\ i \notin S}
<1>1. n + 1 \in Out
  OBVIOUS
<1>2. PICK x \in Out : \A y \in Out : x <= y
  BY <1>1, Least
<1>3. x - 1 \in 0..n
  BY <1>1, <1>2
<1>4. S = 1..(x - 1)
  <2>1. ASSUME NEW i \in 1..(x - 1) PROVE i \in S
    BY <1>2, <2>1
  <2>2. ASSUME NEW i \in S PROVE i \in 1..(x - 1)
    <3>1. i \in 1..n /\ i # x
      BY <1>2
    <3>2. ~(x < i)
      <4>1. x < i => x \in 1..n
        BY <1>2, <3>1
      <4> QED BY <1>2, <4>1
    <3> QED BY <1>2, <3>1, <3>2
  <2> QED BY <2>1, <2>2
<1> QED BY <1>3, <1>4

(* One more element, of whatever kind.                                     *)
LEMMA AppendAny ==
  ASSUME NEW S, NEW s \in Seq(S), NEW e
  PROVE  /\ Append(s, e) \in Seq(S \cup {e}) /\ Append(s, e) # <<>>
         /\ Len(Append(s, e)) = Len(s) + 1 /\ DOMAIN Append(s, e) = 1..(Len(s) + 1)
         /\ \A i \in DOMAIN s : Append(s, e)[i] = s[i]
         /\ Append(s, e)[Len(s) + 1] = e
         /\ Len(s) \in Nat /\ DOMAIN s = 1..Len(s)
<1>1. s \in Seq(S \cup {e}) /\ e \in S \cup {e}
  OBVIOUS
<1>2. Len(s) \in Nat /\ DOMAIN s = 1..Len(s)
  OBVIOUS
<1>3. Append(s, e) \in Seq(S \cup {e}) /\ Len(Append(s, e)) = Len(s) + 1
  BY <1>1, AppendProperties
<1> QED BY <1>1, <1>2, <1>3, AppendProperties

-----------------------------------------------------------------------------
(***************************************************************************)
(* The archive: rows go upwards, the progress row names the last of them,  *)
(* and what a collector writes lies above it.                              *)
(***************************************************************************)

Ascending(s) == \A i, j \in DOMAIN s : i < j => s[i].block < s[j].block

RowsOK(s) ==
  /\ \E S : s \in Seq(S)
  /\ \A i \in DOMAIN s : s[i].block \in 0..MaxI64
  /\ Ascending(s)

(* The last row's block is in the progress row; its text, where there is   *)
(* one, says the same.                                                     *)
ProgressOK(p, s) ==
  /\ p = [last_block |-> p.last_block, position |-> p.position]
  /\ p = NoRow => s = <<>>
  /\ p # NoRow =>
       /\ s # <<>> /\ p.last_block = s[Len(s)].block
       /\ p.position \in {Null, pos!encode(p.last_block)}

Busy == {"begin"} \cup Open

(* What insert_rows has established when the transaction commits.          *)
Bound(t) ==
  LET cells == encode(Frozen(t), batch[t].event) IN
    /\ batch[t].position <= MaxI64
    /\ \A c \in DOMAIN cells :
         c \in DOMAIN Columns(t) /\ binds(dialect, Columns(t)[c], cells[c])

WriteOK(t) ==
  /\ pc[t] \in {"idle"} \cup Busy => reached[t] = progress[t].last_block
  /\ pc[t] \in Busy =>
       /\ batch[t].position \in (reached[t] + 1)..MaxKey
       /\ batch[t].event \in Events[t]
  /\ pc[t] = "commit" => Bound(t)

(* The columns a Record has frozen have types of schema.rs.                *)
FrozenOK(f) == f \in [DOMAIN f -> SqlTypes]

(* row_to_json, for columns of these types.                                *)
Reads(types, row) ==
  \A c \in DOMAIN row.cells :
    cell_to_json([d \in DOMAIN types |-> normalize_type(types[d])][c], row.cells[c])

(* The tables SQLite may serve wrong.                                      *)
Culprit(t) == dialect = "sqlite" /\ (t \in foreign \/ Misread(t))

(* The types PostgreSQL's columns have.                                    *)
PgTypes == {"Integer", "Real", "Text", "Blob"}

(* A cell decodes as what its column reports, on PostgreSQL in every table *)
(* and on SQLite in every one that is not a culprit.                       *)
CellOK(t) ==
  /\ rows[t] # <<>> => columns[t] # NoColumns
  /\ t \in foreign => columns[t] # NoColumns
  /\ dialect = "postgres" => \A c \in DOMAIN columns[t] : columns[t][c] \in PgTypes
  /\ Culprit(t) \/ \A i \in DOMAIN rows[t] : Reads(columns[t], rows[t][i])

ArchiveInv ==
  /\ progress = [t \in Tables |-> progress[t]]
  /\ rows = [t \in Tables |-> rows[t]]
  /\ reached = [t \in Tables |-> reached[t]]
  /\ foreign \subseteq Tables
  /\ \A t \in Tables :
       /\ RowsOK(rows[t]) /\ ProgressOK(progress[t], rows[t])
       /\ WriteOK(t) /\ CellOK(t) /\ FrozenOK(frozen[t])

-----------------------------------------------------------------------------
(* The texts a progress row may hold differ.                               *)
LEMMA Texts ==
  ASSUME NEW b
  PROVE  /\ pos!encode(b) # Null /\ pos!decode(pos!encode(b)) = b
         /\ NoRow.last_block = -1 /\ NoRow.position # Null
         /\ [last_block |-> b, position |-> Null] # NoRow
         /\ [last_block |-> b, position |-> pos!encode(b)] # NoRow
<1>1. pos!encode(b).kind = "decimal" /\ Null.kind = "null" /\ NoRow.position.kind = "none"
  BY DEF pos!encode, Null, NoRow
<1>2. [last_block |-> b, position |-> Null].position = Null
  OBVIOUS
<1>3. [last_block |-> b, position |-> pos!encode(b)].position = pos!encode(b)
  OBVIOUS
<1>4. pos!decode(pos!encode(b)) = b
  BY DEF pos!encode, pos!decode
<1>5. NoRow.last_block = -1
  BY DEF NoRow, None
<1>6. pos!encode(b) # Null /\ NoRow.position # Null /\ pos!encode(b) # NoRow.position
  BY <1>1
<1> QED BY <1>2, <1>3, <1>4, <1>5, <1>6

(* The block of the progress row bounds the rows.                          *)
LEMMA LastBlock ==
  ASSUME NEW p, NEW s, RowsOK(s), ProgressOK(p, s)
  PROVE  /\ p.last_block \in -1..MaxI64
         /\ p # NoRow => p.last_block >= 0
         /\ \A i \in DOMAIN s : s[i].block <= p.last_block
         /\ s = <<>> <=> p = NoRow
<1>1. PICK S : s \in Seq(S)
  BY DEF RowsOK
<1>2. Len(s) \in Nat /\ DOMAIN s = 1..Len(s) /\ (s # <<>> => Len(s) \in DOMAIN s)
  BY <1>1
<1>3. MaxI64 \in Nat
  BY SqlStoreAssumption
<1>4. CASE p = NoRow
  BY <1>3, <1>4, Texts DEF ProgressOK
<1>5. CASE p # NoRow
  <2>1. s # <<>> /\ p.last_block = s[Len(s)].block /\ Len(s) \in DOMAIN s
    BY <1>2, <1>5 DEF ProgressOK
  <2>2. p.last_block \in 0..MaxI64
    BY <2>1 DEF RowsOK
  <2>3. ASSUME NEW i \in DOMAIN s PROVE s[i].block <= p.last_block
    <3>1. i = Len(s) \/ i < Len(s)
      BY <1>2, <2>3
    <3> QED BY <1>3, <2>1, <2>2, <3>1 DEF RowsOK, Ascending
  <2> QED BY <1>3, <1>5, <2>1, <2>2, <2>3
<1> QED BY <1>4, <1>5

(* A resume reads the block of the progress row, whatever the shape.       *)
LEMMA StoredIs ==
  ASSUME ArchiveInv, NEW t \in Tables
  PROVE  stored_position(t) = progress[t].last_block
<1>1. ProgressOK(progress[t], rows[t])
  BY DEF ArchiveInv
<1>2. CASE progress[t] = NoRow
  BY <1>2 DEF stored_position, NoRow
<1>3. CASE progress[t] # NoRow
  BY <1>1, <1>3, Texts DEF ProgressOK, stored_position, resume_from_last_block
<1> QED BY <1>2, <1>3

(* The replay is the rows up to the block, as they were written.           *)
LEMMA ReplayIs ==
  ASSUME NEW t \in Tables, RowsOK(rows[t]), NEW b \in Int
  PROVE  \E m \in 0..Len(rows[t]) :
           /\ replay(t, b) = [i \in 1..m |-> rows[t][i]]
           /\ \A i \in DOMAIN rows[t] : rows[t][i].block <= b <=> i <= m
<1> DEFINE s == rows[t]
           selected == {i \in DOMAIN s : s[i].block <= b}
           earlier(i) == {j \in selected : \/ s[j].block < s[i].block
                                           \/ s[j].block = s[i].block /\ j < i}
<1>1. PICK S : s \in Seq(S)
  BY DEF RowsOK
<1>2. Len(s) \in Nat /\ DOMAIN s = 1..Len(s)
  BY <1>1
<1>3. \A i \in DOMAIN s : s[i].block \in Int
  BY SqlStoreAssumption DEF RowsOK
<1>4. \A i, j \in DOMAIN s : i < j <=> s[i].block < s[j].block
  <2> TAKE i, j \in DOMAIN s
  <2>1. i \in Int /\ j \in Int /\ s[i].block \in Int /\ s[j].block \in Int
    BY <1>2, <1>3
  <2>2. (i < j => s[i].block < s[j].block) /\ (j < i => s[j].block < s[i].block)
    BY DEF RowsOK, Ascending
  <2> QED BY <2>1, <2>2
<1>5. PICK m \in 0..Len(s) : selected = 1..m
  <2>1. \A i \in selected, j \in 1..Len(s) : j < i => j \in selected
    BY <1>2, <1>3, <1>4
  <2> QED BY <1>2, <2>1, InitialSegment
<1>6. m \in Nat /\ Cardinality(selected) = m
  <2> HIDE DEF selected
  <2> QED BY <1>2, <1>5, FS_Interval
<1>7. ASSUME NEW i \in selected PROVE Cardinality(earlier(i)) = i - 1
  <2>1. earlier(i) = 1..(i - 1)
    <3>1. \A j \in selected : (s[j].block < s[i].block <=> j < i) /\ j \in Int /\ i \in Int
      BY <1>2, <1>4, <1>7
    <3>2. earlier(i) = {j \in selected : j < i}
      BY <3>1
    <3>3. {j \in selected : j < i} = 1..(i - 1)
      <4> HIDE DEF selected
      <4> QED BY <1>5, <1>6, <1>7
    <3> QED BY <3>2, <3>3
  <2>2. i \in Int /\ i >= 1
    BY <1>2, <1>7
  <2> HIDE DEF earlier
  <2> QED BY <2>1, <2>2, FS_Interval
<1>8. ASSUME NEW n \in 1..m
      PROVE  (CHOOSE i \in selected : Cardinality(earlier(i)) = n - 1) = n
  <2>1. n \in selected /\ \A i \in selected : i \in Int
    BY <1>2, <1>5, <1>8
  <2>2. \A i \in selected : Cardinality(earlier(i)) = n - 1 <=> i = n
    <3> HIDE DEF selected, earlier
    <3> QED BY <1>6, <1>7, <1>8, <2>1
  <2> HIDE DEF selected, earlier
  <2> QED BY <2>1, <2>2
<1>9. replay(t, b) =
        [n \in 1..Cardinality(selected) |->
           rows[t][CHOOSE i \in selected : Cardinality(earlier(i)) = n - 1]]
  BY DEF replay
<1>10. replay(t, b) = [i \in 1..m |-> rows[t][i]]
  <2> HIDE DEF selected, earlier
  <2> QED BY <1>6, <1>8, <1>9
<1>11. \A i \in DOMAIN s : s[i].block <= b <=> i <= m
  <2> TAKE i \in DOMAIN s
  <2>1. s[i].block <= b <=> i \in selected
    OBVIOUS
  <2>2. i \in selected <=> i <= m
    <3> HIDE DEF selected
    <3> QED BY <1>2, <1>5, <1>6
  <2> QED BY <2>1, <2>2
<1> QED BY <1>5, <1>10, <1>11

(* An archive with one row, of block 0.                                    *)
LEMMA OneRow ==
  ASSUME NEW r, r.block = 0
  PROVE  RowsOK(<<r>>) /\ <<r>> # <<>> /\ <<r>>[Len(<<r>>)].block = 0
<1>1. <<r>> \in Seq({r}) /\ Len(<<r>>) = 1 /\ DOMAIN <<r>> = 1..1 /\ <<r>>[1] = r
  OBVIOUS
<1>2. 0 \in 0..MaxI64
  BY SqlStoreAssumption
<1>3. \A i \in DOMAIN <<r>> : <<r>>[i].block \in 0..MaxI64
  BY <1>1, <1>2
<1>4. Ascending(<<r>>)
  BY <1>1 DEF Ascending
<1>5. <<r>> # <<>> /\ <<r>>[Len(<<r>>)].block = 0
  BY <1>1
<1> QED BY <1>1, <1>3, <1>4, <1>5 DEF RowsOK

(* A table with a column for every field is there.                         *)
LEMMA FieldsAreColumns ==
  ASSUME NEW type
  PROVE  [f \in Fields |-> type] # NoColumns
  BY SqlStoreAssumption DEF NoColumns

-----------------------------------------------------------------------------
(* The archive at first: fresh, or with one row in each of OldTables.      *)
LEMMA ArchiveInit == ASSUME StoreInit PROVE ArchiveInv
<1> USE DEF StoreInit
<1>1. foreign \subseteq Tables
  BY SqlStoreAssumption
<1> SUFFICES ASSUME NEW t \in Tables
             PROVE  RowsOK(rows[t]) /\ ProgressOK(progress[t], rows[t]) /\ WriteOK(t) /\ CellOK(t)
  BY <1>1 DEF ArchiveInv, FrozenOK, NoColumns
<1>2. WriteOK(t)
  BY DEF WriteOK, Busy, Open
<1>3. CASE t \notin foreign
  <2>1. rows[t] = <<>> /\ progress[t] = NoRow /\ columns[t] = NoColumns
    BY <1>3
  <2>2. RowsOK(rows[t])
    <3>1. <<>> \in Seq({})
      OBVIOUS
    <3> QED BY <2>1, <3>1 DEF RowsOK, Ascending
  <2>3. ProgressOK(progress[t], rows[t])
    BY <2>1 DEF ProgressOK, NoRow
  <2>4. CellOK(t)
    BY <1>3, <2>1 DEF CellOK, NoColumns
  <2> QED BY <1>2, <2>2, <2>3, <2>4
<1>4. CASE t \in foreign
  <2> DEFINE r == [block |-> 0, cells |-> [f \in Fields |-> "Integer"]]
  <2>1. /\ rows[t] = <<r>> /\ progress[t] = [last_block |-> 0, position |-> Null]
        /\ columns[t] = [f \in Fields |-> "Integer"]
    BY <1>4
  <2>2. RowsOK(rows[t]) /\ rows[t] # <<>> /\ rows[t][Len(rows[t])].block = 0
    BY <2>1, OneRow
  <2>3. ProgressOK(progress[t], rows[t])
    BY <2>1, <2>2, Texts DEF ProgressOK
  <2>4. CellOK(t)
    <3>1. \A c \in DOMAIN columns[t] : columns[t][c] = "Integer"
      BY <2>1
    <3>2. Reads(columns[t], r)
      BY <2>1 DEF Reads, cell_to_json, normalize_type
    <3>3. \A i \in DOMAIN <<r>> : <<r>>[i] = r
      OBVIOUS
    <3> HIDE DEF r
    <3> QED BY <1>4, <2>1, <3>1, <3>2, <3>3, FieldsAreColumns DEF CellOK, PgTypes
  <2> QED BY <1>2, <2>2, <2>3, <2>4
<1> QED BY <1>3, <1>4

(* Steps of a transaction before its commit, and failures.                 *)
LEMMA ArchiveFrame ==
  ASSUME ArchiveInv, UNCHANGED <<dbVars, frozen, reached, foreign>>,
         \A t \in Tables : /\ pc'[t] = "idle" => pc[t] = "idle"
                           /\ pc'[t] \in Busy => pc[t] \in Busy /\ batch'[t] = batch[t]
                           /\ pc'[t] = "commit" => pc[t] = "commit"
  PROVE  ArchiveInv'
<1> USE DEF dbVars
<1> SUFFICES ASSUME NEW t \in Tables
             PROVE  WriteOK(t)' /\ CellOK(t)'
  BY DEF ArchiveInv
<1>1. WriteOK(t) /\ CellOK(t)
  BY DEF ArchiveInv
<1>2. pc'[t] \in Busy => Bound(t)' = Bound(t)
  BY DEF Bound, Frozen, Columns, TypesOf
<1>3. WriteOK(t)'
  BY <1>1, <1>2 DEF WriteOK, Busy, Open
<1>4. CellOK(t)'
  BY <1>1 DEF CellOK, Culprit, Misread
<1> QED BY <1>3, <1>4

(* A collector resumes where the progress row is.                          *)
LEMMA SubscribeArchive ==
  ASSUME IInv, ArchiveInv, NEW t \in Tables, subscribe(t) PROVE ArchiveInv'
<1>0. UNCHANGED frozen
  BY DEF subscribe, IInv, StoreTypeOK, ColumnOK
<1>1. /\ reached' = [reached EXCEPT ![t] = stored_position(t)] /\ pc' = [pc EXCEPT ![t] = "idle"]
      /\ UNCHANGED <<dialect, columns, progress, rows, batch, frozen, foreign>>
  BY <1>0 DEF subscribe, dbVars
<1>2. reached' = [u \in Tables |-> reached'[u]]
  BY <1>1 DEF ArchiveInv
<1> SUFFICES ASSUME NEW u \in Tables PROVE WriteOK(u)' /\ CellOK(u)'
  BY <1>1, <1>2 DEF ArchiveInv
<1>3. WriteOK(u) /\ CellOK(u)
  BY DEF ArchiveInv
<1>4. CellOK(u)'
  BY <1>1, <1>3 DEF CellOK, Culprit, Misread
<1>5. CASE u = t
  <2>1. pc'[u] = "idle" /\ reached'[u] = progress'[u].last_block
    BY <1>1, <1>5, StoredIs DEF ArchiveInv, IInv, StoreTypeOK
  <2> QED BY <1>4, <2>1 DEF WriteOK, Busy, Open
<1>6. CASE u # t
  <2>1. pc'[u] = pc[u] /\ reached'[u] = reached[u]
    BY <1>1, <1>6 DEF ArchiveInv, IInv, StoreTypeOK
  <2>2. Bound(u)' = Bound(u)
    BY <1>1 DEF Bound, Frozen, Columns, TypesOf
  <2> QED BY <1>1, <1>3, <1>4, <2>1, <2>2 DEF WriteOK
<1> QED BY <1>5, <1>6

(* The next group lies above what is stored.                               *)
LEMMA StartArchive ==
  ASSUME IInv, ArchiveInv, NEW t \in Tables, start_write(t) PROVE ArchiveInv'
<1>1. /\ pc[t] = "idle"
      /\ UNCHANGED <<dialect, columns, progress, rows, reached, foreign>>
  BY DEF start_write, dbVars
<1>2. PICK p \in (reached[t] + 1)..MaxKey, e \in Events[t] :
        \/ /\ batch' = [batch EXCEPT ![t] = [position |-> p, event |-> e]]
           /\ frozen' = [frozen EXCEPT ![t] = freeze_columns(Frozen(t), e)]
           /\ pc' = [pc EXCEPT ![t] = "begin"]
        \/ /\ pc' = [pc EXCEPT ![t] = "halted"]
           /\ batch' = [batch EXCEPT ![t] = NoBatch]
           /\ UNCHANGED frozen
  BY DEF start_write, Halted
<1>0. \A u \in Tables : FrozenOK(frozen'[u])
  <2> SUFFICES ASSUME NEW u \in Tables PROVE FrozenOK(frozen'[u])
    OBVIOUS
  <2>1. FrozenOK(frozen[u]) /\ FrozenOK(Overrides[u])
    BY SqlStoreAssumption DEF ArchiveInv, FrozenOK
  <2>2. FrozenOK(freeze_columns(Frozen(u), e))
    BY <2>1 DEF freeze_columns, Frozen, FrozenOK, infer_type, SqlTypes
  <2>3. frozen'[u] = frozen[u] \/ (u = t /\ frozen'[u] = freeze_columns(Frozen(u), e))
    <3>1. frozen = [v \in Tables |-> frozen[v]]
      BY DEF IInv, StoreTypeOK
    <3>2. frozen' = frozen \/ frozen' = [frozen EXCEPT ![t] = freeze_columns(Frozen(t), e)]
      BY <1>2
    <3>3. CASE u = t
      BY <3>1, <3>2, <3>3
    <3>4. CASE u # t
      BY <3>1, <3>2, <3>4
    <3> QED BY <3>3, <3>4
  <2> QED BY <2>1, <2>2, <2>3
<1> SUFFICES ASSUME NEW u \in Tables PROVE WriteOK(u)' /\ CellOK(u)'
  BY <1>0, <1>1 DEF ArchiveInv
<1>3. WriteOK(u) /\ CellOK(u)
  BY DEF ArchiveInv
<1>4. CellOK(u)'
  BY <1>1, <1>3 DEF CellOK, Culprit, Misread
<1>5. CASE u = t
  <2>1. reached'[u] = progress'[u].last_block /\ reached'[u] = reached[u]
    BY <1>1, <1>3, <1>5 DEF WriteOK
  <2>2. CASE pc' = [pc EXCEPT ![t] = "halted"]
    <3>1. pc'[u] = "halted"
      BY <1>5, <2>2 DEF IInv, StoreTypeOK
    <3> QED BY <1>4, <3>1 DEF WriteOK, Busy, Open
  <2>3. CASE /\ batch' = [batch EXCEPT ![t] = [position |-> p, event |-> e]]
             /\ pc' = [pc EXCEPT ![t] = "begin"]
    <3>1. pc'[u] = "begin" /\ batch'[u].position = p /\ batch'[u].event = e
      BY <1>5, <2>3 DEF IInv, StoreTypeOK
    <3>2. batch'[u].position \in (reached'[u] + 1)..MaxKey /\ batch'[u].event \in Events[u]
      BY <1>2, <1>5, <2>1, <3>1
    <3> QED BY <1>4, <2>1, <3>1, <3>2 DEF WriteOK, Busy, Open
  <2> QED BY <1>2, <2>2, <2>3
<1>6. CASE u # t
  <2>1. pc'[u] = pc[u] /\ batch'[u] = batch[u] /\ frozen'[u] = frozen[u]
    BY <1>2, <1>6 DEF IInv, StoreTypeOK
  <2>2. Bound(u)' = Bound(u)
    BY <1>1, <2>1 DEF Bound, Frozen, Columns, TypesOf
  <2> QED BY <1>1, <1>3, <1>4, <2>1, <2>2 DEF WriteOK
<1> QED BY <1>5, <1>6

(* What passes insert_rows binds.                                          *)
LEMMA InsertArchive ==
  ASSUME IInv, ArchiveInv, NEW t \in Tables, insert_rows(t) PROVE ArchiveInv'
<1>1. pc[t] = "insert" /\ UNCHANGED <<dbVars, frozen, reached, foreign>>
  BY DEF insert_rows
<1>2. CASE Halted(t, Refusal(t))
  BY <1>1, <1>2, ArchiveFrame DEF Halted, IInv, StoreTypeOK, Busy, Open
<1>3. CASE Refusal(t) = "none" /\ pc' = [pc EXCEPT ![t] = "commit"] /\ UNCHANGED batch
  <2>1. Bound(t)
    BY <1>3 DEF Refusal, Bound, sort_key_to_i64
  <2>2. \A u \in Tables : Bound(u)' = Bound(u)
    BY <1>1, <1>3 DEF Bound, Frozen, Columns, TypesOf, dbVars
  <2> SUFFICES ASSUME NEW u \in Tables PROVE WriteOK(u)' /\ CellOK(u)'
    BY <1>1 DEF ArchiveInv, dbVars
  <2>3. WriteOK(u) /\ CellOK(u)
    BY DEF ArchiveInv
  <2>4. CellOK(u)'
    BY <1>1, <2>3 DEF CellOK, Culprit, Misread, dbVars
  <2>5. IF u = t THEN pc'[u] = "commit" /\ pc[u] = "insert" ELSE pc'[u] = pc[u]
    BY <1>1, <1>3 DEF IInv, StoreTypeOK
  <2>6. WriteOK(u)'
    BY <1>1, <1>3, <2>1, <2>2, <2>3, <2>5 DEF WriteOK, Busy, Open, dbVars
  <2> QED BY <2>4, <2>6
<1> QED BY <1>2, <1>3 DEF insert_rows

-----------------------------------------------------------------------------
(* Columns of these types that SQLite makes hold something else, given the *)
(* kinds of value their fields take.                                       *)
Odd(d, type, K) ==
  /\ d = "sqlite"
  /\ \/ type \in {"Numeric", "Blob"}
     \/ type = "Real" /\ K \cap {"string", "nested"} # {}
     \/ type = "Integer" /\ "real" \in K

(* A cell is NULL or made from a value of one of these kinds.              *)
FromKinds(cell, K) == cell = "Null" \/ \E k \in K : cell = json_to_sql(k)

(* The columns in force are those of SqlType.                              *)
LEMMA FrozenTypes ==
  ASSUME IInv, ArchiveInv, NEW t \in Tables, pc[t] \in Busy
  PROVE  /\ Frozen(t) # NoColumns
         /\ DOMAIN encode(Frozen(t), batch[t].event) = DOMAIN Frozen(t)
         /\ \A c \in DOMAIN Frozen(t) :
              /\ Frozen(t)[c] \in SqlTypes
              /\ ensure_value_fits(Frozen(t)[c], cell_of(batch[t].event, c))
              /\ encode(Frozen(t), batch[t].event)[c] = cell_of(batch[t].event, c)
              /\ FromKinds(cell_of(batch[t].event, c), FieldKinds[t])
<1> DEFINE F == Frozen(t)
           e == batch[t].event
<1>1. encodes(F, e) /\ freeze_columns(F, e) = F
  BY DEF IInv, ColumnOK, Busy
<1>2. e \in [Fields -> FieldKinds[t]]
  BY DEF ArchiveInv, WriteOK, Events
<1>3. F # NoColumns
  <2>1. [f \in DOMAIN e |-> infer_type(e[f])] # NoColumns
    BY <1>2, SqlStoreAssumption DEF NoColumns
  <2> QED BY <1>1, <2>1 DEF freeze_columns
<1>4. \A c \in DOMAIN F : F[c] \in SqlTypes
  BY SqlStoreAssumption DEF ArchiveInv, FrozenOK, Frozen
<1>5. encode(F, e) = [c \in DOMAIN F |-> cell_of(e, c)]
  BY <1>1 DEF encode
<1>6. \A c \in DOMAIN F : ensure_value_fits(F[c], cell_of(e, c))
  BY <1>1 DEF encodes
<1>7. \A c \in DOMAIN F : FromKinds(cell_of(e, c), FieldKinds[t])
  BY <1>2 DEF cell_of, FromKinds
<1> HIDE DEF F, e
<1>8. /\ DOMAIN encode(F, e) = DOMAIN F
      /\ \A c \in DOMAIN F : encode(F, e)[c] = cell_of(e, c)
  BY <1>5
<1> QED BY <1>3, <1>4, <1>6, <1>7, <1>8 DEF F, e

(* A cell that binds decodes as what its column reports, unless SQLite     *)
(* makes the column hold something else.                                   *)
LEMMA CellDecodes ==
  ASSUME NEW d \in Dialects, NEW type \in SqlTypes, NEW cell, NEW K \in SUBSET Kinds,
         ensure_value_fits(type, cell), binds(d, column_type(d, type), cell),
         FromKinds(cell, K)
  PROVE  \/ cell_to_json(normalize_type(column_type(d, type)),
                         held(d, column_type(d, type), cell))
         \/ Odd(d, column_type(d, type), K)
<1> DEFINE col == column_type(d, type)
<1>1. cell = "Null" \/ cell \in {"Integer", "Real", "Text", "Digits"}
  BY DEF json_to_sql, Kinds, FromKinds
<1>2. cell = "Real" => "real" \in K
  BY DEF json_to_sql, Kinds, FromKinds
<1>3. cell = "Text" => K \cap {"string", "nested"} # {}
  BY DEF json_to_sql, Kinds, FromKinds
<1>4. col \in SqlTypes /\ (d = "postgres" => col \in {"Integer", "Real", "Text"})
  BY DEF column_type, binds, SqlTypes
<1>5. col = "Integer" => cell \notin {"Text", "Digits"}
  BY <1>4 DEF column_type, ensure_value_fits
<1>6. d = "postgres" /\ col = "Real" => cell \notin {"Text", "Digits"}
  BY DEF binds
<1>7. held(d, col, cell) =
        IF cell = "Null" THEN "Null"
        ELSE IF col = "Text" THEN "Text"
        ELSE IF col = "Real" /\ cell # "Text" THEN "Real"
        ELSE IF col \in {"Integer", "Numeric"} /\ cell = "Digits" THEN "Real"
        ELSE IF col = "Integer" /\ d = "postgres" THEN "Integer" ELSE cell
  BY DEF held
<1> HIDE DEF col
<1>8. ASSUME d = "postgres" PROVE cell_to_json(normalize_type(col), held(d, col, cell))
  BY <1>1, <1>4, <1>5, <1>6, <1>7, <1>8 DEF cell_to_json, normalize_type
<1>9. ASSUME d = "sqlite", ~Odd(d, col, K)
      PROVE  cell_to_json(normalize_type(col), held(d, col, cell))
  <2>1. col \in {"Integer", "Real", "Text"}
    BY <1>4, <1>9 DEF SqlTypes, Odd
  <2>2. col = "Integer" => cell \in {"Null", "Integer"}
    BY <1>1, <1>2, <1>5, <1>9 DEF Odd
  <2>3. col = "Real" => cell # "Text"
    BY <1>3, <1>9 DEF Odd
  <2>4. held(d, col, cell) = "Null" \/ held(d, col, cell) = col
    BY <1>1, <1>7, <2>1, <2>2, <2>3
  <2> QED BY <2>1, <2>4 DEF cell_to_json, normalize_type
<1> QED BY <1>8, <1>9 DEF Dialects, col

(* A cell that PostgreSQL takes decodes as what its column reports.        *)
LEMMA PgDecodes ==
  ASSUME NEW type \in PgTypes, NEW cell, NEW K \in SUBSET Kinds,
         binds("postgres", type, cell), FromKinds(cell, K)
  PROVE  cell_to_json(normalize_type(type), held("postgres", type, cell))
<1>1. cell = "Null" \/ cell \in {"Integer", "Real", "Text", "Digits"}
  BY DEF json_to_sql, Kinds, FromKinds
<1>2. type \in {"Integer", "Real", "Text"}
  BY DEF binds, PgTypes
<1>3. type \in {"Integer", "Real"} => cell \notin {"Text", "Digits"}
  BY DEF binds
<1>4. held("postgres", type, cell) =
        IF cell = "Null" THEN "Null"
        ELSE IF type = "Text" THEN "Text"
        ELSE IF type = "Real" /\ cell # "Text" THEN "Real"
        ELSE IF type \in {"Integer", "Numeric"} /\ cell = "Digits" THEN "Real"
        ELSE IF type = "Integer" THEN "Integer" ELSE cell
  BY DEF held
<1> QED BY <1>1, <1>2, <1>3, <1>4 DEF cell_to_json, normalize_type

(* The progress row a commit leaves for its own table names its block.     *)
LEMMA AdvanceIs ==
  ASSUME ArchiveInv, NEW t \in Tables, pc[t] = "commit"
  PROVE  /\ batch[t].position \in 0..MaxI64 /\ batch[t].position > progress[t].last_block
         /\ advance_watermark(t) = [last_block |-> batch[t].position,
                                    position   |-> pos!encode(batch[t].position)]
<1> DEFINE p == batch[t].position
           b == progress[t].last_block
<1>1. RowsOK(rows[t]) /\ ProgressOK(progress[t], rows[t]) /\ WriteOK(t)
  BY DEF ArchiveInv
<1>2. b \in -1..MaxI64 /\ MaxI64 \in Nat
  BY <1>1, LastBlock, SqlStoreAssumption
<1>3. p \in (b + 1)..MaxKey /\ p <= MaxI64
  BY <1>1 DEF WriteOK, Busy, Open, Bound
<1>4. p \in 0..MaxI64 /\ p > b
  BY <1>2, <1>3, SqlStoreAssumption
<1> DEFINE prev == IF progress[t] = NoRow \/ progress[t].position = Null THEN None
                   ELSE IF shape = "old" THEN progress[t].last_block
                   ELSE pos!decode(progress[t].position)
<1>5. prev = None \/ prev = b
  BY <1>1, Texts DEF ProgressOK
<1>6. pos!advance(prev, p) = p
  <2> HIDE DEF prev
  <2> QED BY <1>2, <1>4, <1>5 DEF pos!advance, pos!None, None
<1>7. advance_watermark(t) = [last_block |-> pos!advance(prev, p),
                              position   |-> pos!encode(pos!advance(prev, p))]
  BY DEF advance_watermark
<1> QED BY <1>4, <1>6, <1>7

(* The migration gives a row the text of its own block.                    *)
LEMMA MovedOK ==
  ASSUME NEW p, NEW s, ProgressOK(p, s)
  PROVE  ProgressOK(backfill_position(p), s) /\ backfill_position(p).last_block = p.last_block
<1>1. CASE p # NoRow /\ p.position = Null
  <2>1. backfill_position(p) = [last_block |-> p.last_block, position |-> pos!encode(p.last_block)]
    BY <1>1 DEF backfill_position, ProgressOK
  <2> QED BY <1>1, <2>1, Texts DEF ProgressOK
<1>2. CASE ~(p # NoRow /\ p.position = Null)
  <2>1. backfill_position(p) = p
    BY <1>2 DEF backfill_position
  <2> QED BY <2>1
<1> QED BY <1>1, <1>2

(* The row a commit adds.                                                  *)
NewRow(t) ==
  LET cells == encode(Frozen(t), batch[t].event) IN
    [block |-> batch[t].position,
     cells |-> [c \in DOMAIN cells |-> held(dialect, Columns(t)[c], cells[c])]]

(* The rows after a commit: one more, above all others.                    *)
LEMMA CommitRows ==
  ASSUME ArchiveInv, NEW t \in Tables, pc[t] = "commit"
  PROVE  LET s == Append(rows[t], NewRow(t)) IN
           /\ RowsOK(s) /\ s # <<>> /\ s[Len(s)].block = batch[t].position
           /\ DOMAIN s = 1..(Len(rows[t]) + 1) /\ DOMAIN rows[t] = 1..Len(rows[t])
           /\ Len(rows[t]) \in Nat
           /\ \A i \in DOMAIN rows[t] : s[i] = rows[t][i]
           /\ s[Len(rows[t]) + 1] = NewRow(t)
<1> DEFINE r == NewRow(t)
           old == rows[t]
           s == Append(old, r)
<1>1. r.block = batch[t].position
  BY DEF NewRow
<1>2. batch[t].position \in 0..MaxI64 /\ batch[t].position > progress[t].last_block
  BY AdvanceIs
<1>3. RowsOK(old) /\ \A i \in DOMAIN old : old[i].block <= progress[t].last_block
  BY LastBlock DEF ArchiveInv
<1>4. progress[t].last_block \in Int /\ MaxI64 \in Nat
  BY LastBlock, SqlStoreAssumption DEF ArchiveInv
<1>5. PICK S : old \in Seq(S)
  BY <1>3 DEF RowsOK
<1> HIDE DEF r, old
<1>6. /\ s \in Seq(S \cup {r}) /\ s # <<>> /\ Len(s) = Len(old) + 1
      /\ DOMAIN s = 1..(Len(old) + 1) /\ \A i \in DOMAIN old : s[i] = old[i]
      /\ s[Len(old) + 1] = r /\ Len(old) \in Nat /\ DOMAIN old = 1..Len(old)
  BY <1>5, AppendAny
<1> HIDE DEF s
<1>7. \A i \in DOMAIN s : i \in DOMAIN old \/ i = Len(old) + 1
  BY <1>6
<1>8. \A i \in DOMAIN s : s[i].block \in 0..MaxI64
  BY <1>1, <1>2, <1>3, <1>6, <1>7 DEF RowsOK
<1>9. Ascending(s)
  <2> SUFFICES ASSUME NEW i \in DOMAIN s, NEW j \in DOMAIN s, i < j
               PROVE  s[i].block < s[j].block
    BY DEF Ascending
  <2>1. i \in DOMAIN old /\ s[i] = old[i] /\ i \in Int /\ j \in Int
    BY <1>6, <1>7
  <2>2. CASE j \in DOMAIN old
    BY <1>3, <1>6, <2>1, <2>2 DEF RowsOK, Ascending
  <2>3. CASE j = Len(old) + 1
    <3>1. s[j].block = batch[t].position /\ old[i].block <= progress[t].last_block
      BY <1>1, <1>3, <1>6, <2>1, <2>3
    <3>2. old[i].block \in Int
      BY <1>3, <1>4, <2>1 DEF RowsOK
    <3> QED BY <1>2, <1>4, <2>1, <3>1, <3>2
  <2> QED BY <1>7, <2>2, <2>3
<1>10. RowsOK(s)
  BY <1>6, <1>8, <1>9 DEF RowsOK
<1> QED BY <1>1, <1>6, <1>10 DEF s, old, r

(* The columns PostgreSQL gives a new table.                               *)
LEMMA PgColumns ==
  ASSUME ArchiveInv, NEW t \in Tables, dialect = "postgres", NEW c \in DOMAIN Columns(t)
  PROVE  Columns(t)[c] \in PgTypes
<1>1. CASE columns[t] # NoColumns
  BY <1>1 DEF ArchiveInv, CellOK, Columns
<1>2. CASE columns[t] = NoColumns
  <2>1. Columns(t) = TypesOf(t)
    BY <1>2 DEF Columns
  <2>2. c \in DOMAIN Frozen(t) /\ Columns(t)[c] = column_type(dialect, Frozen(t)[c])
    BY <2>1 DEF TypesOf
  <2>3. FrozenOK(frozen[t]) /\ FrozenOK(Overrides[t])
    BY SqlStoreAssumption DEF ArchiveInv, FrozenOK
  <2>4. FrozenOK(Frozen(t))
    BY <2>3 DEF Frozen
  <2>5. Frozen(t)[c] \in SqlTypes
    BY <2>2, <2>4 DEF FrozenOK
  <2> QED BY <2>2, <2>5 DEF column_type, SqlTypes, PgTypes
<1> QED BY <1>1, <1>2

(* The row a commit adds decodes in a table of PostgreSQL.                 *)
LEMMA PgCommitCells ==
  ASSUME IInv, ArchiveInv, NEW t \in Tables, pc[t] = "commit", dialect = "postgres"
  PROVE  Reads(Columns(t), NewRow(t))
<1> DEFINE cells == encode(Frozen(t), batch[t].event)
           C == Columns(t)
<1>1. pc[t] \in Busy /\ FieldKinds[t] \in SUBSET Kinds
  BY SqlStoreAssumption DEF Busy, Open
<1>2. DOMAIN cells = DOMAIN Frozen(t)
  BY <1>1, FrozenTypes
<1>3. ASSUME NEW c \in DOMAIN cells
      PROVE  c \in DOMAIN C /\ cell_to_json(normalize_type(C[c]), held(dialect, C[c], cells[c]))
  <2>1. FromKinds(cells[c], FieldKinds[t])
    BY <1>1, <1>2, <1>3, FrozenTypes
  <2>2. c \in DOMAIN C /\ binds(dialect, C[c], cells[c])
    BY <1>3 DEF ArchiveInv, WriteOK, Bound
  <2>3. C[c] \in PgTypes
    BY <2>2, PgColumns
  <2> HIDE DEF cells, C
  <2> QED BY <1>1, <2>1, <2>2, <2>3, PgDecodes
<1>4. /\ DOMAIN NewRow(t).cells = DOMAIN cells
      /\ \A c \in DOMAIN cells : NewRow(t).cells[c] = held(dialect, C[c], cells[c])
  BY DEF NewRow
<1> HIDE DEF cells, C
<1>5. \A c \in DOMAIN cells : [d \in DOMAIN C |-> normalize_type(C[d])][c] = normalize_type(C[c])
  BY <1>3
<1>6. Reads(C, NewRow(t))
  BY <1>3, <1>4, <1>5 DEF Reads
<1> QED BY <1>6 DEF C

(* The row a commit adds decodes, in a table that is not foreign.          *)
LEMMA CommitCells ==
  ASSUME IInv, ArchiveInv, NEW t \in Tables, pc[t] = "commit", t \notin foreign,
         dialect' = dialect, columns'[t] = Columns(t)
  PROVE  Misread(t)' \/ Reads(Columns(t), NewRow(t))
<1> DEFINE F == Frozen(t)
           cells == encode(F, batch[t].event)
           C == Columns(t)
<1>1. C = TypesOf(t) /\ dialect \in Dialects /\ pc[t] \in Busy
  BY DEF IInv, StoreTypeOK, ColumnOK, Columns, TypesOf, Busy, Open
<1>2. DOMAIN C = DOMAIN F /\ \A c \in DOMAIN F : C[c] = column_type(dialect, F[c])
  BY <1>1 DEF TypesOf
<1>3. DOMAIN cells = DOMAIN F
  BY <1>1, FrozenTypes
<1>4. FieldKinds[t] \in SUBSET Kinds
  BY SqlStoreAssumption
<1>5. ASSUME ~Misread(t)', NEW c \in DOMAIN F
      PROVE  cell_to_json(normalize_type(C[c]), held(dialect, C[c], cells[c]))
  <2>1. /\ F[c] \in SqlTypes /\ ensure_value_fits(F[c], cells[c])
        /\ FromKinds(cells[c], FieldKinds[t])
    BY <1>1, <1>5, FrozenTypes
  <2>2. binds(dialect, C[c], cells[c])
    <3>1. Bound(t)
      BY DEF ArchiveInv, WriteOK
    <3> QED BY <1>3, <1>5, <3>1 DEF Bound
  <2>3. ~Odd(dialect, C[c], FieldKinds[t])
    <3> HIDE DEF C, F
    <3> QED BY <1>2, <1>5 DEF Misread, C, Odd
  <2>4. C[c] = column_type(dialect, F[c])
    BY <1>2, <1>5
  <2> HIDE DEF F, cells, C
  <2>5. binds(dialect, column_type(dialect, F[c]), cells[c])
    BY <2>2, <2>4
  <2>6. \/ cell_to_json(normalize_type(column_type(dialect, F[c])),
                        held(dialect, column_type(dialect, F[c]), cells[c]))
        \/ Odd(dialect, column_type(dialect, F[c]), FieldKinds[t])
    BY <1>1, <1>4, <2>1, <2>5, CellDecodes
  <2> QED BY <2>3, <2>4, <2>6
<1>6. /\ DOMAIN NewRow(t).cells = DOMAIN F
      /\ \A c \in DOMAIN F : NewRow(t).cells[c] = held(dialect, C[c], cells[c])
  BY <1>3 DEF NewRow
<1>7. \A c \in DOMAIN F : [d \in DOMAIN C |-> normalize_type(C[d])][c] = normalize_type(C[c])
  BY <1>2
<1> HIDE DEF F, cells, C
<1>8. ASSUME ~Misread(t)' PROVE Reads(C, NewRow(t))
  BY <1>5, <1>6, <1>7, <1>8 DEF Reads
<1> QED BY <1>8 DEF C

(* A commit that took effect.                                              *)
LEMMA CommittedArchive ==
  ASSUME IInv, ArchiveInv, NEW t \in Tables, pc[t] = "commit", Committed(t),
         batch' = [batch EXCEPT ![t] = NoBatch], UNCHANGED <<frozen, foreign>>,
         \/ /\ pc' = [pc EXCEPT ![t] = "idle"]
            /\ reached' = [reached EXCEPT ![t] = batch[t].position]
         \/ pc' = [pc EXCEPT ![t] = "halted"] /\ UNCHANGED reached
  PROVE  ArchiveInv'
<1>1. /\ columns' = [columns EXCEPT ![t] = Columns(t)]
      /\ rows' = [rows EXCEPT ![t] = Append(@, NewRow(t))]
      /\ UNCHANGED dialect
  BY DEF Committed, NewRow
<1>2. /\ columns = [u \in Tables |-> columns[u]] /\ pc = [u \in Tables |-> pc[u]]
      /\ batch = [u \in Tables |-> batch[u]] /\ rows = [u \in Tables |-> rows[u]]
      /\ progress = [u \in Tables |-> progress[u]] /\ reached = [u \in Tables |-> reached[u]]
  BY DEF IInv, StoreTypeOK, ArchiveInv
<1> DEFINE moved == IF tx[t].altered
                      THEN [u \in Tables |-> backfill_position(progress[u])] ELSE progress
<1>3. progress' = [moved EXCEPT ![t] = advance_watermark(t)]
  BY DEF Committed
<1>4. moved = [u \in Tables |-> moved[u]]
      /\ \A u \in Tables : moved[u] = progress[u] \/ moved[u] = backfill_position(progress[u])
  BY <1>2
<1> HIDE DEF moved
<1>5. /\ progress' = [u \in Tables |-> progress'[u]] /\ rows' = [u \in Tables |-> rows'[u]]
      /\ reached' = [u \in Tables |-> reached'[u]] /\ foreign' \subseteq Tables
  BY <1>1, <1>2, <1>3, <1>4 DEF ArchiveInv
<1> SUFFICES ASSUME NEW u \in Tables
             PROVE  /\ RowsOK(rows'[u]) /\ ProgressOK(progress'[u], rows'[u])
                    /\ WriteOK(u)' /\ CellOK(u)' /\ FrozenOK(frozen'[u])
  BY <1>5 DEF ArchiveInv
<1>6. /\ RowsOK(rows[u]) /\ ProgressOK(progress[u], rows[u])
      /\ WriteOK(u) /\ CellOK(u) /\ FrozenOK(frozen'[u])
  BY DEF ArchiveInv
<1>7. CASE u = t
  <2> DEFINE s == Append(rows[t], NewRow(t))
             p == batch[t].position
  <2>1. /\ rows'[u] = s /\ columns'[u] = Columns(t)
        /\ progress'[u] = [last_block |-> p, position |-> pos!encode(p)]
    BY <1>1, <1>2, <1>3, <1>4, <1>7, AdvanceIs
  <2>2. /\ RowsOK(s) /\ s # <<>> /\ s[Len(s)].block = p
        /\ DOMAIN s = 1..(Len(rows[t]) + 1) /\ DOMAIN rows[t] = 1..Len(rows[t])
        /\ Len(rows[t]) \in Nat
        /\ \A i \in DOMAIN rows[t] : s[i] = rows[t][i]
        /\ s[Len(rows[t]) + 1] = NewRow(t)
    BY CommitRows
  <2> HIDE DEF s
  <2>3. ProgressOK(progress'[u], rows'[u])
    BY <2>1, <2>2, Texts DEF ProgressOK
  <2>4. WriteOK(u)'
    <3>1. \/ pc'[u] = "idle" /\ reached'[u] = p
          \/ pc'[u] = "halted"
      BY <1>2, <1>7
    <3> QED BY <2>1, <3>1 DEF WriteOK, Busy, Open
  <2>5. CellOK(u)'
    <3>1. Frozen(t) # NoColumns
      BY FrozenTypes DEF Busy, Open
    <3>2. Columns(t) # NoColumns
      BY <3>1 DEF Columns, TypesOf, NoColumns
    <3>6. dialect \in {"sqlite", "postgres"} /\ dialect' = dialect
      BY <1>1 DEF IInv, StoreTypeOK, Dialects
    <3>3. ASSUME ~Culprit(t)', NEW i \in DOMAIN s
          PROVE  Reads(Columns(t), s[i])
      <4>1. i \in DOMAIN rows[t] \/ i = Len(rows[t]) + 1
        BY <2>2
      <4>2. CASE i = Len(rows[t]) + 1
        <5>1. CASE dialect = "postgres"
          BY <2>2, <4>2, <5>1, PgCommitCells
        <5>2. CASE dialect = "sqlite"
          <6>1. t \notin foreign /\ ~Misread(t)'
            BY <3>6, <3>3, <5>2 DEF Culprit
          <6> QED BY <1>1, <1>7, <2>1, <2>2, <4>2, <6>1, CommitCells
        <5> QED BY <3>6, <5>1, <5>2
      <4>3. CASE i \in DOMAIN rows[t]
        <5>1. rows[t] # <<>>
          BY <2>2, <4>3
        <5>2. columns[t] # NoColumns /\ Columns(t) = columns[t]
          BY <1>6, <1>7, <5>1 DEF CellOK, Columns
        <5>3. ~Culprit(t)
          BY <1>1, <1>7, <2>1, <3>3, <5>2 DEF Culprit, Misread
        <5> QED BY <1>6, <1>7, <2>2, <3>3, <4>3, <5>2, <5>3 DEF CellOK
      <4> QED BY <4>1, <4>2, <4>3
    <3>4. Culprit(t)' \/ \A i \in DOMAIN s : Reads(Columns(t), s[i])
      BY <3>3
    <3>5. dialect' = "postgres" => \A c \in DOMAIN Columns(t) : Columns(t)[c] \in PgTypes
      BY <3>6, PgColumns
    <3> QED BY <1>7, <2>1, <3>2, <3>4, <3>5 DEF CellOK
  <2> QED BY <1>6, <2>1, <2>2, <2>3, <2>4, <2>5
<1>8. CASE u # t
  <2>1. /\ rows'[u] = rows[u] /\ columns'[u] = columns[u] /\ pc'[u] = pc[u]
        /\ batch'[u] = batch[u] /\ reached'[u] = reached[u]
        /\ (progress'[u] = progress[u] \/ progress'[u] = backfill_position(progress[u]))
    BY <1>1, <1>2, <1>3, <1>4, <1>8
  <2>2. ProgressOK(progress'[u], rows'[u]) /\ progress'[u].last_block = progress[u].last_block
    BY <1>6, <2>1, MovedOK
  <2>3. Bound(u)' = Bound(u)
    BY <1>1, <2>1 DEF Bound, Frozen, Columns, TypesOf
  <2>4. WriteOK(u)'
    BY <1>6, <2>1, <2>2, <2>3 DEF WriteOK
  <2>5. CellOK(u)'
    BY <1>1, <1>6, <2>1 DEF CellOK, Culprit, Misread
  <2> QED BY <1>6, <2>1, <2>2, <2>4, <2>5
<1> QED BY <1>7, <1>8

(* A commit, whatever becomes of it.                                       *)
LEMMA CommitArchive ==
  ASSUME IInv, ArchiveInv, NEW t \in Tables, commit(t) PROVE ArchiveInv'
<1>1. /\ pc[t] = "commit" /\ batch' = [batch EXCEPT ![t] = NoBatch]
      /\ UNCHANGED <<frozen, foreign>>
  BY DEF commit, Halted
<1>2. CASE Committed(t)
  <2>1. \/ /\ pc' = [pc EXCEPT ![t] = "idle"]
           /\ reached' = [reached EXCEPT ![t] = batch[t].position]
        \/ pc' = [pc EXCEPT ![t] = "halted"] /\ UNCHANGED reached
    BY DEF commit, Halted
  <2> QED BY <1>1, <1>2, <2>1, CommittedArchive
<1>3. CASE ~Committed(t)
  <2>1. UNCHANGED dbVars /\ pc' = [pc EXCEPT ![t] = "halted"] /\ UNCHANGED reached
    BY <1>3 DEF commit, Halted
  <2> SUFFICES ASSUME NEW u \in Tables PROVE WriteOK(u)' /\ CellOK(u)'
    BY <1>1, <2>1 DEF ArchiveInv, dbVars
  <2>2. WriteOK(u) /\ CellOK(u)
    BY DEF ArchiveInv
  <2>3. CellOK(u)'
    BY <1>1, <2>1, <2>2 DEF CellOK, Culprit, Misread, dbVars
  <2>4. CASE u = t
    <3>1. pc'[u] = "halted"
      BY <2>1, <2>4 DEF IInv, StoreTypeOK
    <3> QED BY <2>3, <3>1 DEF WriteOK, Busy, Open
  <2>5. CASE u # t
    <3>1. pc'[u] = pc[u] /\ batch'[u] = batch[u]
      BY <1>1, <2>1, <2>5 DEF IInv, StoreTypeOK
    <3>2. Bound(u)' = Bound(u)
      BY <1>1, <2>1, <3>1 DEF Bound, Frozen, Columns, TypesOf, dbVars
    <3> QED BY <2>1, <2>2, <2>3, <3>1, <3>2 DEF WriteOK, dbVars
  <2> QED BY <2>4, <2>5
<1> QED BY <1>2, <1>3

(* The end of streams: a table left behind by its Record is there.         *)
LEMMA EndStreamsArchive ==
  ASSUME IInv, ArchiveInv, NEW S \in SUBSET Tables, EndStreams(S) PROVE ArchiveInv'
<1> USE DEF EndStreams, dbVars
<1>1. FrozenOK(NoColumns)
  BY DEF FrozenOK, NoColumns
<1>2. \A t \in Tables : FrozenOK(frozen'[t])
  BY <1>1 DEF ArchiveInv
<1>3. foreign' \subseteq Tables
  BY DEF ArchiveInv
<1> SUFFICES ASSUME NEW t \in Tables PROVE WriteOK(t)' /\ CellOK(t)'
  BY <1>2, <1>3 DEF ArchiveInv
<1>4. CellOK(t) /\ WriteOK(t)
  BY DEF ArchiveInv
<1>5. WriteOK(t)'
  <2>1. CASE t \in S
    <3>1. pc'[t] = "down"
      BY <2>1
    <3> QED BY <3>1 DEF WriteOK, Busy, Open
  <2>2. CASE t \notin S
    <3>1. /\ pc'[t] = pc[t] /\ batch'[t] = batch[t] /\ frozen'[t] = frozen[t]
          /\ reached'[t] = reached[t]
      BY <2>2
    <3>2. Bound(t)' = Bound(t)
      BY <3>1 DEF Bound, Frozen, Columns, TypesOf
    <3> QED BY <1>4, <3>1, <3>2 DEF WriteOK
  <2> QED BY <2>1, <2>2
<1>6. Culprit(t) => Culprit(t)'
  BY DEF Culprit, Misread
<1>7. t \in foreign' => columns'[t] # NoColumns
  BY <1>4 DEF CellOK
<1>8. UNCHANGED <<dialect, columns, rows>>
  OBVIOUS
<1>9. CellOK(t)'
  BY ONLY <1>4, <1>6, <1>7, <1>8 DEF CellOK
<1> QED BY <1>5, <1>9

(* An older binary's first row.                                            *)
LEMMA OldBinaryArchive ==
  ASSUME IInv, ArchiveInv, NEW t \in Tables, old_binary_write(t) PROVE ArchiveInv'
<1> DEFINE r == [block |-> 0, cells |-> [f \in Fields |-> "Null"]]
<1>1. /\ pc[t] = "down"
      /\ progress' = [progress EXCEPT ![t] = [last_block |-> 0, position |-> Null]]
      /\ rows' = [rows EXCEPT ![t] = <<r>>]
      /\ columns' = [columns EXCEPT ![t] = [f \in Fields |-> "Text"]]
      /\ foreign' = foreign \cup {t}
      /\ UNCHANGED <<dialect, pc, batch, frozen, reached>>
  BY DEF old_binary_write, memVars
<1>2. /\ columns = [u \in Tables |-> columns[u]] /\ rows = [u \in Tables |-> rows[u]]
      /\ progress = [u \in Tables |-> progress[u]]
  BY DEF IInv, StoreTypeOK, ArchiveInv
<1>3. /\ progress' = [u \in Tables |-> progress'[u]] /\ rows' = [u \in Tables |-> rows'[u]]
      /\ foreign' \subseteq Tables
  BY <1>1, <1>2 DEF ArchiveInv
<1> SUFFICES ASSUME NEW u \in Tables
             PROVE  /\ RowsOK(rows'[u]) /\ ProgressOK(progress'[u], rows'[u])
                    /\ WriteOK(u)' /\ CellOK(u)'
  BY <1>1, <1>3 DEF ArchiveInv
<1>4. RowsOK(rows[u]) /\ ProgressOK(progress[u], rows[u]) /\ WriteOK(u) /\ CellOK(u)
  BY DEF ArchiveInv
<1>5. CASE u = t
  <2>1. /\ rows'[u] = <<r>> /\ progress'[u] = [last_block |-> 0, position |-> Null]
        /\ columns'[u] = [f \in Fields |-> "Text"] /\ u \in foreign' /\ pc'[u] = "down"
    BY <1>1, <1>2, <1>5
  <2>2. RowsOK(rows'[u]) /\ rows'[u] # <<>> /\ rows'[u][Len(rows'[u])].block = 0
    BY <2>1, OneRow
  <2>3. ProgressOK(progress'[u], rows'[u])
    BY <2>1, <2>2, Texts DEF ProgressOK
  <2>4. WriteOK(u)'
    BY <2>1 DEF WriteOK, Busy, Open
  <2>5. CellOK(u)'
    <3>1. \A c \in DOMAIN columns'[u] : columns'[u][c] \in PgTypes
      BY <2>1 DEF PgTypes
    <3>2. Reads(columns'[u], r)
      BY <2>1 DEF Reads, cell_to_json
    <3>3. \A i \in DOMAIN <<r>> : <<r>>[i] = r
      OBVIOUS
    <3> HIDE DEF r
    <3> QED BY <2>1, <3>1, <3>2, <3>3, FieldsAreColumns DEF CellOK
  <2> QED BY <2>2, <2>3, <2>4, <2>5
<1>6. CASE u # t
  <2>1. /\ rows'[u] = rows[u] /\ progress'[u] = progress[u] /\ columns'[u] = columns[u]
        /\ u \in foreign' <=> u \in foreign
    BY <1>1, <1>2, <1>6
  <2>2. Bound(u)' = Bound(u)
    BY <1>1, <2>1 DEF Bound, Frozen, Columns, TypesOf
  <2>3. WriteOK(u)'
    BY <1>1, <1>4, <2>1, <2>2 DEF WriteOK
  <2>4. CellOK(u)'
    BY <1>1, <1>4, <2>1 DEF CellOK, Culprit, Misread
  <2> QED BY <1>4, <2>1, <2>3, <2>4
<1> QED BY <1>5, <1>6

(* Every step of the store keeps the archive consistent.                   *)
LEMMA StoreStepArchive ==
  ASSUME IInv, ArchiveInv, [StoreNext]_storeVars PROVE ArchiveInv'
<1>1. CASE restart
  BY <1>1, EndStreamsArchive DEF restart
<1>2. ASSUME NEW t \in Tables, Write(t) PROVE ArchiveInv'
  <2>1. CASE create_tables(t) \/ create_resumes(t) \/ migrate_if_needed(t)
             \/ add_position_column(t) \/ statement_fails(t)
    <3>1. UNCHANGED <<dbVars, frozen, reached, foreign>>
      BY <2>1 DEF create_tables, create_resumes, migrate_if_needed, add_position_column,
         statement_fails
    <3>2. /\ pc[t] \in Busy
          /\ \/ \E q \in {"migrate", "wait", "begin", "insert", "alter"} :
                  pc' = [pc EXCEPT ![t] = q] /\ UNCHANGED batch
             \/ /\ pc' = [pc EXCEPT ![t] = "halted"]
                /\ batch' = [batch EXCEPT ![t] = NoBatch]
      BY <2>1 DEF create_tables, begin, create_resumes, migrate_if_needed, add_position_column,
         statement_fails, RaceLost, Halted, Busy, Open
    <3> QED BY <3>1, <3>2, ArchiveFrame DEF IInv, StoreTypeOK, Busy, Open
  <2>2. CASE stream_ends(t)
    BY <2>2, EndStreamsArchive DEF stream_ends
  <2> QED BY <1>2, <2>1, <2>2, SubscribeArchive, StartArchive, InsertArchive, CommitArchive,
             OldBinaryArchive DEF Write
<1>3. CASE UNCHANGED storeVars
  BY <1>3, ArchiveFrame DEF storeVars, memVars
<1> QED BY <1>1, <1>2, <1>3 DEF StoreNext

-----------------------------------------------------------------------------
(* What a step of the store leaves of a table: its rows, with new ones     *)
(* above the block of its progress row, and its columns, unless they are   *)
(* another binary's now.                                                   *)
Grows(t) ==
  /\ DOMAIN rows[t] \subseteq DOMAIN rows'[t]
  /\ \A i \in DOMAIN rows[t] : rows'[t][i] = rows[t][i]
  /\ \A i \in DOMAIN rows'[t] \ DOMAIN rows[t] : rows'[t][i].block > progress[t].last_block
  /\ progress[t] # NoRow =>
       progress'[t] # NoRow /\ progress'[t].last_block >= progress[t].last_block
  /\ t \in foreign => t \in foreign'
  /\ columns[t] # NoColumns =>
       columns'[t] # NoColumns /\ (t \in foreign' \/ columns'[t] = columns[t])

(* A commit only adds.                                                     *)
LEMMA CommittedGrows ==
  ASSUME IInv, ArchiveInv, NEW t \in Tables, pc[t] = "commit", Committed(t), UNCHANGED foreign,
         NEW u \in Tables
  PROVE  Grows(u)
<1>1. /\ columns' = [columns EXCEPT ![t] = Columns(t)]
      /\ rows' = [rows EXCEPT ![t] = Append(@, NewRow(t))]
  BY DEF Committed, NewRow
<1>2. /\ columns = [v \in Tables |-> columns[v]] /\ rows = [v \in Tables |-> rows[v]]
      /\ progress = [v \in Tables |-> progress[v]]
  BY DEF IInv, StoreTypeOK, ArchiveInv
<1> DEFINE moved == IF tx[t].altered
                      THEN [v \in Tables |-> backfill_position(progress[v])] ELSE progress
<1>3. progress' = [moved EXCEPT ![t] = advance_watermark(t)]
  BY DEF Committed
<1>4. moved = [v \in Tables |-> moved[v]]
      /\ \A v \in Tables : moved[v] = progress[v] \/ moved[v] = backfill_position(progress[v])
  BY <1>2
<1> HIDE DEF moved
<1>5. RowsOK(rows[u]) /\ ProgressOK(progress[u], rows[u])
  BY DEF ArchiveInv
<1>6. CASE u = t
  <2> DEFINE s == Append(rows[t], NewRow(t))
             p == batch[t].position
  <2>1. /\ rows'[u] = s /\ columns'[u] = Columns(t)
        /\ progress'[u] = [last_block |-> p, position |-> pos!encode(p)]
    BY <1>1, <1>2, <1>3, <1>4, <1>6, AdvanceIs
  <2>2. /\ DOMAIN s = 1..(Len(rows[t]) + 1) /\ DOMAIN rows[t] = 1..Len(rows[t])
        /\ Len(rows[t]) \in Nat
        /\ \A i \in DOMAIN rows[t] : s[i] = rows[t][i]
        /\ s[Len(rows[t]) + 1] = NewRow(t) /\ NewRow(t).block = p
    BY CommitRows DEF NewRow
  <2>3. p > progress[t].last_block /\ p \in Int /\ progress[t].last_block \in Int
    BY <1>5, <1>6, AdvanceIs, LastBlock
  <2> HIDE DEF s
  <2>4. \A i \in DOMAIN s \ DOMAIN rows[t] : i = Len(rows[t]) + 1
    BY <2>2
  <2>5. columns[t] # NoColumns => Columns(t) = columns[t]
    BY DEF Columns
  <2>6. DOMAIN rows[u] \subseteq DOMAIN rows'[u]
    BY <1>6, <2>1, <2>2
  <2>7. \A i \in DOMAIN rows'[u] \ DOMAIN rows[u] : rows'[u][i].block > progress[u].last_block
    BY <1>6, <2>1, <2>2, <2>3, <2>4
  <2>8. progress'[u] # NoRow /\ progress'[u].last_block >= progress[u].last_block
    BY <1>6, <2>1, <2>3, Texts
  <2> QED BY <1>6, <2>1, <2>2, <2>5, <2>6, <2>7, <2>8 DEF Grows
<1>7. CASE u # t
  <2>1. /\ rows'[u] = rows[u] /\ columns'[u] = columns[u]
        /\ (progress'[u] = progress[u] \/ progress'[u] = backfill_position(progress[u]))
    BY <1>1, <1>2, <1>3, <1>4, <1>7
  <2>2. progress'[u].last_block = progress[u].last_block /\ progress[u].last_block \in Int
    <3>1. backfill_position(progress[u]).last_block = progress[u].last_block
      BY <1>5, MovedOK
    <3>2. progress[u].last_block \in -1..MaxI64
      BY <1>5, LastBlock
    <3> QED BY <2>1, <3>1, <3>2, SqlStoreAssumption
  <2>3. progress[u] # NoRow => progress'[u] # NoRow
    <3>1. ProgressOK(progress'[u], rows[u])
      BY <1>5, <2>1, MovedOK
    <3> QED BY <1>5, <3>1, LastBlock
  <2> QED BY <2>1, <2>2, <2>3 DEF Grows
<1> QED BY <1>6, <1>7

(* Every step of the store only adds.                                      *)
LEMMA StoreGrows ==
  ASSUME IInv, ArchiveInv, [StoreNext]_storeVars
  PROVE  dialect' = dialect /\ \A t \in Tables : Grows(t)
<1>1. ASSUME UNCHANGED dbVars, foreign \subseteq foreign'
      PROVE  dialect' = dialect /\ \A t \in Tables : Grows(t)
  <2> SUFFICES ASSUME NEW t \in Tables PROVE Grows(t)
    BY <1>1 DEF dbVars
  <2>1. progress[t].last_block \in Int
    BY LastBlock DEF ArchiveInv
  <2> QED BY <1>1, <2>1 DEF Grows, dbVars
<1>2. CASE restart
  BY <1>1, <1>2 DEF restart, EndStreams
<1>3. ASSUME NEW t \in Tables, Write(t)
      PROVE  dialect' = dialect /\ \A u \in Tables : Grows(u)
  <2>1. CASE commit(t)
    <3>1. UNCHANGED foreign /\ pc[t] = "commit" /\ (Committed(t) \/ UNCHANGED dbVars)
      BY <2>1 DEF commit
    <3>2. CASE Committed(t)
      BY <3>1, <3>2, CommittedGrows DEF Committed
    <3> QED BY <1>1, <3>1, <3>2
  <2>2. CASE old_binary_write(t)
    <3> DEFINE r == [block |-> 0, cells |-> [f \in Fields |-> "Null"]]
    <3>1. /\ progress[t] = NoRow
          /\ progress' = [progress EXCEPT ![t] = [last_block |-> 0, position |-> Null]]
          /\ rows' = [rows EXCEPT ![t] = <<r>>]
          /\ columns' = [columns EXCEPT ![t] = [f \in Fields |-> "Text"]]
          /\ foreign' = foreign \cup {t} /\ dialect' = dialect
      BY <2>2 DEF old_binary_write
    <3>2. /\ columns = [v \in Tables |-> columns[v]] /\ rows = [v \in Tables |-> rows[v]]
          /\ progress = [v \in Tables |-> progress[v]]
      BY DEF IInv, StoreTypeOK, ArchiveInv
    <3> SUFFICES ASSUME NEW u \in Tables PROVE Grows(u)
      BY <3>1
    <3>3. RowsOK(rows[u]) /\ ProgressOK(progress[u], rows[u]) /\ progress[u].last_block \in Int
      BY LastBlock DEF ArchiveInv
    <3>4. CASE u = t
      <4>1. rows[u] = <<>> /\ progress[u] = NoRow /\ progress[u].last_block = -1
        BY <3>1, <3>3, <3>4, Texts DEF ProgressOK
      <4>2. /\ rows'[u] = <<r>> /\ columns'[u] = [f \in Fields |-> "Text"] /\ u \in foreign'
        BY <3>1, <3>2, <3>4
      <4>3. \A i \in DOMAIN <<r>> : <<r>>[i].block = 0
        <5>1. DOMAIN <<r>> = 1..1 /\ <<r>>[1] = r /\ r.block = 0
          OBVIOUS
        <5> QED BY <5>1
      <4>4. DOMAIN rows[u] = {}
        BY <4>1
      <4> HIDE DEF r
      <4> QED BY <4>1, <4>2, <4>3, <4>4, FieldsAreColumns DEF Grows
    <3>5. CASE u # t
      <4>1. /\ rows'[u] = rows[u] /\ progress'[u] = progress[u] /\ columns'[u] = columns[u]
        BY <3>1, <3>2, <3>5
      <4> QED BY <3>1, <3>3, <4>1 DEF Grows
    <3> QED BY <3>4, <3>5
  <2>3. CASE ~commit(t) /\ ~old_binary_write(t)
    <3>1. UNCHANGED dbVars /\ foreign \subseteq foreign'
      BY <1>3, <2>3 DEF Write, subscribe, start_write, create_tables, create_resumes,
         migrate_if_needed, add_position_column, insert_rows, statement_fails, stream_ends,
         EndStreams
    <3> QED BY <1>1, <3>1
  <2> QED BY <2>1, <2>2, <2>3
<1>4. CASE UNCHANGED storeVars
  BY <1>1, <1>4 DEF storeVars
<1> QED BY <1>2, <1>3, <1>4 DEF StoreNext

-----------------------------------------------------------------------------
(* What the invariant says of a resume.                                    *)
LEMMA ResumeExact == ASSUME ArchiveInv PROVE ResumeIsExact
<1> SUFFICES ASSUME NEW t \in Tables
             PROVE  /\ stored_position(t) = Highest(t)
                    /\ replay(t, stored_position(t)) = rows[t]
                    /\ progress[t].last_block = Highest(t)
  BY DEF ResumeIsExact
<1> DEFINE s == rows[t]
           b == progress[t].last_block
<1>1. RowsOK(s) /\ ProgressOK(progress[t], s)
  BY DEF ArchiveInv
<1>2. PICK S : s \in Seq(S)
  BY <1>1 DEF RowsOK
<1>3. /\ Len(s) \in Nat /\ DOMAIN s = 1..Len(s) /\ s = [i \in 1..Len(s) |-> s[i]]
      /\ s # <<>> => Len(s) \in DOMAIN s
  BY <1>2
<1>4. b \in Int /\ \A i \in DOMAIN s : s[i].block <= b
  BY <1>1, LastBlock
<1>5. stored_position(t) = b
  BY StoredIs
<1>6. Highest(t) = b
  <2>1. CASE s = <<>>
    <3>1. progress[t] = NoRow
      BY <1>1, <2>1, LastBlock
    <3> QED BY <2>1, <3>1 DEF Highest, NoRow
  <2>2. CASE s # <<>>
    <3> DEFINE B == {s[i].block : i \in DOMAIN s}
    <3>1. b = s[Len(s)].block /\ Len(s) \in DOMAIN s
      BY <1>1, <1>3, <2>2 DEF ProgressOK
    <3>2. b \in B
      BY <3>1
    <3>3. \A c \in B : (\A i \in DOMAIN s : s[i].block <= c) => c = b
      <4> SUFFICES ASSUME NEW j \in DOMAIN s, \A i \in DOMAIN s : s[i].block <= s[j].block
                   PROVE  s[j].block = b
        OBVIOUS
      <4>1. s[j].block <= b /\ b <= s[j].block /\ s[j].block \in Int
        BY <1>1, <1>4, <3>1, SqlStoreAssumption DEF RowsOK
      <4> QED BY <1>4, <4>1
    <3>4. Highest(t) = CHOOSE c \in B : \A i \in DOMAIN s : s[i].block <= c
      BY <2>2 DEF Highest
    <3> HIDE DEF B, b, s
    <3> QED BY <1>4, <3>2, <3>3, <3>4
  <2> QED BY <2>1, <2>2
<1>7. replay(t, b) = s
  <2>1. PICK m \in 0..Len(s) : /\ replay(t, b) = [i \in 1..m |-> s[i]]
                               /\ \A i \in DOMAIN s : s[i].block <= b <=> i <= m
    BY <1>1, <1>4, ReplayIs
  <2>2. m = Len(s)
    <3>1. CASE s = <<>>
      BY <1>3, <2>1, <3>1
    <3>2. CASE s # <<>>
      BY <1>3, <1>4, <2>1, <3>2
    <3> QED BY <3>1, <3>2
  <2> QED BY <1>3, <2>1, <2>2
<1> QED BY <1>5, <1>6, <1>7

(* At all times, whatever subscription wrote a row: rows ascend, the       *)
(* progress row names the last of them, a write in progress lies above it, *)
(* no race is lost twice, and a cell decodes as what its column reports on *)
(* PostgreSQL, on SQLite in every table but a Culprit.                     *)
THEOREM ArchiveAlways == Spec => [](IInv /\ ArchiveInv)
<1>1. Init => IInv /\ ArchiveInv
  BY InitInv, ArchiveInit DEF Init
<1>2. IInv /\ ArchiveInv /\ [Next]_vars => IInv' /\ ArchiveInv'
  BY StoreStepInv, StoreStepArchive, ServingReads
<1> QED BY <1>1, <1>2, PTL DEF Spec

(* Across the migration, restarts, ambiguous commits and writes of an      *)
(* older binary, for any number of tables: a resume goes on exactly behind *)
(* the last committed group and the replay before it misses no row.        *)
THEOREM ResumesAreExact == Spec => []ResumeIsExact
<1>1. ArchiveInv => ResumeIsExact
  BY ResumeExact
<1> QED BY <1>1, ArchiveAlways, PTL

(* No step changes a committed row, or adds one at or below the committed  *)
(* watermark of its table.                                                 *)
THEOREM CommittedRowsAreFinal == Spec => BelowWatermarkIsFinal
<1> DEFINE A == \A t \in Tables :
                  /\ \A i \in DOMAIN rows[t] : i \in DOMAIN rows'[t] /\ rows'[t][i] = rows[t][i]
                  /\ \A i \in DOMAIN rows'[t] \ DOMAIN rows[t] :
                       rows'[t][i].block > progress[t].last_block
<1>1. IInv /\ ArchiveInv /\ [Next]_vars => [A]_storeVars
  BY StoreGrows, ServingReads DEF Grows
<1>2. Spec => [][Next]_vars
  BY DEF Spec
<1> QED BY <1>1, <1>2, ArchiveAlways, PTL DEF BelowWatermarkIsFinal

-----------------------------------------------------------------------------
(***************************************************************************)
(* The serving layer.                                                      *)
(***************************************************************************)

(* The most rows of a page.                                                *)
MaxPage == Clamp(max_limit, 1, MaxI64)

(* The blocks got are those of the first rows of the table, none of them   *)
(* above the cap; and once the client is done, every other row is.         *)
Paged(s, c) ==
  /\ Len(c.got) <= Len(s)
  /\ \A i \in DOMAIN c.got : i \in DOMAIN s /\ s[i].block <= c.cap /\ c.got[i] = s[i].block
  /\ c.done => \A i \in DOMAIN s : i > Len(c.got) => s[i].block > c.cap

ClientOK ==
  /\ client = [table |-> client.table, cap |-> client.cap, got |-> client.got,
               done |-> client.done]
  /\ client.got \in Seq(Int)
  /\ client.table # NoTable =>
       /\ client.table \in Tables /\ progress[client.table] # NoRow
       /\ client.cap \in 0..progress[client.table].last_block
       /\ Paged(rows[client.table], client)

(* The request for rows in flight is the client's, and goes on where its   *)
(* last page ended.                                                        *)
RequestOK ==
  request.route = "rows" =>
    /\ client.table # NoTable /\ request.table = client.table
    /\ request.bounds.offset = Len(client.got)
    /\ request.bounds.limit \in 1..MaxPage

ReplyOK ==
  /\ (reply.code = 500 /\ reply.table # NoTable) =>
       reply.table \in Tables /\ Culprit(reply.table)
  /\ reply.code = 404 => reply.table # client.table

ServingInv == ClientOK /\ RequestOK /\ ReplyOK

-----------------------------------------------------------------------------
(* The bounds resolve computes.                                            *)
LEMMA Bounds ==
  ASSUME NEW limit \in Limits, limit # Invalid, NEW offset
  PROVE  /\ MaxPage \in 1..MaxI64
         /\ resolve(limit, offset).offset = offset
         /\ resolve(limit, offset).limit \in 1..MaxPage
<1>1. /\ MaxI64 \in Nat \ {0} /\ max_limit \in Nat /\ default_limit \in Nat
      /\ limit \in Nat \cup {-1}
  BY SqlStoreAssumption, ServingAssumption DEF Invalid, None
<1>2. MaxPage \in 1..MaxI64
  BY <1>1 DEF MaxPage, Clamp, MinOf
<1> DEFINE x == IF limit = None THEN default_limit ELSE limit
<1>3. x \in Nat
  BY <1>1 DEF None
<1>4. resolve(limit, offset) = [limit |-> Clamp(x, 1, MaxPage), offset |-> offset]
  BY DEF resolve, MaxPage
<1> HIDE DEF x, MaxPage
<1>5. Clamp(x, 1, MaxPage) \in 1..MaxPage
  BY <1>1, <1>2, <1>3 DEF Clamp, MinOf
<1> QED BY <1>2, <1>4, <1>5

(* A client without a table, or with one it has read nothing of.           *)
LEMMA FreshClient ==
  /\ NoClient.table = NoTable /\ NoClient.got = <<>> /\ NoClient.got \in Seq(Int)
  /\ NoClient = [table |-> NoClient.table, cap |-> NoClient.cap, got |-> NoClient.got,
                 done |-> NoClient.done]
  BY DEF NoClient

(* A page: the rows from the offset on, up to the cap or the limit.        *)
LEMMA PageIs ==
  ASSUME IInv, ArchiveInv, ServingInv, request.route = "rows"
  PROVE  LET s == rows[client.table]
             k == Len(client.got)
             page == range_query(client.table, client.cap, request.bounds)
         IN  /\ k \in Nat /\ Len(page) \in Nat /\ DOMAIN page = 1..Len(page)
             /\ k + Len(page) <= Len(s)
             /\ \A i \in DOMAIN page :
                  k + i \in DOMAIN s /\ page[i] = s[k + i] /\ s[k + i].block <= client.cap
             /\ Len(page) < request.bounds.limit =>
                  \A i \in DOMAIN s : i > k + Len(page) => s[i].block > client.cap
<1> DEFINE t == client.table
           s == rows[t]
           k == Len(client.got)
           b == client.cap
           L == request.bounds.limit
           page == range_query(t, b, request.bounds)
<1>1. t \in Tables /\ b \in 0..progress[t].last_block /\ Paged(s, client) /\ client.got \in Seq(Int)
  BY DEF ServingInv, ClientOK, RequestOK
<1>2. RowsOK(s) /\ ProgressOK(progress[t], s) /\ MaxI64 \in Nat
  BY <1>1, SqlStoreAssumption DEF ArchiveInv
<1>3. b \in Int /\ b <= MaxI64
  <2>1. progress[t].last_block \in -1..MaxI64
    BY <1>2, LastBlock
  <2> QED BY <1>1, <1>2, <2>1
<1>4. MinOf(b, MaxI64) = b
  BY <1>2, <1>3 DEF MinOf
<1>5. PICK m \in 0..Len(s) : /\ replay(t, b) = [i \in 1..m |-> s[i]]
                             /\ \A i \in DOMAIN s : s[i].block <= b <=> i <= m
  <2> HIDE DEF t, b
  <2> QED BY <1>1, <1>2, <1>3, ReplayIs
<1>6. Len(s) \in Nat /\ DOMAIN s = 1..Len(s) /\ m \in Nat /\ m <= Len(s)
  <2>1. PICK S : s \in Seq(S)
    BY <1>2 DEF RowsOK
  <2>2. Len(s) \in Nat /\ DOMAIN s = 1..Len(s)
    BY <2>1
  <2> QED BY <2>2
<1>7. k \in Nat /\ DOMAIN client.got = 1..k /\ k <= m
  <2>1. k \in Nat /\ DOMAIN client.got = 1..k
    BY <1>1
  <2>2. k = 0 \/ k \in DOMAIN client.got
    BY <2>1
  <2>3. k # 0 => k \in DOMAIN s /\ s[k].block <= b
    BY <1>1, <2>2 DEF Paged
  <2> QED BY <1>5, <1>6, <2>1, <2>3
<1>8. L \in 1..MaxPage /\ MaxPage \in Nat /\ request.bounds.offset = k
  <2>1. MaxPage \in Nat
    BY SqlStoreAssumption, ServingAssumption DEF MaxPage, Clamp, MinOf
  <2> QED BY <2>1 DEF ServingInv, RequestOK
<1> DEFINE all == [i \in 1..m |-> s[i]]
           to == MinOf(k + L, m)
<1>9. page = SubSeq(all, k + 1, to)
  <2>1. MinOf(L, MaxPage) = L
    BY <1>8 DEF MinOf
  <2>2. Len(all) = m
    BY <1>6
  <2>3. page = SubSeq(replay(t, b), request.bounds.offset + 1,
                      MinOf(request.bounds.offset + L, Len(replay(t, b))))
    BY <1>4, <2>1 DEF range_query, MaxPage
  <2> QED BY <1>5, <1>8, <2>2, <2>3
<1>10. to \in Nat /\ k <= to /\ to <= m /\ to - k \in Nat /\ (to - k < L => to = m)
  BY <1>6, <1>7, <1>8 DEF MinOf
<1>11. page = [i \in 1..(to - k) |-> s[k + i]]
  <2> DEFINE S == {all[i] : i \in 1..m}
  <2>1. \A i \in (k + 1)..to : all[i] \in S
    <3>1. \A i \in (k + 1)..to : i \in 1..m
      BY <1>6, <1>7, <1>10
    <3> HIDE DEF all, to
    <3> QED BY <3>1
  <2>2. k + 1 \in Int /\ to \in Int /\ to - (k + 1) + 1 = to - k
        /\ (k + 1 <= to <=> to - k > 0) /\ to - k \in Nat
    BY <1>7, <1>10
  <2>3. /\ page \in Seq(S) /\ Len(page) = to - k
        /\ \A i \in 1..(to - k) : page[i] = all[k + 1 + i - 1]
    <3> HIDE DEF all, to, S, page, k
    <3>1. /\ page \in Seq(S) /\ Len(page) = IF k + 1 <= to THEN to - (k + 1) + 1 ELSE 0
          /\ \A i \in 1..(to - (k + 1) + 1) : page[i] = all[k + 1 + i - 1]
      BY <1>9, <2>1, <2>2, SubSeqProperties
    <3> QED BY <2>2, <3>1
  <2>4. \A i \in 1..(to - k) : all[k + 1 + i - 1] = s[k + i]
    <3> SUFFICES ASSUME NEW i \in 1..(to - k) PROVE all[k + 1 + i - 1] = s[k + i]
      OBVIOUS
    <3>1. k + 1 + i - 1 = k + i /\ k + i \in 1..m
      BY <1>6, <1>7, <1>10
    <3> QED BY <3>1
  <2> HIDE DEF all, to, S, page
  <2>5. page = [i \in 1..Len(page) |-> page[i]]
    BY <2>3
  <2> QED BY <2>3, <2>4, <2>5
<1>12. \A i \in 1..(to - k) : k + i \in 1..m /\ k + i \in DOMAIN s /\ s[k + i].block <= b
  <2> SUFFICES ASSUME NEW i \in 1..(to - k)
               PROVE  k + i \in 1..m /\ k + i \in DOMAIN s /\ s[k + i].block <= b
    OBVIOUS
  <2>1. k + i \in 1..m /\ k + i \in DOMAIN s /\ k + i <= m
    BY <1>6, <1>7, <1>10
  <2> QED BY <1>5, <2>1
<1> HIDE DEF to, page, all, s
<1>13. Len(page) = to - k /\ DOMAIN page = 1..(to - k)
  BY <1>10, <1>11
<1>14. k + Len(page) = to
  BY <1>7, <1>10, <1>13
<1>15. Len(page) < L => \A i \in DOMAIN s : i > k + Len(page) => s[i].block > b
  <2> SUFFICES ASSUME Len(page) < L, NEW i \in DOMAIN s, i > k + Len(page)
               PROVE  s[i].block > b
    OBVIOUS
  <2>1. ~(i <= m) /\ s[i].block \in Int
    BY <1>2, <1>6, <1>10, <1>13, <1>14, SqlStoreAssumption DEF RowsOK
  <2> QED BY <1>3, <1>5, <2>1
<1>16. /\ k \in Nat /\ Len(page) \in Nat /\ k + Len(page) <= Len(s)
       /\ \A i \in DOMAIN page :
            k + i \in DOMAIN s /\ page[i] = s[k + i] /\ s[k + i].block <= b
  BY <1>6, <1>7, <1>10, <1>11, <1>12, <1>13, <1>14
<1> QED BY <1>13, <1>15, <1>16 DEF s, page

-----------------------------------------------------------------------------
(* Nothing has been asked or answered yet.                                 *)
LEMMA ServingInit == ASSUME Init PROVE ServingInv
<1>1. client = NoClient /\ request.route # "rows" /\ reply.code = 200
  BY DEF Init, NoRequest, Ok
<1>2. ClientOK /\ RequestOK
  BY <1>1, FreshClient DEF ClientOK, RequestOK
<1>3. ReplyOK
  BY <1>1 DEF ReplyOK
<1> QED BY <1>2, <1>3 DEF ServingInv

(* The archive after a step.                                               *)
LEMMA ArchivePrimed ==
  ASSUME ArchiveInv', NEW t \in Tables
  PROVE  RowsOK(rows'[t]) /\ ProgressOK(progress'[t], rows'[t])
  BY DEF ArchiveInv, RowsOK, Ascending, ProgressOK, NoRow, Null, None

(* A table that SQLite may serve wrong stays one.                          *)
LEMMA CauseLasts ==
  ASSUME NEW t \in Tables, Grows(t), dialect' = dialect, Culprit(t)
  PROVE  Culprit(t)'
<1>1. CASE t \in foreign
  BY <1>1 DEF Grows, Culprit
<1>2. CASE Misread(t)
  <2>1. columns[t] # NoColumns
    <3>1. DOMAIN NoColumns = {}
      BY DEF NoColumns
    <3> QED BY <1>2, <3>1 DEF Misread
  <2>2. t \in foreign' \/ columns'[t] = columns[t]
    BY <2>1 DEF Grows
  <2> QED BY <1>2, <2>2 DEF Misread, Culprit
<1> QED BY <1>1, <1>2 DEF Culprit

(* The writers never disturb a client: what it has is still what the       *)
(* table begins with, and new rows are above its cap.                      *)
LEMMA StoreServing ==
  ASSUME IInv, ArchiveInv, ArchiveInv', ServingInv, [StoreNext]_storeVars, UNCHANGED servingVars
  PROVE  ServingInv'
<1>1. UNCHANGED <<layer, request, reply, client>>
  BY DEF servingVars
<1>2. dialect' = dialect /\ \A t \in Tables : Grows(t)
  BY StoreGrows
<1>3. ClientOK'
  <2>1. CASE client.table = NoTable
    BY <1>1, <2>1 DEF ServingInv, ClientOK
  <2>2. CASE client.table # NoTable
    <3>0. PICK t \in Tables : t = client.table
      BY <2>2 DEF ServingInv, ClientOK
    <3>1. /\ t \in Tables /\ progress[t] # NoRow /\ client.cap \in 0..progress[t].last_block
          /\ Paged(rows[t], client) /\ client.got \in Seq(Int)
      BY <2>2, <3>0 DEF ServingInv, ClientOK
    <3>2. Grows(t) /\ RowsOK(rows[t]) /\ ProgressOK(progress[t], rows[t])
          /\ RowsOK(rows'[t]) /\ ProgressOK(progress'[t], rows'[t])
      BY <1>2, ArchivePrimed DEF ArchiveInv
    <3>3. /\ progress[t].last_block \in Int /\ progress'[t].last_block \in Int
          /\ client.cap \in Int
      <4>1. progress[t].last_block \in -1..MaxI64
        BY <3>2, LastBlock
      <4>3. progress'[t].last_block \in -1..MaxI64
        BY <3>2, LastBlock
      <4> QED BY <3>1, <4>1, <4>3, SqlStoreAssumption
    <3>4. progress'[t] # NoRow /\ client.cap \in 0..progress'[t].last_block
      BY <3>1, <3>2, <3>3 DEF Grows
    <3>5. Paged(rows'[t], client)
      <4>1. /\ Len(rows[t]) \in Nat /\ DOMAIN rows[t] = 1..Len(rows[t])
            /\ Len(rows'[t]) \in Nat /\ DOMAIN rows'[t] = 1..Len(rows'[t])
        <5>1. PICK S : rows[t] \in Seq(S)
          BY <3>2 DEF RowsOK
        <5>2. PICK R : rows'[t] \in Seq(R)
          BY <3>2 DEF RowsOK
        <5> QED BY <5>1, <5>2
      <4>2. Len(rows[t]) <= Len(rows'[t])
        <5>1. Len(rows[t]) = 0 \/ Len(rows[t]) \in DOMAIN rows'[t]
          BY <3>2, <4>1 DEF Grows
        <5> QED BY <4>1, <5>1
      <4>3. Len(client.got) \in Nat /\ Len(client.got) <= Len(rows'[t])
        BY <3>1, <4>1, <4>2 DEF Paged
      <4>4. ASSUME NEW i \in DOMAIN client.got
            PROVE  /\ i \in DOMAIN rows'[t] /\ rows'[t][i].block <= client.cap
                   /\ client.got[i] = rows'[t][i].block
        BY <3>1, <3>2 DEF Paged, Grows
      <4>5. ASSUME client.done, NEW i \in DOMAIN rows'[t], i > Len(client.got)
            PROVE  rows'[t][i].block > client.cap
        <5>1. CASE i \in DOMAIN rows[t]
          BY <3>1, <3>2, <4>5, <5>1 DEF Paged, Grows
        <5>2. CASE i \notin DOMAIN rows[t]
          <6>1. rows'[t][i].block > progress[t].last_block
            BY <3>2, <4>5, <5>2 DEF Grows
          <6>2. rows'[t][i].block \in Int
            BY <3>2, <4>5, SqlStoreAssumption DEF RowsOK
          <6> QED BY <3>1, <3>3, <6>1, <6>2
        <5> QED BY <5>1, <5>2
      <4> QED BY <4>3, <4>4, <4>5 DEF Paged
    <3>6. client'.table = t /\ client' = client
      BY <1>1, <3>0
    <3>7. client = [table |-> client.table, cap |-> client.cap, got |-> client.got,
                    done |-> client.done]
      BY DEF ServingInv, ClientOK
    <3> QED BY <3>1, <3>4, <3>5, <3>6, <3>7 DEF ClientOK, Paged
  <2> QED BY <2>1, <2>2
<1>4. RequestOK'
  BY <1>1 DEF ServingInv, RequestOK
<1>5. ReplyOK'
  <2>1. reply.code = 404 => reply.table # client.table
    BY DEF ServingInv, ReplyOK
  <2>2. ASSUME reply.code = 500, reply.table # NoTable
        PROVE  reply.table \in Tables /\ Culprit(reply.table)'
    <3>1. reply.table \in Tables /\ Culprit(reply.table)
      BY <2>2 DEF ServingInv, ReplyOK
    <3>2. PICK t \in Tables : t = reply.table
      BY <3>1
    <3>3. Culprit(t)'
      BY <1>2, <3>1, <3>2, CauseLasts
    <3>4. Culprit(t)' => Culprit(reply.table)'
      BY <1>1, <3>2 DEF Culprit, Misread
    <3> QED BY <3>2, <3>3, <3>4
  <2> QED BY <1>1, <2>1, <2>2 DEF ReplyOK
<1> QED BY <1>3, <1>4, <1>5 DEF ServingInv

(* The client after a page: the blocks of the page behind what it had.     *)
LEMMA PageTaken ==
  ASSUME IInv, ArchiveInv, ServingInv, request.route = "rows", UNCHANGED storeVars,
         NEW page, page = range_query(client.table, client.cap, request.bounds),
         client' = [client EXCEPT
                      !.got = @ \o [i \in DOMAIN page |-> page[i].block],
                      !.done = Len(page) < request.bounds.limit]
  PROVE  ClientOK'
<1>1. PICK t \in Tables : t = client.table
  BY DEF ServingInv, RequestOK, ClientOK
<1> DEFINE s == rows[t]
           g == client.got
           k == Len(g)
           h == [i \in DOMAIN page |-> page[i].block]
<1>2. /\ t # NoTable /\ progress[t] # NoRow /\ client.cap \in 0..progress[t].last_block
      /\ Paged(s, client) /\ g \in Seq(Int)
      /\ client = [table |-> client.table, cap |-> client.cap, got |-> g, done |-> client.done]
  BY <1>1 DEF ServingInv, RequestOK, ClientOK
<1>3. /\ k \in Nat /\ Len(page) \in Nat /\ DOMAIN page = 1..Len(page) /\ k + Len(page) <= Len(s)
      /\ \A i \in DOMAIN page :
           k + i \in DOMAIN s /\ page[i] = s[k + i] /\ s[k + i].block <= client.cap
      /\ Len(page) < request.bounds.limit =>
           \A i \in DOMAIN s : i > k + Len(page) => s[i].block > client.cap
  BY <1>1, PageIs
<1>4. \A i \in DOMAIN s : s[i].block \in Int
  BY SqlStoreAssumption DEF ArchiveInv, RowsOK
<1>5. client' = [table |-> t, cap |-> client.cap, got |-> g \o h,
                 done |-> Len(page) < request.bounds.limit]
  BY <1>1, <1>2
<1>6. h \in Seq(Int) /\ Len(h) = Len(page)
  BY <1>3, <1>4
<1> HIDE DEF h, s, g
<1>7. /\ g \o h \in Seq(Int) /\ Len(g \o h) = k + Len(page)
      /\ \A i \in 1..(k + Len(page)) : (g \o h)[i] = IF i <= k THEN g[i] ELSE h[i - k]
      /\ DOMAIN g = 1..k /\ DOMAIN (g \o h) = 1..(k + Len(page))
  <2>0. g \in Seq(Int)
    BY <1>2
  <2>1. g \o h \in Seq(Int) /\ Len(g \o h) = k + Len(page)
    <3>1. g \o h \in Seq(Int) /\ Len(g \o h) = Len(g) + Len(h)
      BY <1>6, <2>0, ConcatProperties
    <3> QED BY <1>6, <3>1
  <2>3. DOMAIN g = 1..k
    BY <2>0
  <2>4. \A w \in Seq(Int) : DOMAIN w = 1..Len(w)
    OBVIOUS
  <2>5. DOMAIN (g \o h) = 1..(k + Len(page))
    BY <2>1, <2>4, Zenon
  <2>2. \A i \in 1..(k + Len(page)) : (g \o h)[i] = IF i <= k THEN g[i] ELSE h[i - k]
    BY <1>2, <1>6, ConcatProperties
  <2> QED BY <2>1, <2>2, <2>3, <2>5
<1>8. ASSUME NEW i \in 1..(k + Len(page))
      PROVE  i \in DOMAIN s /\ s[i].block <= client.cap /\ (g \o h)[i] = s[i].block
  <2>1. CASE i <= k
    <3>1. i \in DOMAIN g
      BY <1>3, <1>7, <2>1
    <3>2. i \in DOMAIN s /\ s[i].block <= client.cap /\ g[i] = s[i].block
      BY <1>2, <3>1 DEF Paged, g
    <3> QED BY <1>7, <2>1, <3>2
  <2>2. CASE ~(i <= k)
    <3>1. i - k \in DOMAIN page /\ k + (i - k) = i
      BY <1>3, <2>2
    <3>2. h[i - k] = page[i - k].block
      BY <3>1 DEF h
    <3> QED BY <1>3, <1>7, <2>2, <3>1, <3>2
  <2> QED BY <2>1, <2>2
<1> DEFINE w == g \o h
<1>11. /\ client'.table = t /\ client'.cap = client.cap /\ client'.got = w
       /\ client'.done = (Len(page) < request.bounds.limit)
  <2> DEFINE r == [table |-> t, cap |-> client.cap, got |-> w,
                   done |-> Len(page) < request.bounds.limit]
  <2>1. r.table = t /\ r.cap = client.cap /\ r.got = w
        /\ r.done = (Len(page) < request.bounds.limit)
    OBVIOUS
  <2>2. client' = r
    BY <1>5, Zenon
  <2> HIDE DEF r, w
  <2> QED BY <2>1, <2>2, Zenon
<1>12. /\ w \in Seq(Int) /\ Len(w) = k + Len(page) /\ DOMAIN w = 1..(k + Len(page))
       /\ \A i \in 1..(k + Len(page)) :
            i \in DOMAIN s /\ s[i].block <= client.cap /\ w[i] = s[i].block
  BY <1>7, <1>8
<1> HIDE DEF w
<1>9. Paged(s, client')
  BY <1>3, <1>11, <1>12 DEF Paged
<1>10. rows' = rows /\ progress' = progress
  BY DEF storeVars, dbVars
<1>13. client' = [table |-> client'.table, cap |-> client'.cap, got |-> client'.got,
                  done |-> client'.done]
  BY <1>5, <1>11 DEF w
<1>14. Paged(rows[t], client)'
  BY <1>9, <1>10 DEF Paged, s
<1> QED BY <1>1, <1>2, <1>10, <1>11, <1>12, <1>13, <1>14 DEF ClientOK

(* A row that does not decode is one of a table with a cause for it.       *)
LEMMA BadRow ==
  ASSUME ArchiveInv, NEW t \in Tables, NEW j \in DOMAIN rows[t], ~row_to_json(t, rows[t][j])
  PROVE  Culprit(t)
<1>1. CellOK(t)
  BY DEF ArchiveInv
<1>2. ~Reads(columns[t], rows[t][j])
  BY DEF Reads, row_to_json, table_columns
<1> QED BY <1>1, <1>2 DEF CellOK

(* A step that leaves the client without a table and no request for rows.  *)
LEMMA ClientGone ==
  ASSUME UNCHANGED storeVars, client' = NoClient, request'.route # "rows",
         (reply'.code = 500 /\ reply'.table # NoTable) =>
            reply'.table \in Tables /\ Culprit(reply'.table),
         reply'.code = 404 => reply'.table # NoTable
  PROVE  ServingInv'
<1>1. ClientOK'
  BY FreshClient DEF ClientOK
<1>2. RequestOK'
  BY DEF RequestOK
<1>3. dialect' = dialect /\ columns' = columns /\ foreign' = foreign
  BY DEF storeVars, dbVars
<1>4. ReplyOK'
  BY <1>3, FreshClient DEF ReplyOK, Culprit, Misread
<1> QED BY <1>1, <1>2, <1>4 DEF ServingInv

(* A step that leaves the client alone.                                    *)
LEMMA ClientStays ==
  ASSUME ServingInv, UNCHANGED <<storeVars, client>>, RequestOK',
         reply' = reply \/ (reply'.code \notin {404, 500}) \/
           (reply'.code = 404 /\ reply'.table # client.table)
  PROVE  ServingInv'
<1>1. ClientOK'
  BY DEF ServingInv, ClientOK, Paged, storeVars, dbVars
<1>2. dialect' = dialect /\ columns' = columns /\ foreign' = foreign /\ client' = client
  BY DEF storeVars, dbVars
<1>3. ReplyOK'
  BY <1>2 DEF ServingInv, ReplyOK, Culprit, Misread
<1> QED BY <1>1, <1>3 DEF ServingInv

-----------------------------------------------------------------------------
(* A table /status reported exists.                                        *)
LEMMA ReportedExists ==
  ASSUME ArchiveInv, ServingInv, client.table # NoTable
  PROVE  client.table \in Tables /\ table_exists(client.table)
<1>1. PICK t \in Tables : t = client.table /\ progress[t] # NoRow
  BY DEF ServingInv, ClientOK
<1>2. RowsOK(rows[t]) /\ ProgressOK(progress[t], rows[t]) /\ CellOK(t)
  BY DEF ArchiveInv
<1>3. rows[t] # <<>>
  BY <1>1, <1>2 DEF ProgressOK
<1> QED BY <1>1, <1>2, <1>3 DEF CellOK, table_exists

(* What a failed read answers names no table.                              *)
LEMMA ReadFailsServing ==
  ASSUME NEW code \in {500, 503}, ReadFails(code), UNCHANGED storeVars, request'.route # "rows"
  PROVE  ServingInv'
<1>1. client' = NoClient /\ reply' = Ok
  BY DEF ReadFails, Answer
<1>2. reply'.table = NoTable /\ reply'.code # 404
  BY <1>1 DEF Ok
<1> QED BY <1>1, <1>2, ClientGone

(* An answer without an error, to a request that is not about rows.        *)
LEMMA OkServing ==
  ASSUME ServingInv, UNCHANGED <<storeVars, client>>, reply' = Ok, request'.route # "rows"
  PROVE  ServingInv'
<1>1. RequestOK'
  BY DEF RequestOK
<1>2. reply'.code \notin {404, 500}
  BY DEF Ok
<1> QED BY <1>1, <1>2, ClientStays

(* /status gives the client a table with a progress row, and its block.    *)
LEMMA StatusServing ==
  ASSUME ArchiveInv, ServingInv, get_status_handler
  PROVE  ServingInv'
<1>1. UNCHANGED storeVars /\ request' = NoRequest /\ request'.route # "rows"
  BY DEF get_status_handler, Accepting, NoRequest
<1>2. CASE reply' = Ok /\ UNCHANGED client
  BY <1>1, <1>2, OkServing
<1>3. CASE ReadFails(500)
  BY <1>1, <1>3, ReadFailsServing
<1>4. ASSUME NEW t \in watermarks, reply' = Ok,
             client' = [NoClient EXCEPT !.table = t, !.cap = progress[t].last_block]
      PROVE  ServingInv'
  <2>1. /\ t \in Tables /\ progress[t] # NoRow
        /\ rows' = rows /\ progress' = progress
    BY <1>1, <1>4 DEF watermarks, storeVars, dbVars
  <2>2. RowsOK(rows[t]) /\ ProgressOK(progress[t], rows[t])
    BY <2>1 DEF ArchiveInv
  <2>3. progress[t].last_block \in 0..progress[t].last_block
    <3>1. progress[t].last_block \in -1..MaxI64 /\ progress[t].last_block >= 0
      BY <2>1, <2>2, LastBlock
    <3> QED BY <3>1, SqlStoreAssumption
  <2>4. Len(rows[t]) \in Nat
    <3>1. PICK S : rows[t] \in Seq(S)
      BY <2>2 DEF RowsOK
    <3> QED BY <3>1
  <2>5. client' = [table |-> t, cap |-> progress[t].last_block, got |-> <<>>, done |-> FALSE]
    BY <1>4 DEF NoClient
  <2>6. /\ client'.table = t /\ client'.cap = progress[t].last_block /\ client'.got = <<>>
        /\ ~client'.done /\ client' = [table |-> client'.table, cap |-> client'.cap,
                                      got |-> client'.got, done |-> client'.done]
    BY <2>5
  <2>7. Paged(rows[t], client)'
    <3>1. Len(client'.got) = 0 /\ DOMAIN client'.got = {}
      BY <2>6
    <3> QED BY <2>1, <2>4, <2>6, <3>1 DEF Paged
  <2>8. client'.got \in Seq(Int)
    BY <2>6
  <2>9. ClientOK'
    BY <2>1, <2>3, <2>6, <2>7, <2>8 DEF ClientOK
  <2>10. RequestOK' /\ ReplyOK'
    BY <1>1, <1>4 DEF RequestOK, ReplyOK, Ok
  <2> QED BY <2>9, <2>10 DEF ServingInv
<1> QED BY <1>2, <1>3, <1>4 DEF get_status_handler

(* The existence check of a table route: the client's own table exists.    *)
LEMMA CheckTableServing ==
  ASSUME ArchiveInv, ServingInv, NEW route \in {"schema", "rows"}, NEW t \in Tables, NEW limit,
         check_table(route, t, limit),
         route = "schema" => client = NoClient,
         route = "rows" => t = client.table /\ limit \in Limits
  PROVE  ServingInv'
<1>1. UNCHANGED storeVars /\ request = NoRequest /\ request.route # "rows"
  BY DEF check_table, Accepting, NoRequest
<1>2. t # NoTable
  BY ServingAssumption
<1>3. CASE limit # Invalid /\ reply' = Ok /\ UNCHANGED client
           /\ request' = [route |-> route, table |-> t, bounds |-> resolve(limit, Len(client.got))]
  <2>1. CASE route = "schema"
    BY <1>1, <1>3, <2>1, OkServing
  <2>2. CASE route = "rows"
    <3>1. /\ resolve(limit, Len(client.got)).offset = Len(client.got)
          /\ resolve(limit, Len(client.got)).limit \in 1..MaxPage
      BY <1>3, <2>2, Bounds
    <3>2. RequestOK'
      <4>1. request'.table = t /\ request'.bounds = resolve(limit, Len(client.got))
        BY <1>3
      <4> QED BY <1>2, <1>3, <2>2, <3>1, <4>1 DEF RequestOK, MaxPage
    <3>3. reply'.code \notin {404, 500}
      BY <1>3 DEF Ok
    <3> QED BY <1>1, <1>3, <3>2, <3>3, ClientStays
  <2> QED BY <2>1, <2>2
<1>4. CASE Answer(400, NoTable) /\ UNCHANGED <<request, client>>
  <2>1. RequestOK'
    BY <1>1, <1>4 DEF RequestOK
  <2>2. reply'.code \notin {404, 500}
    BY <1>4 DEF Answer, Ok
  <2> QED BY <1>1, <1>4, <2>1, <2>2, ClientStays
<1>5. CASE ~table_exists(t) /\ Answer(404, t) /\ UNCHANGED <<request, client>>
  <2>1. t # client.table
    <3>1. CASE route = "schema"
      BY <1>2, <3>1, FreshClient
    <3>2. CASE route = "rows"
      BY <1>2, <1>5, <3>2, ReportedExists
    <3> QED BY <3>1, <3>2
  <2>2. RequestOK'
    BY <1>1, <1>5 DEF RequestOK
  <2>3. reply'.code = 404 /\ reply'.table # client.table
    BY <1>5, <2>1, ServingAssumption DEF Answer
  <2> QED BY <1>1, <1>5, <2>2, <2>3, ClientStays
<1>6. CASE ReadFails(500) /\ UNCHANGED request
  BY <1>1, <1>6, ReadFailsServing
<1> QED BY <1>3, <1>4, <1>5, <1>6 DEF check_table

(* A page of rows is taken, or one of them does not decode.                *)
LEMMA RowsServing ==
  ASSUME IInv, ArchiveInv, ServingInv, query_rows_handler
  PROVE  ServingInv'
<1> DEFINE t == request.table
           page == range_query(t, client.cap, request.bounds)
<1>1. /\ UNCHANGED storeVars /\ request.route = "rows" /\ request'.route # "rows"
      /\ t = client.table
  BY DEF query_rows_handler, NoRequest, ServingInv, RequestOK
<1>2. ASSUME reply' = Ok,
             client' = [client EXCEPT
                          !.got = @ \o [i \in DOMAIN page |-> page[i].block],
                          !.done = Len(page) < request.bounds.limit]
      PROVE  ServingInv'
  <2>1. page = range_query(client.table, client.cap, request.bounds)
    BY <1>1
  <2>2. ClientOK'
    <3> HIDE DEF page
    <3> QED BY <1>1, <1>2, <2>1, PageTaken
  <2>3. RequestOK' /\ ReplyOK'
    BY <1>1, <1>2 DEF RequestOK, ReplyOK, Ok
  <2> QED BY <2>2, <2>3 DEF ServingInv
<1>3. ASSUME NEW i \in DOMAIN page, ~row_to_json(t, page[i]), Answer(500, t), client' = NoClient
      PROVE  ServingInv'
  <2>1. t \in Tables
    BY <1>1, ReportedExists DEF ServingInv, RequestOK
  <2>2. PICK j \in DOMAIN rows[t] : page[i] = rows[t][j]
    BY <1>1, <1>3, PageIs
  <2>3. Culprit(t)
    <3>1. PICK u \in Tables : u = t
      BY <2>1
    <3>2. ~row_to_json(u, rows[u][j]) /\ j \in DOMAIN rows[u]
      BY <1>3, <2>2, <3>1
    <3>3. Culprit(u)
      BY <3>2, BadRow
    <3> QED BY <3>1, <3>3
  <2>4. reply'.code = 500 /\ reply'.table = t
    BY <1>3, <2>1, ServingAssumption DEF Answer
  <2> QED BY <1>1, <1>3, <2>1, <2>3, <2>4, ClientGone DEF Culprit, Misread
<1>4. CASE ReadFails(500)
  BY <1>1, <1>4, ReadFailsServing
<1> HIDE DEF page, t
<1> QED BY <1>2, <1>3, <1>4 DEF query_rows_handler, page, t

(* Every step of the system keeps what the client has been told true.      *)
LEMMA ServingStep ==
  ASSUME IInv, ArchiveInv, ArchiveInv', ServingInv, [Next]_vars
  PROVE  ServingInv'
<1>1. CASE StoreNext /\ UNCHANGED servingVars
  BY <1>1, StoreServing
<1>2. CASE \E source \in Sources : serve(source)
  <2>1. UNCHANGED <<storeVars, request, reply, client>>
    BY <1>2 DEF serve
  <2>2. RequestOK'
    BY <2>1 DEF ServingInv, RequestOK
  <2> QED BY <2>1, <2>2, ClientStays
<1>3. CASE shutdown
  <2>1. UNCHANGED <<storeVars, request, reply, client>>
    BY <1>3 DEF shutdown
  <2>2. RequestOK'
    BY <2>1 DEF ServingInv, RequestOK
  <2> QED BY <2>1, <2>2, ClientStays
<1>4. CASE drained
  <2>1. UNCHANGED storeVars /\ client' = NoClient /\ request'.route # "rows" /\ reply'.code = 200
    BY <1>4 DEF drained, NoRequest, Ok
  <2> QED BY <2>1, ClientGone
<1>5. CASE get_health_handler
  <2>1. UNCHANGED storeVars /\ request'.route # "rows"
    BY <1>5 DEF get_health_handler, Accepting, NoRequest
  <2> QED BY <1>5, <2>1, OkServing, ReadFailsServing DEF get_health_handler
<1>6. CASE list_tables_handler
  <2>1. UNCHANGED storeVars /\ request'.route # "rows"
    BY <1>6 DEF list_tables_handler, Accepting, NoRequest
  <2> QED BY <1>6, <2>1, OkServing, ReadFailsServing DEF list_tables_handler
<1>7. CASE get_status_handler
  BY <1>7, StatusServing
<1>8. CASE client = NoClient /\ \E t \in Tables : check_table("schema", t, None)
  BY <1>8, CheckTableServing
<1>9. CASE client.table # NoTable /\ \E limit \in Limits : check_table("rows", client.table, limit)
  <2>1. PICK t \in Tables : t = client.table
    BY <1>9, ReportedExists
  <2> QED BY <1>9, <2>1, CheckTableServing
<1>10. CASE get_schema_handler
  <2>1. UNCHANGED storeVars /\ request'.route # "rows"
    BY <1>10 DEF get_schema_handler, NoRequest
  <2> QED BY <1>10, <2>1, OkServing, ReadFailsServing DEF get_schema_handler
<1>11. CASE query_rows_handler
  BY <1>11, RowsServing
<1>12. CASE UNCHANGED vars
  <2>1. UNCHANGED storeVars /\ UNCHANGED servingVars
    BY <1>12 DEF vars
  <2> QED BY <2>1, StoreServing
<1> QED BY <1>1, <1>2, <1>3, <1>4, <1>5, <1>6, <1>7, <1>8, <1>9, <1>10, <1>11, <1>12
       DEF Next, Handle

(* What the client has, seen as the pages of a replay up to its cap.       *)
LEMMA PagesOfReplay == ASSUME ArchiveInv, ServingInv PROVE PagesAreComplete
<1> SUFFICES ASSUME client.table # NoTable PROVE PagesAreComplete
  BY DEF PagesAreComplete
<1>1. PICK t \in Tables : t = client.table
  BY DEF ServingInv, ClientOK
<1> DEFINE s == rows[t]
           b == client.cap
           k == Len(client.got)
<1>2. b \in 0..progress[t].last_block /\ Paged(s, client) /\ client.got \in Seq(Int)
  BY <1>1 DEF ServingInv, ClientOK
<1>3. RowsOK(s) /\ b \in Int
  BY <1>2 DEF ArchiveInv
<1>4. PICK m \in 0..Len(s) : /\ replay(t, b) = [i \in 1..m |-> s[i]]
                             /\ \A i \in DOMAIN s : s[i].block <= b <=> i <= m
  <2> HIDE DEF b
  <2> QED BY <1>3, ReplayIs
<1>5. Len(s) \in Nat /\ DOMAIN s = 1..Len(s) /\ m \in Nat /\ m <= Len(s)
  <2>1. PICK S : s \in Seq(S)
    BY <1>3 DEF RowsOK
  <2>2. Len(s) \in Nat /\ DOMAIN s = 1..Len(s)
    BY <2>1
  <2> QED BY <2>2
<1>6. k \in Nat /\ DOMAIN client.got = 1..k
  BY <1>2
<1>7. \A i \in DOMAIN client.got : i \in 1..m /\ client.got[i] = s[i].block
  BY <1>2, <1>4, <1>5 DEF Paged
<1>8. k <= m
  <2>1. k = 0 \/ k \in DOMAIN client.got
    BY <1>6
  <2> QED BY <1>5, <1>6, <1>7, <2>1
<1>9. client.done => k = m
  <2> SUFFICES ASSUME client.done, k # m PROVE FALSE
    OBVIOUS
  <2>1. m \in DOMAIN s /\ m > k
    BY <1>5, <1>6, <1>8
  <2>2. s[m].block <= b /\ s[m].block > b /\ s[m].block \in Int
    BY <1>2, <1>3, <1>4, <1>5, <2>1, SqlStoreAssumption DEF Paged, RowsOK
  <2> QED BY <1>3, <2>2
<1> DEFINE all == replay(t, b)
<1>10. Len(all) = m /\ \A i \in 1..m : all[i] = s[i]
  BY <1>4, <1>5
<1> HIDE DEF all, s
<1>11. /\ Len(client.got) <= Len(all)
       /\ \A i \in DOMAIN client.got : client.got[i] = all[i].block
       /\ client.done => Len(client.got) = Len(all)
  BY <1>7, <1>8, <1>9, <1>10
<1> QED BY <1>1, <1>11 DEF PagesAreComplete, all

(* All three invariants at all times.                                      *)
LEMMA ServingAlways == Spec => [](IInv /\ ArchiveInv /\ ServingInv)
<1>1. Init => IInv /\ ArchiveInv /\ ServingInv
  BY InitInv, ArchiveInit, ServingInit DEF Init
<1>2. IInv /\ ArchiveInv /\ ServingInv /\ [Next]_vars => IInv' /\ ArchiveInv' /\ ServingInv'
  <2> SUFFICES ASSUME IInv, ArchiveInv, ServingInv, [Next]_vars
               PROVE  IInv' /\ ArchiveInv' /\ ServingInv'
    OBVIOUS
  <2>1. IInv' /\ ArchiveInv'
    BY StoreStepInv, StoreStepArchive, ServingReads
  <2> QED BY <2>1, ServingStep
<1> QED BY <1>1, <1>2, PTL DEF Spec

(* A client that pages through a table by offset, while any number of      *)
(* writers commit, migrate and restart, has got at all times exactly the   *)
(* first rows up to its cap, and all of them once a page comes back short. *)
THEOREM PagesAlwaysComplete == Spec => []PagesAreComplete
<1>1. ArchiveInv /\ ServingInv => PagesAreComplete
  BY PagesOfReplay
<1> QED BY <1>1, ServingAlways, PTL

(* A 500 that no failed read explains comes from SQLite, and is about a    *)
(* table whose columns an earlier subscription inferred or another binary  *)
(* made, or whose columns SQLite fills with what they do not report; and a *)
(* table /status reported is never answered with 404.                      *)
THEOREM ErrorsHaveCause == Spec => []ErrorHasCause
<1>1. ServingInv => ErrorHasCause
  BY DEF ServingInv, ReplyOK, Culprit, ErrorHasCause
<1> QED BY <1>1, ServingAlways, PTL

-----------------------------------------------------------------------------
(***************************************************************************)
(* The contract of the Store.                                              *)
(***************************************************************************)

(* RowsAt, of any sequence of rows.                                        *)
At(s, k) ==
  LET at == {i \in DOMAIN s : s[i].block = k} IN
    [n \in 1..Cardinality(at) |-> s[CHOOSE i \in at : Cardinality({j \in at : j <= i}) = n].cells]

(* Rows that go upwards have one row at most under a key.                  *)
LEMMA AtIs ==
  ASSUME NEW s, RowsOK(s), NEW k
  PROVE  /\ (\A i \in DOMAIN s : s[i].block # k) => At(s, k) = <<>>
         /\ \A i \in DOMAIN s : s[i].block = k => At(s, k) = <<s[i].cells>>
<1> DEFINE at == {i \in DOMAIN s : s[i].block = k}
           nth(n) == s[CHOOSE i \in at : Cardinality({j \in at : j <= i}) = n].cells
<1>1. At(s, k) = [n \in 1..Cardinality(at) |-> nth(n)]
  BY DEF At
<1>2. ASSUME \A i \in DOMAIN s : s[i].block # k PROVE At(s, k) = <<>>
  <2>1. at = {}
    BY <1>2
  <2> HIDE DEF at, nth
  <2>2. Cardinality(at) = 0
    BY <2>1, FS_EmptySet
  <2> QED BY <1>1, <2>2
<1>3. ASSUME NEW i \in DOMAIN s, s[i].block = k PROVE At(s, k) = <<s[i].cells>>
  <2>1. DOMAIN s \subseteq Nat
    BY DEF RowsOK
  <2>2. ASSUME NEW j \in at PROVE j = i
    <3>1. i < j \/ j < i \/ i = j
      BY <2>1
    <3>2. s[j].block = k /\ k \in 0..MaxI64 /\ MaxI64 \in Nat
      BY <1>3, SqlStoreAssumption DEF RowsOK
    <3> QED BY <1>3, <3>1, <3>2 DEF RowsOK, Ascending
  <2>3. at = {i}
    BY <1>3, <2>2
  <2>4. Cardinality(at) = 1
    BY <2>3, FS_Singleton
  <2>5. {j \in at : j <= i} = at
    BY <2>1, <2>3
  <2>6. (CHOOSE g \in at : Cardinality({j \in at : j <= g}) = 1) = i
    BY <2>3, <2>4, <2>5
  <2>7. nth(1) = s[i].cells
    BY <2>6
  <2> HIDE DEF at, nth
  <2> QED BY <1>1, <2>4, <2>7
<1> QED BY <1>2, <1>3

(* One more row, above the others: its key had none, no other key changes. *)
LEMMA AtNew ==
  ASSUME NEW s, NEW z, RowsOK(s), RowsOK(z), NEW n \in Nat, DOMAIN s = 1..n,
         DOMAIN z = 1..(n + 1), \A i \in 1..n : z[i] = s[i], NEW k, k = z[n + 1].block
  PROVE  /\ At(s, k) = <<>> /\ At(z, k) = <<z[n + 1].cells>>
         /\ \A j : j # k => At(z, j) = At(s, j)
<1>1. n + 1 \in DOMAIN z /\ \A i \in 1..n : i \in DOMAIN z /\ i < n + 1
  OBVIOUS
<1>2. At(z, k) = <<z[n + 1].cells>>
  BY <1>1, AtIs
<1>3. At(s, k) = <<>>
  <2>1. ASSUME NEW i \in DOMAIN s PROVE s[i].block # k
    <3>1. z[i].block < z[n + 1].block /\ z[i].block = s[i].block
      BY <1>1 DEF RowsOK, Ascending
    <3>2. z[i].block \in 0..MaxI64 /\ k \in 0..MaxI64 /\ MaxI64 \in Nat
      BY <1>1, SqlStoreAssumption DEF RowsOK
    <3> QED BY <3>1, <3>2
  <2> QED BY <2>1, AtIs
<1>4. ASSUME NEW j, j # k PROVE At(z, j) = At(s, j)
  <2>1. CASE \E i \in DOMAIN s : s[i].block = j
    <3>1. PICK i \in DOMAIN s : s[i].block = j
      BY <2>1
    <3>2. At(s, j) = <<s[i].cells>>
      BY <3>1, AtIs
    <3>3. i \in DOMAIN z /\ z[i] = s[i]
      BY <1>1
    <3>4. At(z, j) = <<z[i].cells>>
      BY <3>1, <3>3, AtIs
    <3> QED BY <3>2, <3>3, <3>4
  <2>2. CASE \A i \in DOMAIN s : s[i].block # j
    <3>1. At(s, j) = <<>>
      BY <2>2, AtIs
    <3>2. ASSUME NEW i \in DOMAIN z PROVE z[i].block # j
      <4>1. i = n + 1 \/ (i \in DOMAIN s /\ z[i] = s[i])
        OBVIOUS
      <4> QED BY <1>4, <2>2, <4>1
    <3>3. At(z, j) = <<>>
      BY <3>2, AtIs
    <3> QED BY <3>1, <3>3
  <2> QED BY <2>1, <2>2
<1> QED BY <1>2, <1>3, <1>4

(* The stored position after a step.                                       *)
LEMMA StoredPrimed ==
  ASSUME ArchiveInv', NEW t \in Tables
  PROVE  stored_position(t)' = progress'[t].last_block
<1>1. ProgressOK(progress'[t], rows'[t])
  BY ArchivePrimed
<1>2. CASE progress'[t] = NoRow
  BY <1>2 DEF stored_position, NoRow
<1>3. CASE progress'[t] # NoRow
  BY <1>1, <1>3, Texts DEF ProgressOK, stored_position, resume_from_last_block
<1> QED BY <1>2, <1>3

(* A step that adds one row to a table and moves its progress row to it is *)
(* a write of the contract.                                                *)
LEMMA OneRowIsWrite ==
  ASSUME ArchiveInv, ArchiveInv', NEW t \in Tables, NEW n \in Nat, DOMAIN rows[t] = 1..n,
         DOMAIN rows'[t] = 1..(n + 1), \A i \in 1..n : rows'[t][i] = rows[t][i],
         NEW k, k = rows'[t][n + 1].block, progress'[t].last_block = k,
         k > progress[t].last_block
  PROVE  /\ k \in (stored_position(t) + 1)..MaxKey
         /\ contract(t)!write(k, RowsAt(t, k)') /\ RowsAt(t, k)' # <<>>
<1>1. RowsOK(rows[t]) /\ RowsOK(rows'[t]) /\ ProgressOK(progress[t], rows[t])
  BY ArchivePrimed DEF ArchiveInv
<1>2. stored_position(t) = progress[t].last_block /\ stored_position(t)' = k
  BY StoredIs, StoredPrimed
<1>3. progress[t].last_block \in -1..MaxI64 /\ MaxI64 \in Nat /\ MaxKey \in Nat /\ MaxI64 < MaxKey
  BY <1>1, LastBlock, SqlStoreAssumption
<1>4. n + 1 \in DOMAIN rows'[t] /\ k \in 0..MaxI64
  BY <1>1 DEF RowsOK
<1>5. k \in (stored_position(t) + 1)..MaxKey
  BY <1>2, <1>3, <1>4
<1>6. /\ At(rows[t], k) = <<>> /\ At(rows'[t], k) = <<rows'[t][n + 1].cells>>
      /\ \A j : j # k => At(rows'[t], j) = At(rows[t], j)
  <2> DEFINE s == rows[t]
             z == rows'[t]
  <2>1. /\ RowsOK(s) /\ RowsOK(z) /\ DOMAIN s = 1..n /\ DOMAIN z = 1..(n + 1)
        /\ \A i \in 1..n : z[i] = s[i]
        /\ k = z[n + 1].block
    BY <1>1
  <2> HIDE DEF s, z
  <2>2. /\ At(s, k) = <<>> /\ At(z, k) = <<z[n + 1].cells>>
        /\ \A j : j # k => At(z, j) = At(s, j)
    BY <2>1, AtNew
  <2> QED BY <2>2 DEF s, z
<1>7. \A j : RowsAt(t, j) = At(rows[t], j) /\ RowsAt(t, j)' = At(rows'[t], j)
  BY DEF RowsAt, At
<1> DEFINE c == rows'[t][n + 1].cells
<1> HIDE DEF c
<1>8. RowsAt(t, k)' = <<c>> /\ RowsAt(t, k) = <<>>
  BY <1>6, <1>7 DEF c
<1>9. \A j : j # k => RowsAt(t, j)' = RowsAt(t, j)
  BY <1>6, <1>7
<1>10. contract(t)!insert_rows(k, RowsAt(t, k)')
  <2> DEFINE T == [j \in 0..MaxKey |-> RowsAt(t, j)]
             U == [j \in 0..MaxKey |-> RowsAt(t, j)']
  <2>1. k \in 0..MaxKey /\ T[k] = <<>> /\ <<>> \o <<c>> = <<c>>
    BY <1>3, <1>4, <1>8
  <2>2. U = [T EXCEPT ![k] = @ \o RowsAt(t, k)']
    BY <1>8, <1>9, <2>1
  <2> QED BY <2>2 DEF contract!insert_rows
<1>11. contract(t)!advance_watermark(k)
  BY <1>2, <1>3, <1>4 DEF contract!advance_watermark, contract!advance
<1> QED BY <1>5, <1>8, <1>10, <1>11 DEF contract!write

(* Every step of the store leaves a table and its stored position alone,   *)
(* or is a write of the contract.                                          *)
Contracted(t) ==
  \/ UNCHANGED <<rows[t], stored_position(t)>> /\ ~Acknowledged(t)
  \/ \E k \in (stored_position(t) + 1)..MaxKey :
       /\ contract(t)!write(k, RowsAt(t, k)') /\ RowsAt(t, k)' # <<>>
       /\ Acknowledged(t) => k = batch[t].position

LEMMA UntouchedContracted ==
  ASSUME ArchiveInv, ArchiveInv', NEW t \in Tables, rows'[t] = rows[t],
         progress'[t].last_block = progress[t].last_block, ~Acknowledged(t)
  PROVE  Contracted(t)
<1>1. stored_position(t) = progress[t].last_block /\ stored_position(t)' = progress'[t].last_block
  BY StoredIs, StoredPrimed
<1> QED BY <1>1 DEF Contracted

LEMMA StoreContracted ==
  ASSUME IInv, ArchiveInv, [StoreNext]_storeVars, NEW u \in Tables
  PROVE  Contracted(u)
<1>1. ArchiveInv'
  BY StoreStepArchive
<1>2. ASSUME UNCHANGED dbVars, ~Acknowledged(u) PROVE Contracted(u)
  BY <1>1, <1>2, UntouchedContracted DEF dbVars
<1>3. CASE restart
  <2>1. pc'[u] = "down" /\ UNCHANGED dbVars
    BY <1>3 DEF restart, EndStreams
  <2> QED BY <1>2, <2>1 DEF Acknowledged
<1>4. ASSUME NEW t \in Tables, Write(t) PROVE Contracted(u)
  <2>1. pc = [v \in Tables |-> pc[v]] /\ rows = [v \in Tables |-> rows[v]]
        /\ progress = [v \in Tables |-> progress[v]]
    BY DEF IInv, StoreTypeOK, ArchiveInv
  <2>2. CASE commit(t)
    <3>1. /\ pc[t] = "commit" /\ (Committed(t) \/ UNCHANGED dbVars)
          /\ pc' = [pc EXCEPT ![t] = "idle"] \/ pc' = [pc EXCEPT ![t] = "halted"]
          /\ pc' = [pc EXCEPT ![t] = "idle"] => Committed(t)
      <4>1. [pc EXCEPT ![t] = "idle"] # [pc EXCEPT ![t] = "halted"]
        <5>1. [pc EXCEPT ![t] = "idle"][t] = "idle" /\ [pc EXCEPT ![t] = "halted"][t] = "halted"
          BY <2>1
        <5> QED BY <5>1
      <4> QED BY <2>2, <4>1 DEF commit, Halted
    <3>2. Acknowledged(u) => u = t /\ Committed(t)
      BY <2>1, <3>1 DEF Acknowledged
    <3>3. CASE Committed(t) /\ u = t
      <4> DEFINE p == batch[t].position
      <4>1. rows' = [rows EXCEPT ![t] = Append(@, NewRow(t))]
        BY <3>3 DEF Committed, NewRow
      <4>2. progress'[t] = advance_watermark(t)
        BY <2>1, <3>3 DEF Committed
      <4>3. /\ progress'[t].last_block = p /\ p > progress[t].last_block
        BY <3>1, <4>2, AdvanceIs
      <4>4. /\ DOMAIN rows'[t] = 1..(Len(rows[t]) + 1) /\ DOMAIN rows[t] = 1..Len(rows[t])
            /\ Len(rows[t]) \in Nat /\ \A i \in DOMAIN rows[t] : rows'[t][i] = rows[t][i]
            /\ rows'[t][Len(rows[t]) + 1] = NewRow(t) /\ NewRow(t).block = p
        BY <2>1, <3>1, <4>1, CommitRows DEF NewRow
      <4>5. /\ p \in (stored_position(t) + 1)..MaxKey
            /\ \E k : k = p /\ contract(t)!write(k, RowsAt(t, k)') /\ RowsAt(t, k)' # <<>>
        <5> HIDE DEF p
        <5>1. PICK k : k = p
          OBVIOUS
        <5>2. /\ k \in (stored_position(t) + 1)..MaxKey
              /\ contract(t)!write(k, RowsAt(t, k)') /\ RowsAt(t, k)' # <<>>
          BY <1>1, <4>3, <4>4, <5>1, OneRowIsWrite
        <5> QED BY <5>1, <5>2
      <4> QED BY <3>3, <4>5 DEF Contracted
    <3>4. CASE Committed(t) /\ u # t
      <4>1. rows'[u] = rows[u]
        BY <2>1, <3>4 DEF Committed
      <4>2. progress'[u] = progress[u] \/ progress'[u] = backfill_position(progress[u])
        BY <2>1, <3>4 DEF Committed
      <4>3. progress'[u].last_block = progress[u].last_block
        BY <4>2, MovedOK DEF ArchiveInv
      <4> QED BY <1>1, <3>2, <3>4, <4>1, <4>3, UntouchedContracted
    <3> QED BY <1>2, <3>1, <3>2, <3>3, <3>4
  <2>3. CASE old_binary_write(t)
    <3> DEFINE r == [block |-> 0, cells |-> [f \in Fields |-> "Null"]]
    <3>1. /\ progress[t] = NoRow /\ pc' = pc
          /\ progress' = [progress EXCEPT ![t] = [last_block |-> 0, position |-> Null]]
          /\ rows' = [rows EXCEPT ![t] = <<r>>]
      BY <2>3 DEF old_binary_write, memVars
    <3>2. ~Acknowledged(u)
      BY <3>1 DEF Acknowledged
    <3>3. CASE u = t
      <4>1. rows[t] = <<>> /\ progress[t].last_block = -1 /\ progress'[t].last_block = 0
        BY <2>1, <3>1, Texts DEF ArchiveInv, ProgressOK
      <4>2. rows'[t] = <<r>> /\ r.block = 0
        BY <2>1, <3>1
      <4> HIDE DEF r
      <4>3. DOMAIN rows[t] = 1..0 /\ DOMAIN rows'[t] = 1..(0 + 1) /\ rows'[t][0 + 1] = r
        BY <4>1, <4>2
      <4>4. /\ 0 \in (stored_position(t) + 1)..MaxKey
            /\ contract(t)!write(0, RowsAt(t, 0)') /\ RowsAt(t, 0)' # <<>>
        <5>1. PICK n, k : n = 0 /\ k = 0
          OBVIOUS
        <5>2. /\ DOMAIN rows[t] = 1..n /\ DOMAIN rows'[t] = 1..(n + 1) /\ n \in Nat
              /\ \A i \in 1..n : rows'[t][i] = rows[t][i]
              /\ k = rows'[t][n + 1].block /\ progress'[t].last_block = k
              /\ k > progress[t].last_block
          BY <4>1, <4>2, <4>3, <5>1
        <5>3. /\ k \in (stored_position(t) + 1)..MaxKey
              /\ contract(t)!write(k, RowsAt(t, k)') /\ RowsAt(t, k)' # <<>>
          BY <1>1, <5>2, OneRowIsWrite
        <5> QED BY <5>1, <5>3
      <4> QED BY <3>2, <3>3, <4>4 DEF Contracted
    <3>4. CASE u # t
      <4>1. rows'[u] = rows[u] /\ progress'[u] = progress[u]
        BY <2>1, <3>1, <3>4
      <4> QED BY <1>1, <3>2, <4>1, UntouchedContracted
    <3> QED BY <3>3, <3>4
  <2>4. CASE stream_ends(t)
    <3>1. UNCHANGED dbVars /\ pc'[u] \in {pc[u], "down"}
      BY <2>4 DEF stream_ends, EndStreams
    <3> QED BY <1>2, <3>1 DEF Acknowledged
  <2>5. CASE ~commit(t) /\ ~old_binary_write(t) /\ ~stream_ends(t)
    <3>1. UNCHANGED dbVars
      BY <1>4, <2>5 DEF Write, subscribe, start_write, create_tables, create_resumes,
         migrate_if_needed, add_position_column, insert_rows, statement_fails
    <3>2. ~Acknowledged(u)
      <4>1. \/ subscribe(t) /\ pc[t] = "down"
            \/ pc' = pc
            \/ \E q \in Steps \ {"idle"} : pc' = [pc EXCEPT ![t] = q]
        <5> DEFINE Turned == \E q \in Steps \ {"idle"} : pc' = [pc EXCEPT ![t] = q]
        <5>1. CASE subscribe(t)
          BY <5>1 DEF subscribe
        <5>2. CASE start_write(t)
          BY <5>2 DEF start_write, Halted, Steps
        <5>3. CASE create_tables(t) \/ migrate_if_needed(t)
          BY <5>3 DEF create_tables, migrate_if_needed, Steps, Open
        <5>4. RaceLost(t) => Turned
          BY DEF RaceLost, Halted, Steps
        <5>5. CASE create_resumes(t) \/ add_position_column(t)
          BY <5>4, <5>5 DEF create_resumes, add_position_column, Steps, Open
        <5>6. CASE insert_rows(t) \/ statement_fails(t)
          BY <5>6 DEF insert_rows, statement_fails, Halted, Steps, Open
        <5> QED BY <1>4, <2>5, <5>1, <5>2, <5>3, <5>5, <5>6 DEF Write
      <4> QED BY <2>1, <4>1 DEF Acknowledged, subscribe
    <3> QED BY <1>2, <3>1, <3>2
  <2> QED BY <2>2, <2>3, <2>4, <2>5
<1>5. CASE UNCHANGED storeVars
  <2>1. UNCHANGED dbVars /\ pc' = pc
    BY <1>5 DEF storeVars, memVars
  <2> QED BY <1>2, <2>1 DEF Acknowledged
<1> QED BY <1>3, <1>4, <1>5 DEF StoreNext

(* For any number of tables on either backend, what several statements, a  *)
(* retry, a migration or a lost commit do to a table is one atomic write   *)
(* of the contract the writers were verified against, or nothing; and Ok   *)
(* means that the writer's own group was written.                          *)
THEOREM SqlImplementsStore == Spec => StoreContract
<1>1. IInv /\ ArchiveInv /\ [Next]_vars => [\A t \in Tables : Contracted(t)]_storeVars
  BY StoreContracted, ServingReads
<1>2. Spec => [][Next]_vars
  BY DEF Spec
<1> QED BY <1>1, <1>2, ArchiveAlways, PTL DEF StoreContract, Contracted

-----------------------------------------------------------------------------
(***************************************************************************)
(* Block positions.                                                        *)
(***************************************************************************)

(* Block positions keep the laws of the Position trait (position.rs): the  *)
(* fold never regresses and covers what was folded in; what is covered     *)
(* changes nothing; nothing covered is forgotten; the order of folds does  *)
(* not matter; and a resume from a stored position, which saturates at the *)
(* end of the key space, reads everything that is not covered.             *)
THEOREM BlockPositionLaws ==
  ASSUME NEW w \in pos!BlockPositions, NEW p \in pos!BlockPositions, NEW q \in pos!BlockPositions
  PROVE  /\ pos!sort_key(w) <= pos!sort_key(pos!advance(w, p))
         /\ pos!contains(pos!advance(w, p), p)
         /\ pos!contains(w, p) <=> pos!advance(w, p) = w
         /\ pos!contains(w, p) => pos!contains(pos!advance(w, q), p)
         /\ pos!advance(pos!advance(w, p), q) = pos!advance(w, pos!advance(p, q))
         /\ ~pos!contains(w, p) => pos!resume_key(w) <= pos!sort_key(p)
<1>1. MaxKey \in Nat
  BY SqlStoreAssumption
<1>2. /\ pos!sort_key(w) <= pos!sort_key(pos!advance(w, p))
      /\ pos!contains(pos!advance(w, p), p)
      /\ pos!contains(w, p) <=> pos!advance(w, p) = w
  BY <1>1 DEF pos!BlockPositions, pos!None, pos!sort_key, pos!advance, pos!contains
<1>3. pos!contains(w, p) => pos!contains(pos!advance(w, q), p)
  BY <1>1 DEF pos!BlockPositions, pos!None, pos!advance, pos!contains
<1>4. pos!advance(pos!advance(w, p), q) = pos!advance(w, pos!advance(p, q))
  BY <1>1 DEF pos!BlockPositions, pos!None, pos!advance
<1>5. ~pos!contains(w, p) => pos!resume_key(w) <= pos!sort_key(p)
  BY <1>1 DEF pos!BlockPositions, pos!contains, pos!resume_key, pos!sort_key
<1> QED BY <1>2, <1>3, <1>4, <1>5
=============================================================================
