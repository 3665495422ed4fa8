------------------------------ MODULE Serving ------------------------------
(***************************************************************************)
(* The read-only HTTP layer (src/serving/) over an archive that is being   *)
(* written: ServingLayer from its start to its graceful shutdown, and the  *)
(* handlers, of which one request at a time is followed.  Each read of the *)
(* database is a step of its own, on a connection of the layer's own pool, *)
(* and sees what is committed.                                             *)
(*                                                                         *)
(* The client reads /status and then pages through one table up to the     *)
(* block reported for it, by offset, until a page comes back short.        *)
(***************************************************************************)
EXTENDS SqlStore

CONSTANTS
  Limits,         \* what a client sends as limit: numbers, None, Invalid
  default_limit,
  max_limit

Invalid == -2

NoTable == "-"

ASSUME ServingAssumption ==
  /\ NoTable \notin Tables
  /\ default_limit \in Nat /\ max_limit \in Nat
  /\ Limits \subseteq Nat \cup {None, Invalid}

VARIABLES
  layer,    \* "new", "up", "draining", "stopped"
  request,  \* the request being handled, or NoRequest
  reply,    \* the last response, when it was an error about a table
  client    \* the table being paged, its cap, the blocks got, whether done

servingVars == <<layer, request, reply, client>>
vars == <<storeVars, servingVars>>

NoRequest == [route |-> "none", table |-> NoTable, bounds |-> [limit |-> 0, offset |-> 0]]
Ok == [code |-> 200, table |-> NoTable]
NoClient == [table |-> NoTable, cap |-> None, got |-> <<>>, done |-> FALSE]

-----------------------------------------------------------------------------
(* The layer.                                                              *)

Sources == {"postgres_url", "injected_pool", "sqlite_url", "bare_path", "memory", "other_scheme"}

(* The backend a source selects.                                           *)
build_backend(source) ==
  CASE source \in {"postgres_url", "injected_pool"} -> "postgres"
    [] source \in {"sqlite_url", "bare_path"}       -> "sqlite"
    [] OTHER                                        -> "error"

(* serve: the backend opens and the address binds, or the layer never      *)
(* runs.  An injected pool opens without a round trip.                     *)
serve(source) ==
  /\ layer = "new"
  /\ build_backend(source) \in {dialect, "error"}
  /\ \/ build_backend(source) = dialect /\ layer' = "up"
     \/ build_backend(source) = "error" /\ layer' = "stopped"
     \/ DbFails /\ layer' = "stopped"
  /\ UNCHANGED <<storeVars, request, reply, client>>

(* The token is cancelled: no new request, the one in flight is finished.  *)
shutdown ==
  /\ layer = "up" /\ request # NoRequest
  /\ layer' = "draining"
  /\ UNCHANGED <<storeVars, request, reply, client>>

(* Nothing in flight is left.                                              *)
drained ==
  /\ layer \in {"up", "draining"} /\ request = NoRequest
  /\ layer' = "stopped"
  /\ reply' = Ok
  /\ client' = NoClient
  /\ UNCHANGED <<storeVars, request>>

-----------------------------------------------------------------------------
(* The catalog and the queries.                                            *)

table_exists(t) == columns[t] # NoColumns

table_columns(t) == [c \in DOMAIN columns[t] |-> normalize_type(columns[t][c])]

(* A missing progress table is an empty list, not an error.                *)
watermarks == {t \in Tables : progress[t] # NoRow}

MinOf(a, b) == IF a < b THEN a ELSE b
Clamp(x, lo, hi) == IF x < lo THEN lo ELSE MinOf(x, hi)

(* RowsQueryParams::resolve.  No table has so many rows that the clamp of  *)
(* the offset to i64::MAX would bite.  Mutant: the limit reported is the   *)
(* one that was asked for.                                                 *)
resolve_echoes(limit, offset) ==
  [limit |-> IF limit = None THEN default_limit ELSE limit, offset |-> offset]
resolve(limit, offset) ==
  [limit |-> Clamp(IF limit = None THEN default_limit ELSE limit, 1, Clamp(max_limit, 1, MaxI64)),
   offset |-> offset]

(* range_query: LIMIT and OFFSET over the rows up to the cap, by block.    *)
range_query(t, to_block, bounds) ==
  LET all == replay(t, MinOf(to_block, MaxI64))
      page == MinOf(bounds.limit, Clamp(max_limit, 1, MaxI64))
  IN  SubSeq(all, bounds.offset + 1, MinOf(bounds.offset + page, Len(all)))

row_to_json(t, row) == \A c \in DOMAIN row.cells : cell_to_json(table_columns(t)[c], row.cells[c])

-----------------------------------------------------------------------------
(* The handlers.                                                           *)

Accepting == layer = "up" /\ request = NoRequest

(* An error that is about no table is not told from Ok.                    *)
Answer(code, t) == reply' = IF t = NoTable THEN Ok ELSE [code |-> code, table |-> t]

(* Any read may fail: 503 from the health probe, else 500, which is about  *)
(* no table.  The client gives up.                                         *)
ReadFails(code) ==
  /\ DbFails
  /\ Answer(code, NoTable)
  /\ client' = NoClient

get_health_handler ==
  /\ Accepting
  /\ \/ reply' = Ok /\ UNCHANGED client
     \/ ReadFails(503)
  /\ UNCHANGED <<storeVars, layer, request>>

list_tables_handler ==
  /\ Accepting
  /\ \/ reply' = Ok /\ UNCHANGED client
     \/ ReadFails(500)
  /\ UNCHANGED <<storeVars, layer, request>>

(* /status, from which the client takes a table and its cap.               *)
get_status_handler ==
  /\ Accepting
  /\ \/ /\ reply' = Ok
        /\ \/ /\ watermarks = {}
              /\ UNCHANGED client
           \/ \E t \in watermarks :
                client' = [NoClient EXCEPT !.table = t, !.cap = progress[t].last_block]
     \/ ReadFails(500)
  /\ UNCHANGED <<storeVars, layer, request>>

(* The existence check of the two table routes, and the bounds.            *)
check_table(route, t, limit) ==
  /\ Accepting
  /\ \/ /\ table_exists(t) /\ limit # Invalid
        /\ request' = [route |-> route, table |-> t, bounds |-> resolve(limit, Len(client.got))]
        /\ reply' = Ok
        /\ UNCHANGED client
     \/ /\ table_exists(t) /\ limit = Invalid
        /\ Answer(400, NoTable)
        /\ UNCHANGED <<request, client>>
     \/ ~table_exists(t) /\ Answer(404, t) /\ UNCHANGED <<request, client>>
     \/ ReadFails(500) /\ UNCHANGED request
  /\ UNCHANGED <<storeVars, layer>>

get_schema_handler ==
  /\ request.route = "schema"
  /\ \/ reply' = Ok /\ UNCHANGED client
     \/ ReadFails(500)
  /\ request' = NoRequest
  /\ UNCHANGED <<storeVars, layer>>

(* The columns of a table never change: they are read with its rows.       *)
query_rows_handler ==
  LET t == request.table
      page == range_query(t, client.cap, request.bounds)
  IN  /\ request.route = "rows"
      /\ \/ /\ \A i \in DOMAIN page : row_to_json(t, page[i])
            /\ reply' = Ok
            /\ client' = [client EXCEPT
                 !.got = @ \o [i \in DOMAIN page |-> page[i].block],
                 !.done = Len(page) < request.bounds.limit]
         \/ /\ \E i \in DOMAIN page : ~row_to_json(t, page[i])
            /\ Answer(500, t)
            /\ client' = NoClient
         \/ ReadFails(500)
      /\ request' = NoRequest
      /\ UNCHANGED <<storeVars, layer>>

Handle ==
  \/ get_health_handler \/ list_tables_handler \/ get_status_handler
  \/ client = NoClient /\ \E t \in Tables : check_table("schema", t, None)
  \/ client.table # NoTable /\ ~client.done
       /\ \E limit \in Limits : check_table("rows", client.table, limit)
  \/ get_schema_handler \/ query_rows_handler

Init ==
  /\ StoreInit
  /\ layer = "new"
  /\ request = NoRequest
  /\ reply = Ok
  /\ client = NoClient

Next ==
  \/ StoreNext /\ UNCHANGED servingVars
  \/ \E source \in Sources : serve(source)
  \/ shutdown \/ drained \/ Handle

Spec == Init /\ [][Next]_vars

-----------------------------------------------------------------------------
(* Properties.                                                             *)

(* A client that pages by offset while the writers commit gets every row   *)
(* up to the block /status reported, once, in order; and when a page comes *)
(* back shorter than the limit it names, there are no more.                *)
PagesAreComplete ==
  client.table # NoTable =>
    LET all == replay(client.table, client.cap) IN
      /\ Len(client.got) <= Len(all)
      /\ \A i \in DOMAIN client.got : client.got[i] = all[i].block
      /\ client.done => Len(client.got) = Len(all)

(* A table of SQLite with a column that holds what it does not report: a   *)
(* NUMERIC or BLOB one, text in a REAL one, a float in an INTEGER one.     *)
Misread(t) ==
  /\ dialect = "sqlite"
  /\ \E c \in DOMAIN columns[t] :
       \/ columns[t][c] \in {"Numeric", "Blob"}
       \/ columns[t][c] = "Real" /\ FieldKinds[t] \cap {"string", "nested"} # {}
       \/ columns[t][c] = "Integer" /\ "real" \in FieldKinds[t]

(* A 500 without a failed read comes only from SQLite, and there only from *)
(* a table whose columns an earlier subscription inferred or another       *)
(* binary made, or from one that SQLite makes hold what its columns do not *)
(* report; and a table /status reported is never unknown.                  *)
ErrorHasCause ==
  /\ reply.code = 500 /\ reply.table # NoTable =>
       dialect = "sqlite" /\ (reply.table \in foreign \/ Misread(reply.table))
  /\ reply.code = 404 => reply.table # client.table
=============================================================================
