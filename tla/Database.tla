------------------------------ MODULE Database ------------------------------
(***************************************************************************)
(* The programs that share the table: any number of `generate` processes   *)
(* inserting rows one statement at a time, and one query: getColumns of    *)
(* `final`, then, after it was compiled, data_retrieval of `result`.  Both *)
(* read through SQLConn::fetch and a ResultSet.  In between somebody may   *)
(* alter the table, and connections may be lost.                           *)
(***************************************************************************)
EXTENDS ResultSet, SequencesExt, FiniteSetsExt

CONSTANTS
  Generators,         \* processes of generate
  EntryCounts,        \* 3000, or atoi of the argument
  GeneratedRows,      \* what rand() makes of a row
  Schemas,            \* the columns the table may have: sequences of [name, type]
  MaxAlters,          \* bound: ALTER TABLE statements
  Where               \* what the WHERE text asks of a row: values of some columns

VARIABLES
  table, schema, alters,    \* on the server
  gpc, entries, i,          \* generate: its loop
  inserted,                 \* history: rows the server added for it
  phase, rpc,               \* "columns" or "rows", and where the query is in it
  columns,                  \* what getColumns returned
  todo, entry, data         \* the columns not read yet of the row, the row, the rows

genvars == <<gpc, entries, i, inserted>>
servervars == <<table, schema, alters>>
readvars == <<phase, rpc, columns, todo, entry, data>>
vars == <<rsvars, servervars, genvars, readvars>>

Names(s) == {s[j].name : j \in DOMAIN s}

\* Nobody drops a column that WHERE names.
ASSUME WhereAssumption == \A w \in Where, s \in Schemas : DOMAIN w \subseteq Names(s)

Column == [name : IntColumns \cup TextColumns, type : {"int", "text"}]

\* A column's type, which ALTER TABLE keeps, says how it is read; its name and
\* its type are never NULL.
ASSUME SchemaAssumption ==
  /\ Schemas \subseteq Seq(Column)
  /\ \A s \in Schemas : \A j \in DOMAIN s :
       /\ s[j].name \in IF s[j].type = "int" THEN IntColumns ELSE TextColumns
       /\ Null \notin {s[j].name, s[j].type}
  /\ IntColumns \cap TextColumns = {}
  /\ {"COLUMN_NAME", "DATA_TYPE"} \subseteq TextColumns

ASSUME GeneratorAssumption == IsFiniteSet(Generators) /\ EntryCounts \subseteq Int

Init ==
  /\ table = <<>> /\ schema \in Schemas /\ alters = 0
  /\ gpc = [g \in Generators |-> "idle"] /\ entries = [g \in Generators |-> 0]
  /\ i = [g \in Generators |-> 0] /\ inserted = [g \in Generators |-> 0]
  /\ phase = "columns" /\ rpc = "connect" /\ columns = <<>>
  /\ todo = <<>> /\ entry = <<>> /\ data = <<>>
  /\ stored = <<>> /\ is_open = FALSE /\ connected = FALSE
  /\ row_position = 0 /\ data_cursor = 0 /\ row = 0
  /\ last_queried_column = NoColumn /\ was_null = FALSE
  /\ call = "none" /\ arg = NoArg /\ ret = "void" /\ got = [type |-> "none"]

-----------------------------------------------------------------------------
(***************************************************************************)
(* generate                                                                *)
(***************************************************************************)
GenerateStart(g) ==
  /\ gpc[g] = "idle"
  /\ \E n \in EntryCounts : entries' = [entries EXCEPT ![g] = n]
  /\ gpc' = [gpc EXCEPT ![g] = "inserting"]
  /\ UNCHANGED <<i, inserted, servervars, readvars, rsvars>>

NamedColumnsOnly_Mutant(r, s) == r

\* A row of the table: NULL where generate names no column.
Fitted(r, s) == [c \in Names(s) |-> IF c \in DOMAIN r THEN r[c] ELSE Null]

\* Rows holds the rows of the tables and of information_schema.COLUMNS.
ASSUME TableAssumption ==
  /\ \A r \in Rows \cup GeneratedRows, s \in Schemas : Fitted(r, s) \in Rows
  /\ \A s \in Schemas : \A j \in DOMAIN s :
       [COLUMN_NAME |-> s[j].name, DATA_TYPE |-> s[j].type] \in Rows

ServerInserts(g) ==
  /\ \E r \in GeneratedRows :
       /\ DOMAIN r \subseteq Names(schema)
       /\ table' = Append(table, Fitted(r, schema))
  /\ inserted' = [inserted EXCEPT ![g] = @ + 1]

\* SQLConn::execute returns.
Insert(g) ==
  /\ gpc[g] = "inserting" /\ i[g] < entries[g]
  /\ ServerInserts(g)
  /\ i' = [i EXCEPT ![g] = @ + 1]
  /\ UNCHANGED <<gpc, entries, schema, alters, readvars, rsvars>>

TriesAgain_Mutant(g) ==
  /\ gpc[g] = "inserting" /\ i[g] < entries[g] /\ inserted[g] < 3
  /\ ServerInserts(g)
  /\ UNCHANGED <<gpc, i, entries, schema, alters, readvars, rsvars>>

\* The row is inserted, the answer is lost: execute throws, nobody catches.
InsertLost(g) ==
  /\ gpc[g] = "inserting" /\ i[g] < entries[g]
  /\ ServerInserts(g)
  /\ gpc' = [gpc EXCEPT ![g] = "aborted"]
  /\ UNCHANGED <<i, entries, schema, alters, readvars, rsvars>>

\* No connection, or the statement fails.
GenerateThrows(g) ==
  /\ gpc[g] = "inserting"
  /\ gpc' = [gpc EXCEPT ![g] = "aborted"]
  /\ UNCHANGED <<i, entries, inserted, servervars, readvars, rsvars>>

GenerateEnd(g) ==
  /\ gpc[g] = "inserting" /\ i[g] >= entries[g]
  /\ gpc' = [gpc EXCEPT ![g] = "done"]
  /\ UNCHANGED <<i, entries, inserted, servervars, readvars, rsvars>>

Generate(g) ==
  \/ GenerateStart(g) \/ Insert(g) \/ InsertLost(g) \/ GenerateThrows(g) \/ GenerateEnd(g)

\* ALTER TABLE by somebody else.
AlterTable ==
  /\ alters < MaxAlters
  /\ alters' = alters + 1
  /\ schema' \in Schemas \ {schema}
  /\ table' = [j \in DOMAIN table |-> Fitted(table[j], schema')]
  /\ UNCHANGED <<genvars, readvars, rsvars>>

-----------------------------------------------------------------------------
(***************************************************************************)
(* The loops `while(res->next()){ ... push_back(...); }` of getColumns and *)
(* of the generated program.                                               *)
(***************************************************************************)
Idle == UNCHANGED <<genvars, servervars>>

MetaColumns == <<[name |-> "COLUMN_NAME", type |-> "text"], [name |-> "DATA_TYPE", type |-> "text"]>>

\* new SQLConn(database)
Connect ==
  /\ rpc = "connect" /\ rpc' = "fetch"
  /\ connected' = TRUE
  /\ UNCHANGED <<phase, columns, todo, entry, data, stored, is_open, row_position, data_cursor, row,
                 last_queried_column, was_null, call, arg, ret, got>> /\ Idle

\* An SQLException of connect, setSchema or executeQuery.
ReaderThrows ==
  /\ rpc \in {"connect", "fetch"} /\ rpc' = "aborted"
  /\ UNCHANGED <<phase, columns, todo, entry, data, rsvars>> /\ Idle

Satisfies(r) == \E w \in Where : \A c \in DOMAIN w : r[c] = w[c]

\* The rows of t that WHERE keeps, in their order.
SelectedFrom(t) ==
  LET upTo[n \in 0 .. Len(t)] ==
        IF n = 0 THEN <<>>
        ELSE IF Satisfies(t[n]) THEN Append(upTo[n - 1], t[n]) ELSE upTo[n - 1]
  IN  upTo[Len(t)]

Selected == SelectedFrom(table)

\* A row of information_schema.COLUMNS for each column.
ColumnRows ==
  [j \in DOMAIN schema |-> [COLUMN_NAME |-> schema[j].name, DATA_TYPE |-> schema[j].type]]

WhereDropped_Mutant ==
  /\ rpc = "fetch" /\ rpc' = "next"
  /\ Constructed(IF phase = "columns" THEN ColumnRows ELSE table)
  /\ data' = <<>>
  /\ UNCHANGED <<connected, phase, columns, todo, entry>> /\ Idle

\* SQLConn::fetch: the statement is deleted, the result has been stored.
Fetch ==
  /\ rpc = "fetch" /\ rpc' = "next"
  /\ Constructed(IF phase = "columns" THEN ColumnRows ELSE Selected)
  /\ data' = <<>>
  /\ UNCHANGED <<connected, phase, columns, todo, entry>> /\ Idle

NextRow ==
  /\ rpc = "next"
  /\ next
  /\ rpc' = CASE ret' = "true"  -> "cells"
              [] ret' = "false" -> "read"
              [] OTHER          -> "aborted"
  /\ todo' = IF phase = "columns" THEN MetaColumns ELSE columns
  /\ entry' = <<>>
  /\ UNCHANGED <<phase, columns, data>> /\ Idle

SameColumnAgain_Mutant ==
  /\ rpc = "cells" /\ todo # <<>>
  /\ LET c == Head(todo)
     IN  /\ IF c.type = "int" THEN getInt(c.name) ELSE getString(c.name)
         /\ UNCHANGED <<rpc, entry, todo>>
  /\ UNCHANGED <<phase, columns, data>> /\ Idle

\* entry->column = value
WithCell(e, c, v) == [x \in DOMAIN e \cup {c} |-> IF x = c THEN v ELSE e[x]]

\* entry->column = res->getX("column")
Cell ==
  /\ rpc = "cells" /\ todo # <<>>
  /\ LET c == Head(todo)
     IN  /\ IF c.type = "int" THEN getInt(c.name) ELSE getString(c.name)
         /\ rpc' = IF ret' = "value" THEN "cells" ELSE "aborted"
         /\ entry' = IF ret' = "value" THEN WithCell(entry, c.name, got'.value) ELSE entry
  /\ todo' = Tail(todo)
  /\ UNCHANGED <<phase, columns, data>> /\ Idle

LastRowOnly_Mutant ==
  /\ rpc = "cells" /\ todo = <<>>
  /\ data' = <<entry>>
  /\ rpc' = "next"
  /\ UNCHANGED <<phase, columns, todo, entry, rsvars>> /\ Idle

PushBack ==
  /\ rpc = "cells" /\ todo = <<>>
  /\ data' = Append(data, entry)
  /\ rpc' = "next"
  /\ UNCHANGED <<phase, columns, todo, entry, rsvars>> /\ Idle

OneColumnShort_Mutant ==
  /\ phase = "columns" /\ rpc = "read"
  /\ columns' = [j \in 1 .. Len(data) - 1 |-> [name |-> data[j].COLUMN_NAME, type |-> data[j].DATA_TYPE]]
  /\ connected' = FALSE /\ is_open' = FALSE
  /\ phase' = "rows" /\ rpc' = "connect"
  /\ UNCHANGED <<todo, entry, data, stored, row_position, data_cursor, row,
                 last_queried_column, was_null, call, arg, ret, got>> /\ Idle

\* delete conn; delete res; and result.cpp is generated, compiled and started.
ColumnsRead ==
  /\ phase = "columns" /\ rpc = "read"
  /\ columns' = [j \in DOMAIN data |-> [name |-> data[j].COLUMN_NAME, type |-> data[j].DATA_TYPE]]
  /\ connected' = FALSE /\ is_open' = FALSE
  /\ phase' = "rows" /\ rpc' = "connect"
  /\ UNCHANGED <<todo, entry, data, stored, row_position, data_cursor, row,
                 last_queried_column, was_null, call, arg, ret, got>> /\ Idle

\* delete res; the scans follow.
RowsRead ==
  /\ phase = "rows" /\ rpc = "read" /\ rpc' = "done"
  /\ is_open' = FALSE
  /\ UNCHANGED <<phase, columns, todo, entry, data, connected, stored, row_position, data_cursor,
                 row, last_queried_column, was_null, call, arg, ret, got>> /\ Idle

Read ==
  \/ Connect \/ ReaderThrows \/ Fetch \/ NextRow \/ Cell \/ PushBack \/ ColumnsRead \/ RowsRead

Next == Read \/ (\E g \in Generators : Generate(g)) \/ AlterTable

\* Each process keeps running; nobody has to alter the table.
Spec ==
  /\ Init /\ [][Next]_vars
  /\ WF_vars(Read)
  /\ \A g \in Generators : WF_vars(Generate(g) /\ gpc[g] # "idle")

-----------------------------------------------------------------------------
DatabaseTypeOK ==
  /\ TypeOK
  /\ \A j \in DOMAIN table : table[j] \in Rows /\ DOMAIN table[j] = Names(schema)
  /\ gpc \in [Generators -> {"idle", "inserting", "done", "aborted"}]
  /\ phase \in {"columns", "rows"}
  /\ rpc \in {"connect", "fetch", "next", "cells", "read", "aborted", "done"}
  /\ todo \in Seq(Column)

\* The columns a program is generated for are the columns of one schema, in its
\* order, also when the table is altered while they are read; without an ALTER
\* they are the columns of the table.
ColumnsOfOneSchema ==
  phase = "rows" => columns \in Schemas /\ (alters = 0 => columns = schema)

\* The rows read so far are the first rows of the result, each once and with
\* every column the program declares; a value that getInt can hold is exact.
\* A column that has gone ends the program before any row is kept.
EachRowOnce ==
  phase = "rows" /\ rpc \in {"next", "cells", "read", "done"} =>
    /\ Len(data) = IF rpc = "cells" THEN row_position - 1
                   ELSE IF rpc = "next" THEN row_position ELSE num_rows
    /\ \A j \in DOMAIN data :
         /\ DOMAIN data[j] = Names(columns)
         /\ \A c \in Names(columns) :
              LET v == stored[j][c]
              IN  data[j][c] = IF v = Null THEN IF c \in IntColumns THEN 0 ELSE EmptyText
                               ELSE IF c \in IntColumns THEN Narrowed(v) ELSE v

\* What a query reads is the table as it was at one moment: rows inserted while
\* it reads do not appear in the middle of it, and none is skipped.
OneMomentOfTheTable ==
  phase = "rows" /\ is_open /\ alters = 0 => IsPrefix(stored, Selected)

\* Without failures generate adds exactly the rows asked for (none for a
\* negative number); when it fails, the rows before the failure stay, and
\* possibly the one whose answer was lost.
EntriesAccountedFor ==
  /\ \A g \in Generators :
       /\ inserted[g] \in i[g] .. i[g] + (IF gpc[g] = "aborted" THEN 1 ELSE 0)
       /\ gpc[g] = "done" => inserted[g] = Max({0, entries[g]})
  /\ Len(table) = FoldSet(LAMBDA g, n : inserted[g] + n, 0, Generators)

\* The query ends, however the inserts go on, and every generate does.
EveryoneEnds ==
  /\ <>(rpc \in {"done", "aborted"})
  /\ \A g \in Generators : gpc[g] = "inserting" ~> gpc[g] \in {"done", "aborted"}
=============================================================================
