----------------------------- MODULE ResultSet ------------------------------
(***************************************************************************)
(* MySQL_ResultSet, the connector's class behind every `res` of this       *)
(* program, for results stored on the client (TYPE_SCROLL_INSENSITIVE, the *)
(* type of SQLConn's statements).  Two positions have to agree: the        *)
(* object's row_position and the row the C API fetches next.               *)
(***************************************************************************)
EXTENDS Integers, Sequences

CONSTANTS
  Rows,               \* rows: functions of their columns
  Results,            \* what a query may return: sequences of rows
  Offsets,            \* the arguments absolute and relative are called with
  IntColumns, TextColumns,  \* the columns read with getInt and with getString
  Null, EmptyText,    \* SQL's NULL; ""
  Half,               \* 2^31: getInt returns -Half .. Half - 1
  NoColumn            \* last_queried_column is -1

ASSUME RowsAssumption ==
  /\ Results \subseteq Seq(Rows)
  /\ \A s \in Results : \A j \in 1 .. Len(s) : DOMAIN s[j] = DOMAIN s[1]
  /\ \A r \in Rows : \A c \in IntColumns \cap DOMAIN r : r[c] = Null \/ r[c] \in Int
  /\ Null \notin Int
  /\ NoColumn \notin IntColumns \cup TextColumns
  /\ Offsets \subseteq Int
  /\ Half \in Nat \ {0}

VARIABLES
  stored,             \* the rows mysql_store_result copied
  is_open,            \* `result` is not reset
  connected,          \* the connection behind `proxy` exists
  row_position,       \* 0 before the first row, num_rows + 1 after the last
  data_cursor,        \* rows before the one fetch_row returns next
  row,                \* the row fetched last, 0 for NULL
  last_queried_column, was_null,
  call, arg,          \* the last call and its argument
  ret,                \* how it ended
  got                 \* what the last getter returned

rsvars == <<stored, is_open, connected, row_position, data_cursor, row,
            last_queried_column, was_null, call, arg, ret, got>>

Methods ==
  {"next", "previous", "first", "last", "beforeFirst", "afterLast", "absolute", "relative",
   "getString", "getInt", "wasNull", "isFirst", "isBeforeFirst", "isLast", "isAfterLast", "close"}

NoArg == "none"

\* The caller calls m(a).
Called(m, a) == call' = m /\ arg' = a

num_rows == Len(stored)

\* executeQuery: the constructor, for the rows r.
Constructed(r) ==
  /\ stored' = r /\ is_open' = TRUE
  /\ row_position' = 0 /\ data_cursor' = 0 /\ row' = 0
  /\ last_queried_column' = NoColumn /\ was_null' = FALSE
  /\ Called("none", NoArg) /\ ret' = "void" /\ got' = [type |-> "none"]

RSInit ==
  /\ stored \in Results /\ is_open = TRUE /\ connected = TRUE
  /\ row_position = 0 /\ data_cursor = 0 /\ row = 0
  /\ last_queried_column = NoColumn /\ was_null = FALSE
  /\ call = "none" /\ arg = NoArg /\ ret = "void" /\ got = [type |-> "none"]

-----------------------------------------------------------------------------
(***************************************************************************)
(* The steps that calls are made of.                                       *)
(***************************************************************************)
Running == ret # "crashed"

\* checkValid() throws, before the argument is looked at.  Only previous() calls
\* checkScrollable() before it.
Invalid(m) ==
  /\ Running /\ ~is_open
  /\ Called(m, NoArg) /\ ret' = "invalid_instance"
  /\ last_queried_column' = IF m = "previous" THEN NoColumn ELSE last_queried_column
  /\ UNCHANGED <<stored, is_open, connected, row_position, data_cursor, row, was_null, got>>

Valid == Running /\ is_open

\* checkScrollable() of a scrollable set.
Rescrolled == last_queried_column' = NoColumn

\* data_seek(n): the fetch after it returns row n + 1.
data_seek(n) == data_cursor' = n

\* row_position = p; seek()
SeekTo(p) ==
  /\ row_position' = p
  /\ data_cursor' = p /\ row' = p

\* row_position = p, with no row fetched.
MoveTo(p) == row_position' = p /\ UNCHANGED <<data_cursor, row>>

OnRow(p) == 0 < p /\ p <= num_rows

Answer(b) == ret' = IF b THEN "true" ELSE "false"

Unread == UNCHANGED <<stored, is_open, connected, was_null, got>>

-----------------------------------------------------------------------------
(***************************************************************************)
(* Moving.                                                                 *)
(***************************************************************************)
NextFetch ==
  /\ Valid /\ row_position < num_rows          \* not isLast()
  /\ data_cursor < num_rows
  /\ data_cursor' = data_cursor + 1 /\ row' = data_cursor + 1
  /\ row_position' = row_position + 1
  /\ Answer(TRUE) /\ Rescrolled /\ Unread

\* fetch_row() returns NULL: an exception when the connection is gone or its
\* last error was a lost connection.
NextNull ==
  /\ Valid /\ row_position < num_rows
  /\ data_cursor = num_rows
  /\ row' = 0 /\ UNCHANGED data_cursor
  /\ \/ ~connected /\ row_position' = row_position /\ ret' = "invalid_instance"
     \/ connected /\ row_position' = row_position /\ ret' = "sql_error"
     \/ connected /\ row_position' = row_position + 1 /\ Answer(FALSE)
  /\ Rescrolled /\ Unread

PastTheEnd_Mutant ==
  /\ Valid /\ row_position >= num_rows
  /\ MoveTo(row_position + 1)
  /\ Answer(FALSE) /\ Rescrolled /\ Unread

\* isLast(): afterLast().  After the last row nothing changes.
NextEnd ==
  /\ Valid /\ row_position >= num_rows
  /\ MoveTo(num_rows + 1)
  /\ Answer(FALSE) /\ Rescrolled /\ Unread

next == Called("next", NoArg) /\ (NextFetch \/ NextNull \/ NextEnd)

previous ==
  /\ Called("previous", NoArg) /\ Valid
  /\ \/ row_position = 0 /\ UNCHANGED <<row_position, data_cursor, row>>
     \/ row_position = 1 /\ row_position' = 0 /\ data_seek(0) /\ UNCHANGED row
     \/ row_position > 1 /\ SeekTo(row_position - 1)
  /\ Answer(row_position > 1) /\ Rescrolled /\ Unread

LandsOnLast_Mutant ==
  /\ Called("first", NoArg) /\ Valid
  /\ IF num_rows > 0 THEN SeekTo(num_rows) ELSE UNCHANGED <<row_position, data_cursor, row>>
  /\ Answer(num_rows > 0) /\ Rescrolled /\ Unread

first ==
  /\ Called("first", NoArg) /\ Valid
  /\ IF num_rows > 0 THEN SeekTo(1) ELSE UNCHANGED <<row_position, data_cursor, row>>
  /\ Answer(num_rows > 0) /\ Rescrolled /\ Unread

last ==
  /\ Called("last", NoArg) /\ Valid
  /\ IF num_rows > 0 THEN SeekTo(num_rows) ELSE UNCHANGED <<row_position, data_cursor, row>>
  /\ Answer(num_rows > 0) /\ Rescrolled /\ Unread

NoRewind_Mutant ==
  /\ Called("beforeFirst", NoArg) /\ Valid
  /\ row_position' = 0 /\ UNCHANGED <<data_cursor, row>>
  /\ ret' = "void" /\ Rescrolled /\ Unread

beforeFirst ==
  /\ Called("beforeFirst", NoArg) /\ Valid
  /\ row_position' = 0 /\ data_seek(0) /\ UNCHANGED row
  /\ ret' = "void" /\ Rescrolled /\ Unread

afterLast ==
  /\ Called("afterLast", NoArg) /\ Valid
  /\ MoveTo(num_rows + 1)
  /\ ret' = "void" /\ UNCHANGED last_queried_column /\ Unread

\* The row absolute(n) means.
Target(n) == IF n >= 0 THEN n ELSE num_rows + n + 1

absolute(n) ==
  /\ Called("absolute", n) /\ Valid
  /\ \/ OnRow(Target(n)) /\ SeekTo(Target(n))
     \/ n > num_rows  /\ MoveTo(num_rows + 1)
     \/ -n > num_rows /\ MoveTo(0)                       \* without data_seek(0)
     \/ n = 0 /\ row_position' = 0 /\ data_seek(0) /\ UNCHANGED row
  /\ Answer(OnRow(Target(n))) /\ Rescrolled /\ Unread

relative(n) ==
  /\ Called("relative", n) /\ Valid
  /\ LET p == row_position + n
     IN  \/ n = 0 /\ UNCHANGED <<row_position, data_cursor, row>>
         \/ n # 0 /\ OnRow(p) /\ SeekTo(p)
         \/ n > 0 /\ ~OnRow(p) /\ MoveTo(num_rows + 1)
         \/ n < 0 /\ ~OnRow(p) /\ MoveTo(0)              \* without data_seek(0)
  /\ Answer(OnRow(row_position')) /\ Rescrolled /\ Unread

-----------------------------------------------------------------------------
(***************************************************************************)
(* Reading.                                                                *)
(***************************************************************************)
\* static_cast<int32_t>(getInt64(column))
Narrowed(v) == ((v + Half) % (2 * Half)) - Half

\* On a row, and findColumn(c) is not 0.
Found(c) == OnRow(row_position) /\ c \in DOMAIN stored[1]

GetterThrows(c) ==
  /\ Valid /\ ~Found(c)
  /\ ret' = "invalid_argument"
  /\ UNCHANGED <<stored, is_open, connected, row_position, data_cursor, row,
                 last_queried_column, was_null, got>>

Got(c, type, v) ==
  /\ got' = [type |-> type, value |-> v] /\ ret' = "value"
  /\ last_queried_column' = c
  /\ UNCHANGED <<stored, is_open, connected, row_position, data_cursor, row>>

getString(c) ==
  /\ Called("getString", c)
  /\ \/ GetterThrows(c)
     \/ /\ Valid /\ Found(c)
        /\ was_null' = (row = 0 \/ stored[row][c] = Null)
        /\ Got(c, "text", IF was_null' THEN EmptyText ELSE stored[row][c])

\* row[columnIndex - 1] with a NULL row.
NullRow ==
  /\ row = 0
  /\ ret' = "crashed"
  /\ UNCHANGED <<stored, is_open, connected, row_position, data_cursor, row,
                 last_queried_column, was_null, got>>

getInt(c) ==
  /\ Called("getInt", c)
  /\ \/ GetterThrows(c)
     \/ Valid /\ Found(c) /\ NullRow
     \/ /\ Valid /\ Found(c) /\ row # 0
        /\ was_null' = (stored[row][c] = Null)
        /\ Got(c, "int", IF was_null' THEN 0 ELSE Narrowed(stored[row][c]))

wasNull ==
  /\ Called("wasNull", NoArg) /\ Valid
  /\ IF OnRow(row_position) /\ last_queried_column # NoColumn
     THEN Answer(was_null) ELSE ret' = "invalid_argument"
  /\ UNCHANGED <<stored, is_open, connected, row_position, data_cursor, row,
                 last_queried_column, was_null, got>>

\* isLast and isAfterLast call checkScrollable, isFirst and isBeforeFirst do not.
Asks(b, scrollable) ==
  /\ Valid
  /\ Answer(b)
  /\ IF scrollable THEN Rescrolled ELSE UNCHANGED last_queried_column
  /\ UNCHANGED <<stored, is_open, connected, row_position, data_cursor, row, was_null, got>>

isFirst == Called("isFirst", NoArg) /\ Asks(row_position = 1, FALSE)
isBeforeFirst == Called("isBeforeFirst", NoArg) /\ Asks(row_position = 0, FALSE)
isLast == Called("isLast", NoArg) /\ Asks(row_position = num_rows, TRUE)
isAfterLast == Called("isAfterLast", NoArg) /\ Asks(row_position = num_rows + 1, TRUE)

close ==
  /\ Called("close", NoArg) /\ Valid
  /\ is_open' = FALSE /\ ret' = "void"
  /\ UNCHANGED <<stored, connected, row_position, data_cursor, row,
                 last_queried_column, was_null, got>>

\* The caller deletes the connection; the stored rows stay.
DeleteConnection ==
  /\ Running /\ connected
  /\ connected' = FALSE
  /\ UNCHANGED <<stored, is_open, row_position, data_cursor, row,
                 last_queried_column, was_null, call, arg, ret, got>>

RSNext ==
  \/ \E m \in Methods : Invalid(m)
  \/ next \/ previous \/ first \/ last \/ beforeFirst \/ afterLast
  \/ \E n \in Offsets : absolute(n) \/ relative(n)
  \/ \E c \in TextColumns : getString(c)
  \/ \E c \in IntColumns : getInt(c)
  \/ wasNull \/ isFirst \/ isBeforeFirst \/ isLast \/ isAfterLast
  \/ close \/ DeleteConnection

RSSpec == RSInit /\ [][RSNext]_rsvars

-----------------------------------------------------------------------------
TypeOK ==
  /\ stored \in Seq(Rows) /\ is_open \in BOOLEAN /\ connected \in BOOLEAN
  /\ row_position \in 0 .. num_rows + 1
  /\ data_cursor \in 0 .. num_rows
  /\ row \in 0 .. num_rows
  /\ last_queried_column \in IntColumns \cup TextColumns \cup {NoColumn}
  /\ was_null \in BOOLEAN
  /\ call \in Methods \cup {"none"}
  /\ ret \in {"void", "true", "false", "value", "invalid_instance", "invalid_argument", "sql_error",
             "crashed"}

\* The next row to be fetched, or the fetched one, is not the one row_position
\* says.
Adrift ==
  /\ row_position <= num_rows
  /\ data_cursor # row_position \/ (row_position > 0 /\ row # row_position)

\* Only absolute() and relative() can set the two positions apart, and only
\* when they go back past the first row: every other call leaves the set on
\* the row it says it is on, if it was before.
DriftsOnlyBackwards ==
  [][~Adrift /\ Adrift' => row_position' = 0 /\ ret' = "false"
       /\ \E n \in Offsets : n < 0 /\ (absolute(n) \/ relative(n))]_rsvars

(***************************************************************************)
(* What the calls promise: see Cursor.                                     *)
(***************************************************************************)
CursorOf == INSTANCE Cursor WITH
  position  <- row_position,
  adrift    <- Adrift,
  read_null <- IF last_queried_column = NoColumn \/ ~OnRow(row_position) THEN "none"
               ELSE IF was_null THEN "true" ELSE "false"

\* The result set implements the cursor: each call goes to the row that it,
\* with its argument, names, getters return the cell of that row, wasNull is
\* about the last cell read, a crash needs a move back past the first row by
\* absolute or relative, and all of it still holds when the connection has
\* been deleted.
RefinesCursor == CursorOf!Spec
=============================================================================
