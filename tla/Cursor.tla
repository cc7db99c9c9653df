------------------------------- MODULE Cursor -------------------------------
(***************************************************************************)
(* What a scrollable result set promises its caller, call by call: a       *)
(* position before, on or after the rows, getters that return the cells of *)
(* the current row, wasNull about the cell read last.  A move back past    *)
(* the first row by absolute or relative may leave it adrift: until a call *)
(* names a row or an end, next may then skip rows or fail and getters may  *)
(* return any value or crash; every other call does what it says.          *)
(***************************************************************************)
EXTENDS Integers, Sequences

CONSTANTS Results, Rows, Offsets, IntColumns, TextColumns, Null, EmptyText, Half

VARIABLES
  stored,             \* the rows
  is_open,
  position,           \* 0 .. Len(stored) + 1
  adrift,             \* the position may be wrong
  read_null,          \* "none", or whether the cell read last was NULL
  call, arg,          \* the last call and its argument
  ret, got            \* its answer, and what the last getter read

cvars == <<stored, is_open, position, adrift, read_null, call, arg, ret, got>>

N == Len(stored)
OnARow(p) == 0 < p /\ p <= N

Init ==
  /\ stored \in Results /\ is_open = TRUE
  /\ position = 0 /\ adrift = FALSE /\ read_null = "none"
  /\ call = "none" /\ arg = "none" /\ ret = "void" /\ got = [type |-> "none"]

-----------------------------------------------------------------------------
\* A call that moves to p and answers r.
Go(p, r) ==
  /\ is_open
  /\ position' = p /\ adrift' = FALSE /\ read_null' = "none"
  /\ ret' = r
  /\ UNCHANGED <<stored, is_open, got>>

\* A call that moves back past the first row.
GoBeforeFirst ==
  /\ is_open
  /\ position' = 0 /\ adrift' \in BOOLEAN /\ read_null' = "none"
  /\ ret' = "false"
  /\ UNCHANGED <<stored, is_open, got>>

\* A call that moves nowhere and answers r.
Stay(r) ==
  /\ is_open
  /\ ret' = r
  /\ read_null' \in {read_null, "none"}
  /\ UNCHANGED <<stored, is_open, position, adrift, got>>

Throws(e) == ret' = e /\ UNCHANGED <<stored, is_open, position, adrift, read_null, got>>

Bool(b) == IF b THEN "true" ELSE "false"

-----------------------------------------------------------------------------
(***************************************************************************)
(* The moves.                                                              *)
(***************************************************************************)
Forth ==
  /\ ~adrift \/ position >= N
  /\ Go(IF position < N THEN position + 1 ELSE N + 1, Bool(position < N))

\* next() of a set adrift: it may fetch some row, none, or fail.
ForthAdrift ==
  /\ is_open /\ adrift /\ position < N
  /\ position' \in {position, position + 1} /\ adrift' \in BOOLEAN /\ read_null' = "none"
  /\ ret' \in {"true", "false", "invalid_instance", "sql_error"}
  /\ UNCHANGED <<stored, is_open, got>>

Back == IF position = 0 THEN Stay("false") ELSE Go(position - 1, Bool(position > 1))

ToRow(p) == IF OnARow(p) THEN Go(p, "true") ELSE Stay("false")

Absolute(n) ==
  LET p == IF n >= 0 THEN n ELSE N + n + 1
  IN  \/ OnARow(p) /\ Go(p, "true")
      \/ n > N /\ Go(N + 1, "false")
      \/ n = 0 /\ Go(0, "false")
      \/ n < -N /\ GoBeforeFirst

Relative(n) ==
  \/ n = 0 /\ Stay(Bool(OnARow(position)))
  \/ n # 0 /\ OnARow(position + n) /\ Go(position + n, "true")
  \/ n > 0 /\ position + n > N /\ Go(N + 1, "false")
  \/ n < 0 /\ position + n < 1 /\ GoBeforeFirst

-----------------------------------------------------------------------------
(***************************************************************************)
(* The getters.                                                            *)
(***************************************************************************)

\* What getInt makes of a cell: a value out of range becomes one in range.
IntCell(v, g) ==
  /\ g.type = "int"
  /\ IF v = Null THEN g.value = 0
     ELSE /\ v \in -Half .. Half - 1 => g.value = v
          /\ g.value \in -Half .. Half - 1

TextCell(v, g) == g = [type |-> "text", value |-> IF v = Null THEN EmptyText ELSE v]

HasCell(c) == OnARow(position) /\ c \in DOMAIN stored[position]

\* The cell of c is read; shown says that the caller gets what it holds.
Reads(c, shown) ==
  /\ ~adrift /\ shown
  /\ read_null' = Bool(stored[position][c] = Null)
  /\ ret' = "value"

ReadsAdrift == adrift /\ ret' \in {"value", "crashed"}

Get(c, shown) ==
  /\ is_open
  /\ \/ /\ HasCell(c)
        /\ Reads(c, shown) \/ ReadsAdrift
        /\ UNCHANGED <<stored, is_open, position, adrift>>
     \/ ~HasCell(c) /\ Throws("invalid_argument")

GetInt(c) == Get(c, IntCell(stored[position][c], got'))
GetString(c) == Get(c, TextCell(stored[position][c], got'))

WasNull ==
  /\ is_open
  /\ IF read_null = "none" THEN Throws("invalid_argument")
     ELSE Stay(read_null) /\ UNCHANGED read_null

Close ==
  /\ is_open /\ is_open' = FALSE /\ ret' = "void"
  /\ UNCHANGED <<stored, position, adrift, read_null, got>>

\* Any call on a closed set.
ThrowsClosed ==
  /\ ~is_open /\ ret' = "invalid_instance"
  /\ read_null' \in {read_null, "none"}
  /\ UNCHANGED <<stored, is_open, position, adrift, got>>

-----------------------------------------------------------------------------
\* What m(a) does is D.
Does(m, a, D) == call' = m /\ arg' = a /\ D

Next ==
  \/ ThrowsClosed
  \/ Does("next", "none", Forth \/ ForthAdrift)
  \/ Does("previous", "none", Back)
  \/ Does("first", "none", ToRow(1)) \/ Does("last", "none", ToRow(N))
  \/ Does("beforeFirst", "none", Go(0, "void")) \/ Does("afterLast", "none", Go(N + 1, "void"))
  \/ \E n \in Offsets : Does("absolute", n, Absolute(n)) \/ Does("relative", n, Relative(n))
  \/ \E c \in IntColumns : Does("getInt", c, GetInt(c))
  \/ \E c \in TextColumns : Does("getString", c, GetString(c))
  \/ Does("wasNull", "none", WasNull)
  \/ Does("isFirst", "none", Stay(Bool(position = 1)))
  \/ Does("isBeforeFirst", "none", Stay(Bool(position = 0)))
  \/ Does("isLast", "none", Stay(Bool(position = N)))
  \/ Does("isAfterLast", "none", Stay(Bool(position = N + 1)))
  \/ Does("close", "none", Close)

Spec == Init /\ [][Next]_cvars
=============================================================================
