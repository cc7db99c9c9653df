-------------------------- MODULE ResultSetProofs ---------------------------
(***************************************************************************)
(* The connector's result set implements the cursor its callers rely on,   *)
(* for results of any length, any columns and any offsets.                 *)
(***************************************************************************)
EXTENDS ResultSet, TLAPS

(***************************************************************************)
(* Arithmetic.                                                             *)
(***************************************************************************)

\* The remainder of a number between 0 and the divisor is the number.
LEMMA SmallMod ==
  ASSUME NEW x \in Int, NEW m \in Nat \ {0}, 0 <= x, x < m
  PROVE  x % m = x
OBVIOUS

\* A remainder lies between 0 and the divisor.
LEMMA ModRange ==
  ASSUME NEW x \in Int, NEW m \in Nat \ {0}
  PROVE  x % m \in 0 .. m - 1
OBVIOUS

\* static_cast<int32_t> keeps what fits and returns something that fits.
LEMMA NarrowedFits ==
  ASSUME NEW v \in Int
  PROVE  /\ Narrowed(v) \in -Half .. Half - 1
         /\ v \in -Half .. Half - 1 => Narrowed(v) = v
<1>1. 2 * Half \in Nat \ {0} /\ v + Half \in Int
  BY RowsAssumption
<1>2. (v + Half) % (2 * Half) \in 0 .. 2 * Half - 1
  BY <1>1, ModRange
<1>3. v \in -Half .. Half - 1 => (v + Half) % (2 * Half) = v + Half
  <2>1. SUFFICES ASSUME v \in -Half .. Half - 1 PROVE (v + Half) % (2 * Half) = v + Half
    OBVIOUS
  <2>2. 0 <= v + Half /\ v + Half < 2 * Half
    BY <2>1, RowsAssumption
  <2> QED
    BY <1>1, <2>2, SmallMod
<1> HIDE DEF Narrowed
<1>4. Narrowed(v) = ((v + Half) % (2 * Half)) - Half
  BY DEF Narrowed
<1> QED
  BY <1>2, <1>3, <1>4, RowsAssumption

-----------------------------------------------------------------------------
(***************************************************************************)
(* The invariant: types, and the rows stored are those the query returned. *)
(***************************************************************************)
Inv == TypeOK /\ stored \in Results

\* Initially.
LEMMA InvInit == RSInit => Inv
<1>1. SUFFICES ASSUME RSInit PROVE Inv
  OBVIOUS
<1>2. stored \in Results /\ stored \in Seq(Rows) /\ num_rows \in Nat
  BY <1>1, RowsAssumption DEF RSInit, num_rows
<1>3. is_open \in BOOLEAN /\ connected \in BOOLEAN /\ was_null \in BOOLEAN
  BY <1>1, Zenon DEF RSInit
<1>4. row_position \in 0 .. num_rows + 1 /\ data_cursor \in 0 .. num_rows /\ row \in 0 .. num_rows
  BY <1>1, <1>2 DEF RSInit
<1>5. last_queried_column = NoColumn /\ call = "none" /\ ret = "void"
  BY <1>1 DEF RSInit
<1> QED
  BY <1>2, <1>3, <1>4, <1>5 DEF Inv, TypeOK

\* What every action but the constructor leaves alone.
LEMMA SameRows ==
  ASSUME RSNext PROVE stored' = stored
BY DEF RSNext, Invalid, next, NextFetch, NextNull, NextEnd, previous, first, last,
  beforeFirst, afterLast, absolute, relative, getString, getInt, GetterThrows, NullRow, Got,
  wasNull, isFirst, isBeforeFirst, isLast, isAfterLast, Asks, close, DeleteConnection, Unread

\* The last call is one of the methods.
LEMMA CallTyped ==
  ASSUME RSNext, call \in Methods \cup {"none"} PROVE call' \in Methods \cup {"none"}
<1>1. ASSUME NEW m \in Methods, Invalid(m) PROVE call' \in Methods
  BY <1>1 DEF Invalid, Called
<1>2. ASSUME next \/ previous \/ first \/ last \/ beforeFirst \/ afterLast PROVE call' \in Methods
  BY <1>2 DEF next, previous, first, last, beforeFirst, afterLast, Called, Methods
<1>3. ASSUME NEW n \in Offsets, absolute(n) \/ relative(n) PROVE call' \in Methods
  BY <1>3 DEF absolute, relative, Called, Methods
<1>4. ASSUME NEW c, getString(c) \/ getInt(c) PROVE call' \in Methods
  BY <1>4 DEF getString, getInt, Called, Methods
<1>5. ASSUME wasNull \/ isFirst \/ isBeforeFirst \/ isLast \/ isAfterLast \/ close PROVE call' \in Methods
  BY <1>5 DEF wasNull, isFirst, isBeforeFirst, isLast, isAfterLast, close, Called, Methods
<1>6. ASSUME DeleteConnection PROVE call' = call
  BY <1>6 DEF DeleteConnection
<1> QED
  BY <1>1, <1>2, <1>3, <1>4, <1>5, <1>6 DEF RSNext

\* Every call keeps the types.
LEMMA TypeStep == TypeOK /\ [RSNext]_rsvars => TypeOK'
<1> SUFFICES ASSUME TypeOK, [RSNext]_rsvars PROVE TypeOK'
  OBVIOUS
<1>0. num_rows \in Nat
  BY DEF TypeOK, num_rows
<1> USE <1>0 DEF TypeOK, OnRow
<1>1. CASE UNCHANGED rsvars
  BY <1>1 DEF rsvars, num_rows
<1>2. CASE RSNext
  <2>1. stored' = stored /\ num_rows' = num_rows /\ call' \in Methods \cup {"none"}
    BY <1>2, SameRows, CallTyped DEF num_rows
  <2> USE <2>1
  <2>2. ASSUME NEW m \in Methods, Invalid(m) PROVE TypeOK'
    BY <2>2 DEF Invalid
  <2>3. CASE next
    BY <2>3 DEF next, NextFetch, NextNull, NextEnd, MoveTo, Answer, Rescrolled, Unread
  <2>4. CASE previous
    BY <2>4 DEF previous, SeekTo, data_seek, Answer, Rescrolled, Unread
  <2>5. CASE first \/ last
    BY <2>5 DEF first, last, SeekTo, Answer, Rescrolled, Unread
  <2>6. CASE beforeFirst \/ afterLast
    BY <2>6 DEF beforeFirst, afterLast, MoveTo, data_seek, Rescrolled, Unread
  <2>7. ASSUME NEW n \in Offsets, absolute(n) PROVE TypeOK'
    <3>1. n \in Int
      BY RowsAssumption
    <3> QED
      BY <2>7, <3>1 DEF absolute, Target, SeekTo, MoveTo, data_seek, Answer, Rescrolled, Unread
  <2>8. ASSUME NEW n \in Offsets, relative(n) PROVE TypeOK'
    <3>1. n \in Int
      BY RowsAssumption
    <3> QED
      BY <2>8, <3>1 DEF relative, SeekTo, MoveTo, Answer, Rescrolled, Unread
  <2>9. ASSUME NEW c \in TextColumns, getString(c) PROVE TypeOK'
    BY <2>9 DEF getString, GetterThrows, Got
  <2>10. ASSUME NEW c \in IntColumns, getInt(c) PROVE TypeOK'
    BY <2>10 DEF getInt, GetterThrows, NullRow, Got
  <2>11. CASE wasNull \/ isFirst \/ isBeforeFirst \/ isLast \/ isAfterLast
    BY <2>11 DEF wasNull, isFirst, isBeforeFirst, isLast, isAfterLast, Asks, Answer, Rescrolled
  <2>12. CASE close \/ DeleteConnection
    BY <2>12 DEF close, DeleteConnection
  <2> QED
    BY <1>2, <2>2, <2>3, <2>4, <2>5, <2>6, <2>7, <2>8, <2>9, <2>10, <2>11, <2>12 DEF RSNext
<1> QED
  BY <1>1, <1>2

\* Every call keeps the invariant.
LEMMA InvStep == Inv /\ [RSNext]_rsvars => Inv'
<1>1. [RSNext]_rsvars => stored' = stored
  BY SameRows DEF rsvars
<1> QED
  BY <1>1, TypeStep DEF Inv

\* The types of a result set: row_position stays between 0 and num_rows + 1,
\* the C API's cursor within the rows.
THEOREM TypeCorrect == RSSpec => []TypeOK
<1>1. RSSpec => []Inv
  BY InvInit, InvStep, PTL DEF RSSpec
<1>2. Inv => TypeOK
  BY DEF Inv
<1> QED
  BY <1>1, <1>2, PTL

-----------------------------------------------------------------------------
(***************************************************************************)
(* Where the positions part.                                               *)
(***************************************************************************)

\* A set on the row it says it is on stays so, with every call but two.
LEMMA DriftStep ==
  ASSUME Inv, RSNext, ~Adrift, Adrift'
  PROVE  /\ row_position' = 0 /\ ret' = "false"
         /\ \E n \in Offsets : n < 0 /\ (absolute(n) \/ relative(n))
<1>0. /\ num_rows \in Nat /\ num_rows' = num_rows
      /\ row_position \in 0 .. num_rows + 1 /\ data_cursor \in 0 .. num_rows /\ row \in 0 .. num_rows
  BY SameRows DEF Inv, TypeOK, num_rows
<1> USE <1>0 DEF Adrift, OnRow
<1>1. (\A m \in Methods : ~Invalid(m)) /\ ~wasNull /\ ~close /\ ~DeleteConnection
  BY DEF Invalid, wasNull, close, DeleteConnection
<1>2. ~next
  <2>1. ASSUME NextFetch PROVE FALSE
    <3>1. data_cursor = row_position
      BY <2>1 DEF NextFetch
    <3>2. data_cursor' = row_position' /\ row' = row_position'
      BY <2>1, <3>1 DEF NextFetch
    <3> QED
      BY <3>2
  <2>2. ASSUME NextNull PROVE FALSE
    BY <2>2 DEF NextNull
  <2>3. ASSUME NextEnd PROVE FALSE
    BY <2>3 DEF NextEnd, MoveTo
  <2> QED
    BY <2>1, <2>2, <2>3 DEF next
<1>3. ~previous
  BY DEF previous, SeekTo, data_seek
<1>4. ~first /\ ~last /\ ~beforeFirst /\ ~afterLast
  BY DEF first, last, beforeFirst, afterLast, SeekTo, MoveTo, data_seek
<1>5. \A c \in TextColumns : ~getString(c)
  BY DEF getString, GetterThrows, Got
<1>6. \A c \in IntColumns : ~getInt(c)
  BY DEF getInt, GetterThrows, NullRow, Got
<1>7. ~isFirst /\ ~isBeforeFirst /\ ~isLast /\ ~isAfterLast
  BY DEF isFirst, isBeforeFirst, isLast, isAfterLast, Asks
<1>8. PICK n \in Offsets : absolute(n) \/ relative(n)
  BY <1>1, <1>2, <1>3, <1>4, <1>5, <1>6, <1>7 DEF RSNext
<1>9. n \in Int
  BY RowsAssumption
<1>10. CASE absolute(n)
  <2>1. -n > num_rows
    BY <1>9, <1>10 DEF absolute, Target, SeekTo, MoveTo, data_seek
  <2>2. n < 0 /\ ~OnRow(Target(n))
    BY <1>9, <2>1 DEF Target
  <2> QED
    BY <1>9, <1>10, <2>1, <2>2 DEF absolute, MoveTo, Answer
<1>11. CASE relative(n)
  BY <1>9, <1>11 DEF relative, SeekTo, MoveTo, Answer
<1> QED
  BY <1>8, <1>10, <1>11

\* The two positions part only when absolute or relative goes back past the
\* first row.
THEOREM DriftOnlyBackwards == RSSpec => DriftsOnlyBackwards
<1>1. Inv /\ [RSNext]_rsvars =>
        [~Adrift /\ Adrift' => row_position' = 0 /\ ret' = "false"
           /\ \E n \in Offsets : n < 0 /\ (absolute(n) \/ relative(n))]_rsvars
  BY DriftStep
<1> QED
  BY <1>1, InvInit, InvStep, PTL DEF RSSpec, DriftsOnlyBackwards

-----------------------------------------------------------------------------
(***************************************************************************)
(* The refinement, call by call.  Only next() and the getters depend on    *)
(* the two positions agreeing.                                             *)
(***************************************************************************)
ReadNull ==
  IF last_queried_column = NoColumn \/ ~OnRow(row_position) THEN "none"
  ELSE IF was_null THEN "true" ELSE "false"

\* A call that ends with the two positions equal is a move of the cursor.
LEMMA GoStep ==
  ASSUME is_open, ~Adrift', last_queried_column' = NoColumn \/ row_position' = num_rows' + 1,
         UNCHANGED <<stored, is_open, got>>,
         num_rows' \in Nat
  PROVE  CursorOf!Go(row_position', ret')
<1>1. (Adrift') = FALSE
  OBVIOUS
<1>2. ReadNull' = "none"
  BY DEF ReadNull, OnRow
<1> QED
  BY <1>1, <1>2 DEF CursorOf!Go, ReadNull

\* A call that moves nowhere.
LEMMA StayStep ==
  ASSUME is_open, last_queried_column' = NoColumn \/ UNCHANGED last_queried_column,
         UNCHANGED <<stored, is_open, row_position, data_cursor, row, was_null, got>>
  PROVE  CursorOf!Stay(ret')
<1>1. num_rows' = num_rows
  BY DEF num_rows
<1>2. (Adrift') = Adrift
  BY <1>1 DEF Adrift
<1>3. ReadNull' \in {ReadNull, "none"}
  BY <1>1 DEF ReadNull, OnRow
<1> QED
  BY <1>2, <1>3 DEF CursorOf!Stay, ReadNull

\* The facts the cases below share.
LEMMA Shared ==
  ASSUME Inv, RSNext
  PROVE  /\ num_rows \in Nat /\ num_rows' = num_rows /\ num_rows = Len(stored)
         /\ row_position \in 0 .. num_rows + 1 /\ data_cursor \in 0 .. num_rows
         /\ row \in 0 .. num_rows /\ stored' = stored
BY SameRows DEF Inv, TypeOK, num_rows

\* seek() makes the positions agree; so does a move after the last row, and a
\* move before the first with data_seek(0).
LEMMA Agree ==
  ASSUME num_rows' \in Nat,
         \/ row_position' = data_cursor' /\ row' = row_position'
         \/ row_position' = 0 /\ data_cursor' = 0
         \/ row_position' = num_rows' + 1
  PROVE  ~Adrift'
BY DEF Adrift

\* next(): the row after the current one, then after the last.  With the
\* positions apart the C API returns another row, or none.
LEMMA NextSimulates ==
  ASSUME Inv, RSNext, next PROVE CursorOf!Next
<1> USE Shared
<1>0. /\ call' = "next" /\ arg' = "none"
      /\ is_open /\ last_queried_column' = NoColumn /\ UNCHANGED <<stored, is_open, got>>
  BY DEF next, NextFetch, NextNull, NextEnd, Called, NoArg, Valid, Rescrolled, Unread
<1>1. SUFFICES CursorOf!Forth \/ CursorOf!ForthAdrift
  BY <1>0 DEF CursorOf!Next, CursorOf!Does
<1>2. CASE NextEnd
  <2>1. ret' = "false" /\ row_position' = num_rows + 1 /\ row_position >= num_rows
    BY <1>2 DEF NextEnd, Answer, MoveTo
  <2>2. CursorOf!Go(row_position', ret')
    BY <1>0, <2>1, Agree, GoStep
  <2> QED
    BY <2>1, <2>2 DEF CursorOf!Forth, CursorOf!Bool, CursorOf!N
<1>3. CASE NextFetch /\ ~Adrift
  <2>1. ret' = "true" /\ row_position' = row_position + 1 /\ row_position < num_rows
    BY <1>3 DEF NextFetch, Answer
  <2>2. row_position' = data_cursor' /\ row' = row_position'
    BY <1>3 DEF NextFetch, Adrift
  <2>3. CursorOf!Go(row_position', ret')
    BY <1>0, <2>2, Agree, GoStep
  <2> QED
    BY <1>3, <2>1, <2>3 DEF CursorOf!Forth, CursorOf!Bool, CursorOf!N
<1>4. CASE NextNull \/ (NextFetch /\ Adrift)
  <2>0. row_position < num_rows
    BY <1>4 DEF NextNull, NextFetch
  <2>1. Adrift /\ row_position < CursorOf!N
    <3>1. CASE NextNull
      BY <2>0, <3>1 DEF NextNull, Adrift, CursorOf!N
    <3> QED
      BY <1>4, <2>0, <3>1 DEF CursorOf!N
  <2>2. row_position' \in {row_position, row_position + 1} /\ ReadNull' = "none"
    BY <1>0, <1>4 DEF NextNull, NextFetch, ReadNull
  <2>3. ret' \in {"true", "false", "invalid_instance", "sql_error"}
    BY <1>4 DEF NextNull, NextFetch, Answer
  <2>4. (Adrift') \in BOOLEAN
    BY DEF Adrift
  <2> QED
    BY <1>0, <2>1, <2>2, <2>3, <2>4 DEF CursorOf!ForthAdrift, ReadNull
<1> QED
  BY <1>2, <1>3, <1>4 DEF next

\* previous(): the row before, or it stays before the first.
LEMMA PreviousSimulates ==
  ASSUME Inv, RSNext, previous PROVE CursorOf!Next
<1> USE Shared
<1>0. /\ call' = "previous" /\ arg' = "none"
      /\ is_open /\ last_queried_column' = NoColumn /\ UNCHANGED <<stored, is_open, was_null, got>>
  BY DEF previous, Called, NoArg, Valid, Rescrolled, Unread
<1>1. SUFFICES CursorOf!Back
  BY <1>0 DEF CursorOf!Next, CursorOf!Does
<1>2. CASE row_position = 0
  <2>1. ret' = "false" /\ UNCHANGED <<row_position, data_cursor, row>>
    BY <1>2 DEF previous, Answer
  <2>2. CursorOf!Stay("false")
    BY <1>0, <2>1, StayStep
  <2> QED
    BY <1>2, <2>2 DEF CursorOf!Back
<1>3. CASE row_position = 1
  <2>1. ret' = "false" /\ row_position' = 0 /\ data_cursor' = 0
    BY <1>3 DEF previous, Answer, data_seek
  <2>2. CursorOf!Go(0, "false")
    BY <1>0, <2>1, Agree, GoStep
  <2> QED
    BY <1>3, <2>2 DEF CursorOf!Back, CursorOf!Bool
<1>4. CASE row_position > 1
  <2>1. /\ ret' = "true" /\ row_position' = row_position - 1
        /\ row_position' = data_cursor' /\ row' = row_position'
    BY <1>4 DEF previous, Answer, SeekTo
  <2>2. CursorOf!Go(row_position - 1, "true")
    BY <1>0, <2>1, Agree, GoStep
  <2> QED
    BY <1>4, <2>2 DEF CursorOf!Back, CursorOf!Bool
<1> QED
  BY <1>2, <1>3, <1>4

\* first(), last(), beforeFirst() and afterLast().
LEMMA EndsSimulate ==
  ASSUME Inv, RSNext, first \/ last \/ beforeFirst \/ afterLast PROVE CursorOf!Next
<1> USE Shared
<1>1. ASSUME NEW p \in {1, num_rows}, num_rows > 0 => SeekTo(p),
             num_rows = 0 => UNCHANGED <<row_position, data_cursor, row>>,
             Valid, Answer(num_rows > 0), Rescrolled, Unread
      PROVE  CursorOf!ToRow(p)
  <2>1. CASE num_rows > 0
    <3>1. /\ ret' = "true" /\ row_position' = p /\ OnRow(p)
          /\ row_position' = data_cursor' /\ row' = row_position'
      BY <1>1, <2>1 DEF SeekTo, Answer, OnRow
    <3>2. CursorOf!Go(p, "true")
      BY <1>1, <3>1, Agree, GoStep DEF Valid, Rescrolled, Unread
    <3> QED
      BY <3>1, <3>2 DEF CursorOf!ToRow, CursorOf!OnARow, CursorOf!N, OnRow
  <2>2. CASE num_rows = 0
    <3>1. ret' = "false"
      BY <1>1, <2>2 DEF Answer
    <3>2. CursorOf!Stay("false")
      BY <1>1, <2>2, <3>1, StayStep DEF Valid, Rescrolled, Unread
    <3> QED
      BY <2>2, <3>2 DEF CursorOf!ToRow, CursorOf!OnARow, CursorOf!N
  <2> QED
    BY <2>1, <2>2
<1>2. CASE first
  <2>1. CursorOf!ToRow(1) /\ call' = "first" /\ arg' = "none"
    BY <1>1, <1>2 DEF first, Called, NoArg
  <2> QED
    BY <2>1 DEF CursorOf!Next, CursorOf!Does
<1>3. CASE last
  <2>1. CursorOf!ToRow(num_rows) /\ call' = "last" /\ arg' = "none"
    BY <1>1, <1>3 DEF last, Called, NoArg
  <2> QED
    BY <2>1 DEF CursorOf!Next, CursorOf!Does, CursorOf!N
<1>4. CASE beforeFirst
  <2>1. ret' = "void" /\ row_position' = 0 /\ data_cursor' = 0
    BY <1>4 DEF beforeFirst, data_seek
  <2>2. CursorOf!Go(0, "void") /\ call' = "beforeFirst" /\ arg' = "none"
    BY <1>4, <2>1, Agree, GoStep DEF beforeFirst, Called, NoArg, Valid, Rescrolled, Unread
  <2> QED
    BY <2>2 DEF CursorOf!Next, CursorOf!Does
<1>5. CASE afterLast
  <2>1. ret' = "void" /\ row_position' = num_rows + 1
    BY <1>5 DEF afterLast, MoveTo
  <2>2. CursorOf!Go(num_rows + 1, "void") /\ call' = "afterLast" /\ arg' = "none"
    BY <1>5, <2>1, Agree, GoStep DEF afterLast, Called, NoArg, Valid, Unread
  <2> QED
    BY <2>2 DEF CursorOf!Next, CursorOf!Does, CursorOf!N
<1> QED
  BY <1>2, <1>3, <1>4, <1>5

\* absolute() and relative() past the first row: the cursor may be adrift.
LEMMA BackStep ==
  ASSUME is_open, row_position' = 0, ret' = "false", last_queried_column' = NoColumn,
         UNCHANGED <<stored, is_open, got>>
  PROVE  CursorOf!GoBeforeFirst
<1>1. (Adrift') \in BOOLEAN
  BY DEF Adrift
<1>2. ReadNull' = "none"
  BY DEF ReadNull
<1> QED
  BY <1>1, <1>2 DEF CursorOf!GoBeforeFirst, ReadNull

\* absolute(n).
LEMMA AbsoluteSimulates ==
  ASSUME Inv, RSNext, NEW n \in Offsets, absolute(n) PROVE CursorOf!Next
<1> USE Shared
<1>0. /\ is_open /\ last_queried_column' = NoColumn /\ UNCHANGED <<stored, is_open, got>>
      /\ n \in Int /\ call' = "absolute" /\ arg' = n
  BY RowsAssumption DEF absolute, Called, Valid, Rescrolled, Unread
<1>1. SUFFICES CursorOf!Absolute(n)
  BY <1>0 DEF CursorOf!Next, CursorOf!Does
<1>2. CASE OnRow(Target(n))
  <2>1. /\ ret' = "true" /\ row_position' = Target(n)
        /\ row_position' = data_cursor' /\ row' = row_position'
    BY <1>0, <1>2 DEF absolute, Answer, SeekTo, OnRow, Target
  <2>2. CursorOf!Go(Target(n), "true")
    BY <1>0, <2>1, Agree, GoStep
  <2> QED
    BY <1>0, <1>2, <2>2 DEF CursorOf!Absolute, CursorOf!OnARow, CursorOf!N, OnRow, Target
<1>3. CASE n > num_rows
  <2>1. ret' = "false" /\ row_position' = num_rows + 1
    BY <1>0, <1>3 DEF absolute, Answer, MoveTo, OnRow, Target
  <2>2. CursorOf!Go(num_rows + 1, "false")
    BY <1>0, <2>1, Agree, GoStep
  <2> QED
    BY <1>3, <2>2 DEF CursorOf!Absolute, CursorOf!N
<1>4. CASE n = 0
  <2>1. ret' = "false" /\ row_position' = 0 /\ data_cursor' = 0
    BY <1>0, <1>4 DEF absolute, Answer, data_seek, OnRow, Target
  <2>2. CursorOf!Go(0, "false")
    BY <1>0, <2>1, Agree, GoStep
  <2> QED
    BY <1>4, <2>2 DEF CursorOf!Absolute
<1>5. CASE -n > num_rows
  <2>1. ret' = "false" /\ row_position' = 0
    BY <1>0, <1>5 DEF absolute, Answer, MoveTo, OnRow, Target
  <2>2. CursorOf!GoBeforeFirst
    BY <1>0, <2>1, BackStep
  <2>3. n < -num_rows
    BY <1>0, <1>5
  <2> QED
    BY <2>2, <2>3 DEF CursorOf!Absolute, CursorOf!N
<1> QED
  BY <1>2, <1>3, <1>4, <1>5 DEF absolute

\* relative(n).
LEMMA RelativeSimulates ==
  ASSUME Inv, RSNext, NEW n \in Offsets, relative(n) PROVE CursorOf!Next
<1> USE Shared
<1>0. /\ is_open /\ last_queried_column' = NoColumn /\ UNCHANGED <<stored, is_open, was_null, got>>
      /\ n \in Int /\ call' = "relative" /\ arg' = n
  BY RowsAssumption DEF relative, Called, Valid, Rescrolled, Unread
<1>1. SUFFICES CursorOf!Relative(n)
  BY <1>0 DEF CursorOf!Next, CursorOf!Does
<1>2. CASE n = 0
  <2>1. UNCHANGED <<row_position, data_cursor, row>>
    BY <1>0, <1>2 DEF relative
  <2>2. ret' = CursorOf!Bool(OnRow(row_position))
    BY <2>1 DEF relative, Answer, OnRow, CursorOf!Bool
  <2>3. CursorOf!Stay(CursorOf!Bool(OnRow(row_position)))
    BY <1>0, <2>1, <2>2, StayStep
  <2> QED
    BY <1>2, <2>3 DEF CursorOf!Relative, CursorOf!OnARow, CursorOf!N, OnRow
<1>3. CASE n # 0 /\ OnRow(row_position + n)
  <2>1. row_position' = row_position + n /\ row_position' = data_cursor' /\ row' = row_position'
    BY <1>0, <1>3 DEF relative, SeekTo
  <2>2. ret' = "true"
    BY <1>3, <2>1 DEF relative, Answer, OnRow
  <2>3. CursorOf!Go(row_position + n, "true")
    BY <1>0, <2>1, <2>2, Agree, GoStep
  <2> QED
    BY <1>3, <2>3 DEF CursorOf!Relative, CursorOf!OnARow, CursorOf!N, OnRow
<1>4. CASE n > 0 /\ ~OnRow(row_position + n)
  <2>1. row_position' = num_rows + 1
    BY <1>0, <1>4 DEF relative, MoveTo
  <2>2. ret' = "false"
    BY <2>1 DEF relative, Answer, OnRow
  <2>3. CursorOf!Go(num_rows + 1, "false")
    BY <1>0, <2>1, <2>2, Agree, GoStep
  <2>4. row_position + n > num_rows
    BY <1>0, <1>4 DEF OnRow
  <2> QED
    BY <1>4, <2>3, <2>4 DEF CursorOf!Relative, CursorOf!N
<1>5. CASE n < 0 /\ ~OnRow(row_position + n)
  <2>1. row_position' = 0
    BY <1>0, <1>5 DEF relative, MoveTo
  <2>2. ret' = "false"
    BY <2>1 DEF relative, Answer, OnRow
  <2>3. CursorOf!GoBeforeFirst
    BY <1>0, <2>1, <2>2, BackStep
  <2>4. row_position + n < 1
    BY <1>0, <1>5 DEF OnRow
  <2> QED
    BY <1>5, <2>3, <2>4 DEF CursorOf!Relative
<1> QED
  BY <1>0, <1>2, <1>3, <1>4, <1>5

\* A call that changes nothing but the answer, or nothing.
LEMMA Kept ==
  ASSUME UNCHANGED <<stored, row_position, data_cursor, row, last_queried_column, was_null>>
  PROVE  (Adrift') = Adrift /\ ReadNull' = ReadNull
BY DEF Adrift, ReadNull, OnRow, num_rows

\* findColumn() looks at the first row, the cursor at the current one.
LEMMA FoundIsCell ==
  ASSUME Inv, NEW c PROVE Found(c) <=> CursorOf!HasCell(c)
<1>1. CASE OnRow(row_position)
  <2>1. row_position \in 1 .. Len(stored) /\ 1 \in 1 .. Len(stored)
    BY <1>1 DEF OnRow, Inv, TypeOK, num_rows
  <2>2. DOMAIN stored[row_position] = DOMAIN stored[1]
    BY <2>1, RowsAssumption DEF Inv
  <2> QED
    BY <1>1, <2>2 DEF Found, CursorOf!HasCell, CursorOf!OnARow, CursorOf!N, OnRow, num_rows
<1>2. CASE ~OnRow(row_position)
  BY <1>2 DEF Found, CursorOf!HasCell, CursorOf!OnARow, CursorOf!N, OnRow, num_rows
<1> QED
  BY <1>1, <1>2

\* A getter off the rows or of no column of the result.
LEMMA ThrowsSimulates ==
  ASSUME Inv, NEW c, GetterThrows(c)
  PROVE  is_open /\ ~CursorOf!HasCell(c) /\ CursorOf!Throws("invalid_argument")
<1>1. (Adrift') = Adrift /\ ReadNull' = ReadNull
  BY Kept DEF GetterThrows
<1> QED
  BY <1>1, FoundIsCell DEF GetterThrows, Valid, CursorOf!Throws, ReadNull

\* What a getter that finds its column reads: the cell of the row the set
\* says it is on, if the positions agree.
LEMMA CellRead ==
  ASSUME Inv, ~Adrift, NEW c \in IntColumns \cup TextColumns, Found(c)
  PROVE  /\ row = row_position /\ row # 0 /\ OnRow(row_position)
         /\ c \in DOMAIN stored[row_position] /\ c # NoColumn
         /\ stored[row_position] \in Rows
<1>1. row_position \in 1 .. Len(stored) /\ 1 \in 1 .. Len(stored) /\ OnRow(row_position)
  BY DEF Found, OnRow, Inv, TypeOK, num_rows
<1>2. row = row_position /\ row # 0
  BY <1>1 DEF Adrift, Inv, TypeOK, num_rows
<1>3. DOMAIN stored[row_position] = DOMAIN stored[1]
  BY <1>1, RowsAssumption DEF Inv
<1>4. stored[row_position] \in Rows
  BY <1>1 DEF Inv, TypeOK
<1> QED
  BY <1>1, <1>2, <1>3, <1>4, RowsAssumption DEF Found

\* A getter that reads the cell of the current row.
LEMMA ReadStep ==
  ASSUME Inv, ~Adrift, NEW c \in IntColumns \cup TextColumns, Found(c), NEW shown, shown,
         was_null' = (stored[row_position][c] = Null),
         ret' = "value", last_queried_column' = c,
         UNCHANGED <<stored, row_position, data_cursor, row>>
  PROVE  CursorOf!Reads(c, shown)
<1>1. num_rows' = num_rows
  BY DEF num_rows
<1>2. OnRow(row_position) /\ c # NoColumn
  BY CellRead
<1>3. ReadNull' = CursorOf!Bool(stored[row_position][c] = Null)
  BY <1>1, <1>2 DEF ReadNull, CursorOf!Bool, OnRow
<1> QED
  BY <1>3 DEF CursorOf!Reads, ReadNull

\* getString(c).
LEMMA GetStringSimulates ==
  ASSUME Inv, NEW c \in TextColumns, getString(c) PROVE CursorOf!Next
<1>0. call' = "getString" /\ arg' = c
  BY DEF getString, Called
<1>1. SUFFICES CursorOf!GetString(c)
  BY <1>0 DEF CursorOf!Next, CursorOf!Does
<1>2. CASE GetterThrows(c)
  BY <1>2, ThrowsSimulates DEF CursorOf!GetString, CursorOf!Get
<1>3. CASE Valid /\ Found(c) /\ ~GetterThrows(c)
  <2>0. /\ is_open /\ CursorOf!HasCell(c)
        /\ UNCHANGED <<stored, is_open, row_position, data_cursor, row>>
        /\ ret' = "value" /\ last_queried_column' = c
    BY <1>3, FoundIsCell DEF getString, Got, Valid
  <2>1. (Adrift') = Adrift
    BY <2>0 DEF Adrift, num_rows
  <2>2. CASE Adrift
    BY <2>0, <2>1, <2>2 DEF CursorOf!GetString, CursorOf!Get, CursorOf!ReadsAdrift
  <2>3. CASE ~Adrift
    <3>1. row = row_position /\ row # 0
      BY <1>3, <2>3, CellRead
    <3>2. /\ was_null' = (stored[row_position][c] = Null)
          /\ Got(c, "text", IF stored[row_position][c] = Null THEN EmptyText
                            ELSE stored[row_position][c])
      BY <1>3, <3>1 DEF getString
    <3>3. CursorOf!TextCell(stored[row_position][c], got')
      BY <3>2 DEF CursorOf!TextCell, Got
    <3>4. CursorOf!Reads(c, CursorOf!TextCell(stored[row_position][c], got'))
      BY <1>3, <2>0, <2>3, <3>2, <3>3, ReadStep
    <3> QED
      BY <2>0, <2>1, <3>4 DEF CursorOf!GetString, CursorOf!Get
  <2> QED
    BY <2>2, <2>3
<1> QED
  BY <1>2, <1>3 DEF getString

\* getInt(c): with the positions agreeing it never finds a NULL row, and
\* returns the cell if it fits.
LEMMA GetIntSimulates ==
  ASSUME Inv, NEW c \in IntColumns, getInt(c) PROVE CursorOf!Next
<1>0. call' = "getInt" /\ arg' = c
  BY DEF getInt, Called
<1>1. SUFFICES CursorOf!GetInt(c)
  BY <1>0 DEF CursorOf!Next, CursorOf!Does
<1>2. CASE GetterThrows(c)
  BY <1>2, ThrowsSimulates DEF CursorOf!GetInt, CursorOf!Get
<1>3. CASE Valid /\ Found(c) /\ ~GetterThrows(c)
  <2> DEFINE v == stored[row_position][c]
  <2>0. /\ is_open /\ CursorOf!HasCell(c)
        /\ UNCHANGED <<stored, is_open, row_position, data_cursor, row>>
        /\ ret' \in {"value", "crashed"}
    BY <1>3, FoundIsCell DEF getInt, Got, NullRow, Valid
  <2>1. (Adrift') = Adrift
    BY <2>0 DEF Adrift, num_rows
  <2>2. CASE Adrift
    BY <2>0, <2>1, <2>2 DEF CursorOf!GetInt, CursorOf!Get, CursorOf!ReadsAdrift
  <2>3. CASE ~Adrift
    <3>1. row = row_position /\ row # 0 /\ (v = Null \/ v \in Int)
      BY <1>3, <2>3, CellRead, RowsAssumption
    <3>2. was_null' = (v = Null) /\ Got(c, "int", IF v = Null THEN 0 ELSE Narrowed(v))
      BY <1>3, <3>1 DEF getInt, NullRow
    <3>3. got'.type = "int" /\ got'.value = IF v = Null THEN 0 ELSE Narrowed(v)
      BY <3>2 DEF Got
    <3>4. CursorOf!IntCell(v, got')
      BY <3>1, <3>3, NarrowedFits DEF CursorOf!IntCell
    <3>5. ret' = "value" /\ last_queried_column' = c
      BY <3>2 DEF Got
    <3>6. CursorOf!Reads(c, CursorOf!IntCell(v, got'))
      BY <1>3, <2>0, <2>3, <3>2, <3>4, <3>5, ReadStep
    <3> QED
      BY <2>0, <2>1, <3>6 DEF CursorOf!GetInt, CursorOf!Get
  <2> QED
    BY <2>2, <2>3
<1> QED
  BY <1>2, <1>3 DEF getInt

\* wasNull() and the questions about the position.
LEMMA AsksSimulate ==
  ASSUME Inv, wasNull \/ isFirst \/ isBeforeFirst \/ isLast \/ isAfterLast PROVE CursorOf!Next
<1>1. CASE wasNull
  <2>0. call' = "wasNull" /\ arg' = "none" /\ is_open
    BY <1>1 DEF wasNull, Called, NoArg, Valid
  <2>1. (Adrift') = Adrift /\ ReadNull' = ReadNull
    BY <1>1, Kept DEF wasNull
  <2>2. CASE ReadNull = "none"
    <3>1. ret' = "invalid_argument" /\ UNCHANGED <<stored, is_open, row_position, got>>
      BY <1>1, <2>2 DEF wasNull, ReadNull
    <3>2. CursorOf!Throws("invalid_argument")
      BY <2>1, <3>1 DEF CursorOf!Throws, ReadNull
    <3>3. CursorOf!WasNull
      BY <2>0, <2>2, <3>2 DEF CursorOf!WasNull, ReadNull
    <3> QED
      BY <2>0, <3>3 DEF CursorOf!Next, CursorOf!Does
  <2>3. CASE ReadNull # "none"
    <3>1. ret' = ReadNull
      BY <1>1, <2>3 DEF wasNull, ReadNull, Answer
    <3>2. CursorOf!Stay(ReadNull)
      BY <1>1, <3>1, StayStep DEF wasNull, Valid
    <3>3. CursorOf!WasNull
      BY <2>0, <2>1, <2>3, <3>2 DEF CursorOf!WasNull, ReadNull
    <3> QED
      BY <2>0, <3>3 DEF CursorOf!Next, CursorOf!Does
  <2> QED
    BY <2>2, <2>3
<1>2. ASSUME NEW b, NEW s \in BOOLEAN, Asks(b, s) PROVE CursorOf!Stay(CursorOf!Bool(b))
  <2>1. ret' = CursorOf!Bool(b)
    BY <1>2 DEF Asks, Answer, CursorOf!Bool
  <2> QED
    BY <1>2, <2>1, StayStep DEF Asks, Valid, Rescrolled
<1>3. CASE isFirst
  <2>1. CursorOf!Stay(CursorOf!Bool(row_position = 1)) /\ call' = "isFirst" /\ arg' = "none"
    BY <1>2, <1>3 DEF isFirst, Called, NoArg
  <2> QED
    BY <2>1 DEF CursorOf!Next, CursorOf!Does
<1>4. CASE isBeforeFirst
  <2>1. CursorOf!Stay(CursorOf!Bool(row_position = 0)) /\ call' = "isBeforeFirst" /\ arg' = "none"
    BY <1>2, <1>4 DEF isBeforeFirst, Called, NoArg
  <2> QED
    BY <2>1 DEF CursorOf!Next, CursorOf!Does
<1>5. CASE isLast
  <2>1. CursorOf!Stay(CursorOf!Bool(row_position = CursorOf!N)) /\ call' = "isLast" /\ arg' = "none"
    BY <1>2, <1>5 DEF isLast, Called, NoArg, CursorOf!N, num_rows
  <2> QED
    BY <2>1 DEF CursorOf!Next, CursorOf!Does
<1>6. CASE isAfterLast
  <2>1. CursorOf!Stay(CursorOf!Bool(row_position = CursorOf!N + 1)) /\ call' = "isAfterLast" /\ arg' = "none"
    BY <1>2, <1>6 DEF isAfterLast, Called, NoArg, CursorOf!N, num_rows
  <2> QED
    BY <2>1 DEF CursorOf!Next, CursorOf!Does
<1> QED
  BY <1>1, <1>3, <1>4, <1>5, <1>6

-----------------------------------------------------------------------------
(***************************************************************************)
(* The refinement.                                                         *)
(***************************************************************************)

\* Every call of the result set is that call of the cursor; deleting the
\* connection changes nothing the caller sees.
LEMMA CallSimulates ==
  ASSUME Inv, RSNext
  PROVE  CursorOf!Next \/ UNCHANGED CursorOf!cvars
<1>1. ASSUME NEW m \in Methods, Invalid(m) PROVE CursorOf!Next
  <2>1. /\ ~is_open /\ ret' = "invalid_instance"
        /\ UNCHANGED <<stored, is_open, row_position, data_cursor, row, was_null, got>>
        /\ last_queried_column' = NoColumn \/ UNCHANGED last_queried_column
    BY <1>1 DEF Invalid
  <2>2. (Adrift') = Adrift /\ ReadNull' \in {ReadNull, "none"}
    BY <2>1 DEF Adrift, ReadNull, OnRow, num_rows
  <2> QED
    BY <2>1, <2>2 DEF CursorOf!Next, CursorOf!ThrowsClosed, ReadNull
<1>2. CASE close
  <2>1. (Adrift') = Adrift /\ ReadNull' = ReadNull
    BY <1>2, Kept DEF close
  <2> QED
    BY <1>2, <2>1 DEF close, Called, NoArg, Valid, CursorOf!Next, CursorOf!Does, CursorOf!Close, ReadNull
<1>3. CASE DeleteConnection
  <2>1. (Adrift') = Adrift /\ ReadNull' = ReadNull
    BY <1>3, Kept DEF DeleteConnection
  <2> QED
    BY <1>3, <2>1 DEF DeleteConnection, CursorOf!cvars, ReadNull
<1> QED
  BY <1>1, <1>2, <1>3, NextSimulates, PreviousSimulates, EndsSimulate, AbsoluteSimulates,
     RelativeSimulates, GetStringSimulates, GetIntSimulates, AsksSimulate DEF RSNext

\* The connector's result set implements the cursor: for results of any
\* length and any offsets, each call, with its argument, does what Cursor says
\* of that call.
THEOREM ImplementsCursor == RSSpec => RefinesCursor
<1>1. RSInit => CursorOf!Init
  <2>1. SUFFICES ASSUME RSInit PROVE CursorOf!Init
    OBVIOUS
  <2>2. Inv
    BY <2>1, InvInit
  <2>3. (Adrift) = FALSE /\ ReadNull = "none"
    BY <2>1 DEF RSInit, Adrift, ReadNull
  <2> QED
    BY <2>1, <2>3 DEF RSInit, NoArg, CursorOf!Init, ReadNull
<1>2. Inv /\ [RSNext]_rsvars => [CursorOf!Next]_(CursorOf!cvars)
  <2>1. SUFFICES ASSUME Inv, [RSNext]_rsvars PROVE [CursorOf!Next]_(CursorOf!cvars)
    OBVIOUS
  <2>2. CASE RSNext
    BY <2>1, <2>2, CallSimulates
  <2>3. CASE UNCHANGED rsvars
    <3>1. (Adrift') = Adrift /\ ReadNull' = ReadNull
      BY <2>3, Kept DEF rsvars
    <3> QED
      BY <2>3, <3>1 DEF rsvars, CursorOf!cvars, ReadNull
  <2> QED
    BY <2>1, <2>2, <2>3
<1> QED
  BY <1>1, <1>2, InvInit, InvStep, PTL DEF RSSpec, RefinesCursor, CursorOf!Spec
=============================================================================
