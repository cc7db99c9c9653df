---------------------------- MODULE MFScanProofs ----------------------------
(***************************************************************************)
(* Proofs about the generated program, for every query, every table and    *)
(* every number of rows: its types and iterators; then, for every intended *)
(* query, that it computes the query's answer: every cell holds its        *)
(* aggregate over the rows scanned so far, fill_mfstruct keeps the groups  *)
(* G accepts in order, and the steps of main() implement the one step of   *)
(* MFQuery.                                                                *)
(***************************************************************************)
EXTENDS MFScan, Induction, SequenceTheorems, FiniteSetTheorems, TLAPS

-----------------------------------------------------------------------------
(***************************************************************************)
(* Values and sequences.                                                   *)
(***************************************************************************)

\* Truncating division of integers by a non-zero integer is an integer.
LEMMA TruncDivInt ==
  ASSUME NEW a \in Int, NEW b \in Int, b # 0
  PROVE  TruncDiv(a, b) \in Int
<1> DEFINE Mag(x) == IF x < 0 THEN -x ELSE x
<1>1. Mag(a) \in Int /\ Mag(b) \in Nat /\ Mag(b) > 0
  OBVIOUS
<1>2. ASSUME NEW x \in Int, NEW y \in Nat, y > 0
      PROVE  x \div y \in Int
  BY <1>2
<1>3. Mag(a) \div Mag(b) \in Int
  BY <1>1, <1>2
<1>4. QED
  BY <1>3 DEF TruncDiv

\* vector::erase(it): one entry fewer, and every entry left was there before.
LEMMA RemoveAtProperties ==
  ASSUME NEW S, NEW s \in Seq(S), NEW i \in 1 .. Len(s)
  PROVE  /\ RemoveAt(s, i) \in Seq(S)
         /\ Len(RemoveAt(s, i)) = Len(s) - 1
         /\ \A j \in 1 .. Len(s) - 1 :
              RemoveAt(s, i)[j] = IF j < i THEN s[j] ELSE s[j + 1]
<1> DEFINE left == SubSeq(s, 1, i - 1)
           right == SubSeq(s, i + 1, Len(s))
<1>1. /\ left \in Seq(S) /\ Len(left) = i - 1
      /\ \A j \in 1 .. i - 1 : left[j] = s[j]
  OBVIOUS
<1>2. /\ right \in Seq(S) /\ Len(right) = Len(s) - i
      /\ \A j \in 1 .. Len(s) - i : right[j] = s[i + j]
  OBVIOUS
<1>3. RemoveAt(s, i) = left \o right
  BY DEF RemoveAt
<1>4. /\ left \o right \in Seq(S)
      /\ Len(left \o right) = Len(s) - 1
      /\ \A j \in 1 .. Len(s) - 1 :
           (left \o right)[j] = IF j < i THEN left[j] ELSE right[j - (i - 1)]
  <2> HIDE DEF left, right
  <2>1. /\ left \o right \in Seq(S)
        /\ Len(left \o right) = Len(left) + Len(right)
        /\ \A j \in 1 .. Len(left) + Len(right) :
             (left \o right)[j] = IF j <= Len(left) THEN left[j] ELSE right[j - Len(left)]
    BY <1>1, <1>2, ConcatProperties
  <2>2. Len(left) + Len(right) = Len(s) - 1 /\ \A j \in Int : j <= Len(left) <=> j < i
    BY <1>1, <1>2
  <2> QED
    BY <1>1, <2>1, <2>2
<1>5. ASSUME NEW j \in 1 .. Len(s) - 1
      PROVE  RemoveAt(s, i)[j] = IF j < i THEN s[j] ELSE s[j + 1]
  <2> HIDE DEF left, right
  <2> QED
    BY <1>1, <1>2, <1>3, <1>4
<1>6. QED
  BY <1>3, <1>4, <1>5

-----------------------------------------------------------------------------
(***************************************************************************)
(* The inductive invariant.  vfind's at(pos) is safe because the vectors   *)
(* data0..dataN stay parallel to uniques from prelim_scan on: same length, *)
(* position p holding the columns of the p-th group's first row.           *)
(***************************************************************************)
BeforeScans ==
  /\ pc = "retrieve" => it = 1 /\ uniques = <<>>
  /\ pc \in {"retrieve", "uniques"} =>
       mf_struct = <<>> /\ \A i \in Vars : dataN[i] = <<>>
  /\ pc = "uniques" =>
       it <= Len(data) + 1 /\ \A k \in DOMAIN uniques : uniques[k] < it
  /\ pc = "prelim" => it <= Len(uniques) + 1

Parallel ==
  /\ \A i \in Vars : \A p \in DOMAIN dataN[i] :
       p \in DOMAIN uniques /\ dataN[i][p].cols = SelectCols(data[uniques[p]])
  /\ pc = "prelim" => \A i \in Vars : Len(dataN[i]) = it - 1
  /\ pc \in {"scan", "fill", "print", "done"} =>
       \A i \in Vars : Len(dataN[i]) = Len(uniques)

EntriesOfGroups ==
  /\ \A p \in DOMAIN mf_struct : \E k \in DOMAIN uniques :
       mf_struct[p].cols = SelectCols(data[uniques[k]])
  /\ \A p, q \in DOMAIN mf_struct :
       p < q => ~SameGroup(mf_struct[p].cols, mf_struct[q].cols)
  /\ pc = "prelim" =>
       /\ Len(mf_struct) = it - 1
       /\ \A p \in DOMAIN mf_struct : mf_struct[p].cols = SelectCols(data[uniques[p]])
  /\ pc = "done" => output = mf_struct

IInv ==
  /\ TypeOK
  /\ BeforeScans
  /\ OneRowPerGroup
  /\ Parallel
  /\ EntriesOfGroups
  /\ NeverOutOfRange

-----------------------------------------------------------------------------
(***************************************************************************)
(* Typing of the pieces.                                                   *)
(***************************************************************************)

\* A loaded row has a value for every selected column and an integer in every
\* numeric one (getInt and its kin return 0 for NULL).
LEMMA LoadedRowTypes ==
  ASSUME NEW r \in LoadedRows
  PROVE  /\ SelectCols(r) \in [select_columns -> ColumnValues]
         /\ \A c \in NumericColumns : r[c] \in Int
<1>1. PICK row \in Rows : r = Load(row)
  BY DEF LoadedRows
<1>2. \A c \in NumericColumns : r[c] \in Int
  BY <1>1, RowsAssumption, ColumnsAssumption DEF Load
<1>3. \A c \in select_columns : r[c] \in ColumnValues
  BY ColumnsAssumption DEF ColumnValues
<1>4. QED
  BY <1>2, <1>3 DEF SelectCols

\* The first row of a group is a loaded row.
LEMMA UniqueRows ==
  ASSUME TypeOK, NEW k \in DOMAIN uniques
  PROVE  uniques[k] \in DOMAIN data /\ data[uniques[k]] \in LoadedRows
<1>1. uniques[k] \in 1 .. Len(data)
  BY DEF TypeOK
<1>2. QED
  BY <1>1 DEF TypeOK

\* The grouping attributes survive in the copied columns: V is part of S.
LEMMA SelectColsGroup ==
  ASSUME NEW r, NEW d
  PROVE  /\ SameGroup(r, SelectCols(d)) <=> SameGroup(r, d)
         /\ SameGroup(SelectCols(r), SelectCols(d)) <=> SameGroup(r, d)
         /\ SameGroup(r, d) => SameGroup(d, r)
BY ColumnsAssumption DEF SameGroup, SelectCols

Fields(i) == [cells : [AggsOf(i) -> Int], counts : [AvgsOf(i) -> Nat]]

\* One row changes an aggregate cell from an integer to an integer.
LEMMA UpdateCellInt ==
  ASSUME NEW a \in all_aggregates, NEW cell \in Int, NEW row \in LoadedRows
  PROVE  UpdateCell(a, cell, row) \in Int
<1>1. a.func \in Funcs /\ (a.func # "count" => row[a.column] \in Int)
  BY AggregatesAssumption, LoadedRowTypes
<1>2. QED
  BY <1>1 DEF UpdateCell, Funcs

\* What is read from an aggregate field, value() of an average included, is an
\* integer: Average<T>::value tests the count before it divides.
LEMMA FieldValueInt ==
  ASSUME NEW a \in all_aggregates, NEW f \in Fields(a.group)
  PROVE  FieldValue(a, f) \in Int
<1>1. a \in AggsOf(a.group) /\ (a.func = "avg" => a \in AvgsOf(a.group))
  BY DEF AggsOf, AvgsOf
<1>2. f.cells[a] \in Int /\ (a.func = "avg" => f.counts[a] \in Int)
  BY <1>1 DEF Fields
<1>3. QED
  BY <1>2, TruncDivInt DEF FieldValue

\* E is dataN with other aggregate values and nothing else changed.
SameShape(E) ==
  /\ DOMAIN E = Vars
  /\ \A j \in Vars : /\ E[j] \in Seq(Groups(j))
                     /\ Len(E[j]) = Len(dataN[j])
                     /\ DOMAIN E[j] = DOMAIN dataN[j]
                     /\ \A q \in DOMAIN dataN[j] : E[j][q].cols = dataN[j][q].cols

\* Writing the fields of one group leaves every vector as long as it was, and
\* every group its columns.
LEMMA FieldsUpdate ==
  ASSUME TypeOK, NEW i \in Vars, NEW p \in DOMAIN dataN[i], NEW f \in Fields(i)
  PROVE  SameShape([dataN EXCEPT ![i][p].fields = f])
<1> DEFINE E == [dataN EXCEPT ![i][p].fields = f]
<1>0. DOMAIN dataN = Vars /\ \A j \in Vars : dataN[j] \in Seq(Groups(j))
  BY DEF TypeOK
<1>1. DOMAIN E = Vars
  BY <1>0
<1>2. E[i] = [dataN[i] EXCEPT ![p].fields = f]
  BY <1>0
<1>3. [dataN[i][p] EXCEPT !.fields = f] \in Groups(i)
  <2>1. dataN[i][p] \in Groups(i)
    BY <1>0
  <2>2. QED
    BY <2>1 DEF Groups, Fields
<1>4. E[i] = [dataN[i] EXCEPT ![p] = [dataN[i][p] EXCEPT !.fields = f]]
  BY <1>2
<1>5. E[i] \in Seq(Groups(i)) /\ Len(E[i]) = Len(dataN[i]) /\ DOMAIN E[i] = DOMAIN dataN[i]
  BY <1>0, <1>3, <1>4
<1>6. \A q \in DOMAIN dataN[i] : E[i][q].cols = dataN[i][q].cols
  <2>1. dataN[i][p] \in Groups(i)
    BY <1>0
  <2>2. [dataN[i][p] EXCEPT !.fields = f].cols = dataN[i][p].cols
    BY <2>1 DEF Groups
  <2>3. QED
    BY <1>0, <1>4, <2>2
<1>7. \A j \in Vars : j # i => E[j] = dataN[j]
  BY <1>0
<1>8. SameShape(E)
  <2> HIDE DEF E
  <2> QED
    BY <1>0, <1>1, <1>5, <1>6, <1>7 DEF SameShape
<1>9. QED
  BY <1>8

-----------------------------------------------------------------------------
(***************************************************************************)
(* vfind finds a group where it is, and only there.                        *)
(***************************************************************************)
\* For a row of group k, vfind returns k - 1 in every dataN: the vectors run
\* parallel to uniques and no two groups agree on V.
LEMMA VfindHit ==
  ASSUME IInv, pc \in {"scan", "fill"}, NEW i \in Vars, NEW row,
         NEW k \in DOMAIN uniques, SameGroup(row, data[uniques[k]])
  PROVE  /\ vfind(i, row) = k - 1
         /\ \A j \in Vars : k \in DOMAIN dataN[j]
<1> DEFINE hits == {p \in DOMAIN dataN[i] : SameGroup(row, dataN[i][p].cols)}
<1>1. \A j \in Vars : DOMAIN dataN[j] = DOMAIN uniques
  <2>1. \A j \in Vars : Len(dataN[j]) = Len(uniques)
    BY DEF IInv, Parallel
  <2>2. QED
    BY <2>1 DEF IInv, TypeOK
<1>2. \A p \in DOMAIN dataN[i] : dataN[i][p].cols = SelectCols(data[uniques[p]])
  BY DEF IInv, Parallel
<1>3. k \in hits
  BY <1>1, <1>2, SelectColsGroup
<1>4. ASSUME NEW p \in hits
      PROVE  p = k
  <2>1. p \in DOMAIN uniques /\ SameGroup(row, data[uniques[p]])
    BY <1>1, <1>2, SelectColsGroup
  <2>2. SameGroup(data[uniques[p]], data[uniques[k]])
    BY <2>1 DEF SameGroup
  <2>3. SameGroup(data[uniques[k]], data[uniques[p]])
    BY <2>2, SelectColsGroup
  <2>4. ~(p < k) /\ ~(k < p)
    BY <2>1, <2>2, <2>3 DEF IInv, OneRowPerGroup
  <2>5. p \in Int /\ k \in Int
    BY <2>1 DEF IInv, TypeOK
  <2>6. QED
    BY <2>4, <2>5
<1>5. hits = {k} /\ k \in Int
  BY <1>3, <1>4 DEF IInv, TypeOK
<1>6. Min(hits) = k
  BY <1>5 DEF Min
<1>7. QED
  BY <1>1, <1>5, <1>6 DEF vfind

\* A row of the table, or the columns of an entry, is of some group.
LEMMA RowHasGroup ==
  ASSUME IInv, pc \in {"prelim", "scan", "fill", "print", "done"}, NEW j \in DOMAIN data
  PROVE  \E k \in DOMAIN uniques : SameGroup(data[j], data[uniques[k]])
BY DEF IInv, OneRowPerGroup, Visited

\* The columns of an mf_structure entry are those of some group.
LEMMA EntryHasGroup ==
  ASSUME IInv, NEW p \in DOMAIN mf_struct
  PROVE  \E k \in DOMAIN uniques : SameGroup(mf_struct[p].cols, data[uniques[k]])
<1>1. PICK k \in DOMAIN uniques : mf_struct[p].cols = SelectCols(data[uniques[k]])
  BY DEF IInv, EntriesOfGroups
<1>2. SameGroup(data[uniques[k]], data[uniques[k]])
  BY DEF SameGroup
<1>3. SameGroup(SelectCols(data[uniques[k]]), data[uniques[k]])
  BY <1>2, ColumnsAssumption DEF SameGroup, SelectCols
<1>4. QED
  BY <1>1, <1>3

\* One row added to the aggregates of a group.
LEMMA AccumulateFields ==
  ASSUME TypeOK, NEW i \in Vars, NEW p \in DOMAIN dataN[i], NEW row \in LoadedRows
  PROVE  \E f \in Fields(i) : Accumulate(i, p - 1, row) = [dataN EXCEPT ![i][p].fields = f]
<1> DEFINE g == dataN[i][p].fields
           f == [cells  |-> [a \in AggsOf(i) |-> UpdateCell(a, g.cells[a], row)],
                 counts |-> [a \in AvgsOf(i) |-> g.counts[a] + 1]]
<1>1. p - 1 + 1 = p
  BY DEF TypeOK
<1>2. dataN[i][p] \in Groups(i)
  BY DEF TypeOK
<1>3. g \in Fields(i)
  BY <1>2 DEF Groups, Fields
<1>4. [a \in AggsOf(i) |-> UpdateCell(a, g.cells[a], row)] \in [AggsOf(i) -> Int]
  BY <1>3, UpdateCellInt DEF Fields, AggsOf
<1>5. [a \in AvgsOf(i) |-> g.counts[a] + 1] \in [AvgsOf(i) -> Nat]
  BY <1>3 DEF Fields
<1>6. f \in Fields(i)
  BY <1>4, <1>5 DEF Fields
<1>7. Accumulate(i, p - 1, row) = [dataN EXCEPT ![i][p].fields = f]
  BY <1>1 DEF Accumulate
<1>8. QED
  BY <1>6, <1>7

\* Adding a row to an aggregate keeps lengths and columns of all dataN.
LEMMA AccumulateShape ==
  ASSUME TypeOK, NEW i \in Vars, NEW p \in DOMAIN dataN[i], NEW row \in LoadedRows
  PROVE  SameShape(Accumulate(i, p - 1, row))
<1>1. PICK f \in Fields(i) : Accumulate(i, p - 1, row) = [dataN EXCEPT ![i][p].fields = f]
  BY AccumulateFields
<1>2. QED
  BY <1>1, FieldsUpdate

\* The aggregates HAVING reads are integers.
LEMMA ValuesInt ==
  ASSUME TypeOK, NEW p, \A j \in Vars : p \in DOMAIN dataN[j]
  PROVE  \A a \in all_aggregates : Values(p - 1)[a] \in Int
<1> SUFFICES ASSUME NEW a \in all_aggregates
             PROVE  Values(p - 1)[a] \in Int
  OBVIOUS
<1>1. a.group \in Vars
  BY AggregatesAssumption
<1>2. p \in Int /\ dataN[a.group][p] \in Groups(a.group)
  BY <1>1 DEF TypeOK
<1>3. p - 1 + 1 = p
  BY <1>2
<1>4. dataN[a.group][p].fields \in Fields(a.group)
  BY <1>2 DEF Groups, Fields
<1>5. FieldValue(a, dataN[a.group][p].fields) \in Int
  BY <1>4, FieldValueInt
<1>6. QED
  BY <1>3, <1>5 DEF Values, ValueAt

\* `=` in HAVING writes an integer into one field and keeps the shape.
LEMMA AfterHavingShape ==
  ASSUME TypeOK, NEW p, \A j \in Vars : p \in DOMAIN dataN[j],
         ~HavingFaults(Values(p - 1))
  PROVE  SameShape(AfterHaving(p - 1))
<1>1. CASE ~Assigns
  BY <1>1 DEF AfterHaving, SameShape, TypeOK
<1>2. CASE Assigns
  <2> DEFINE atom == having[1][1]
             a == atom.lhs.agg
             r == Rhs(atom, Values(p - 1))
  <2>1. PICK j \in DOMAIN having : \E k \in DOMAIN having[j] : having[j][k].exp = "="
    BY <1>2 DEF Assigns
  <2>2. /\ DOMAIN having = {1} /\ DOMAIN having[1] = {1}
        /\ atom.lhs.kind = "agg" /\ a.func # "avg"
    BY <2>1, HavingAssumption
  <2>3. /\ atom.mul \in Int
        /\ \A o \in {atom.lhs, atom.num, atom.den} :
             IF o.kind = "agg" THEN o.agg \in all_aggregates ELSE o.value \in Int
    BY <2>2, HavingAssumption
  <2>4. a \in all_aggregates
    BY <2>2, <2>3
  <2>5. Divides(atom, Values(p - 1))
    <3>1. \A q \in 1 .. 0 : FALSE
      OBVIOUS
    <3>2. 1 - 1 = 0
      OBVIOUS
    <3>3. QED
      BY <2>2, <3>1, <3>2 DEF HavingFaults
  <2>6. /\ Operand(atom.num, Values(p - 1)) \in Int
        /\ Operand(atom.den, Values(p - 1)) \in Int
    BY <2>3, ValuesInt DEF Operand
  <2>7. atom.mul * Operand(atom.num, Values(p - 1)) \in Int
    BY <2>3, <2>6
  <2>8. r \in Int
    BY <2>5, <2>6, <2>7, TruncDivInt DEF Rhs, Divides
  <2>9. a.group \in Vars /\ p - 1 + 1 = p /\ p \in DOMAIN dataN[a.group]
    <3>1. a.group \in Vars
      BY <2>4, AggregatesAssumption
    <3>2. p \in DOMAIN dataN[a.group] /\ dataN[a.group] \in Seq(Groups(a.group))
      BY <3>1 DEF TypeOK
    <3>3. p \in Int
      BY <3>2
    <3>4. QED
      BY <3>1, <3>2, <3>3
  <2> DEFINE g == dataN[a.group][p].fields
             f == [g EXCEPT !.cells = [g.cells EXCEPT ![a] = r]]
  <2>10. g \in Fields(a.group)
    <3>1. dataN[a.group][p] \in Groups(a.group)
      BY <2>9 DEF TypeOK
    <3>2. QED
      BY <3>1 DEF Groups, Fields
  <2>11. f \in Fields(a.group)
    <3>1. [g.cells EXCEPT ![a] = r] \in [AggsOf(a.group) -> Int]
      BY <2>8, <2>10 DEF Fields
    <3>2. QED
      BY <2>10, <3>1 DEF Fields
  <2>12. AfterHaving(p - 1) = [dataN EXCEPT ![a.group][p].fields = f]
    BY <1>2, <2>9 DEF AfterHaving
  <2>13. QED
    <3> HIDE DEF a, f
    <3> QED
      BY <2>9, <2>11, <2>12, FieldsUpdate
<1>3. QED
  BY <1>1, <1>2

-----------------------------------------------------------------------------
(***************************************************************************)
(* The invariant holds initially, and each loop of main() keeps it.        *)
(***************************************************************************)
\* main() starts in the invariant: all vectors are empty.
LEMMA InitIInv == Init => IInv
<1> SUFFICES ASSUME Init PROVE IInv
  OBVIOUS
<1>1. TypeOK
  <2>1. 0 \in Vars /\ Vars = 0 .. no_grouping_vars
    BY VarsAssumption DEF Vars
  <2>2. QED
    BY <2>1, VarsAssumption, TablesAssumption DEF Init, TypeOK, Running
<1>2. BeforeScans
  BY DEF Init, BeforeScans
<1>3. OneRowPerGroup /\ NeverOutOfRange
  BY DEF Init, OneRowPerGroup, NeverOutOfRange
<1>4. Parallel /\ EntriesOfGroups
  BY DEF Init, Parallel, EntriesOfGroups
<1>5. QED
  BY <1>1, <1>2, <1>3, <1>4 DEF IInv

\* data_retrieval keeps the invariant.
LEMMA RetrieveKeeps ==
  IInv /\ (Retrieve \/ RetrieveFaults \/ RetrieveEnd \/ SQLException) => IInv'
<1> SUFFICES ASSUME IInv, Retrieve \/ RetrieveFaults \/ RetrieveEnd \/ SQLException
             PROVE  IInv'
  OBVIOUS
<1>1. CASE Retrieve
  <2> USE <1>1 DEF Retrieve
  <2>1. TypeOK'
    <3>1. table[Len(data) + 1] \in Rows
      BY DEF IInv, TypeOK
    <3>2. Load(table[Len(data) + 1]) \in LoadedRows
      BY <3>1 DEF LoadedRows
    <3>3. data' \in Seq(LoadedRows) /\ Len(data') = Len(data) + 1
      BY <3>2 DEF IInv, TypeOK
    <3>4. uniques' = <<>>
      BY DEF IInv, BeforeScans
    <3>5. QED
      BY <3>3, <3>4 DEF IInv, TypeOK
  <2>2. QED
    BY <2>1 DEF IInv, BeforeScans, OneRowPerGroup, Parallel, EntriesOfGroups,
                NeverOutOfRange
<1>2. CASE RetrieveFaults \/ SQLException
  BY <1>2 DEF RetrieveFaults, SQLException, IInv, TypeOK, Ended, BeforeScans,
              OneRowPerGroup, Parallel, EntriesOfGroups, NeverOutOfRange
<1>3. CASE RetrieveEnd
  <2> USE <1>3 DEF RetrieveEnd
  <2>1. TypeOK'
    BY DEF IInv, TypeOK, Running
  <2>2. BeforeScans' /\ NeverOutOfRange'
    BY DEF IInv, TypeOK, BeforeScans, NeverOutOfRange
  <2>3. OneRowPerGroup'
    BY DEF IInv, BeforeScans, OneRowPerGroup, Visited
  <2>4. Parallel' /\ EntriesOfGroups'
    BY DEF IInv, BeforeScans, Parallel, EntriesOfGroups
  <2>5. QED
    BY <2>1, <2>2, <2>3, <2>4 DEF IInv
<1>4. QED
  BY <1>1, <1>2, <1>3

\* get_uniques keeps the invariant: a row is appended only when no kept row is
\* of its group.
LEMMA UniquesKeeps == IInv /\ (Unique \/ UniqueEnd) => IInv'
<1> SUFFICES ASSUME IInv, Unique \/ UniqueEnd PROVE IInv'
  OBVIOUS
<1>1. CASE Unique
  <2> USE <1>1 DEF Unique
  <2>1. /\ it \in 1 .. Len(data)
        /\ uniques \in Seq(1 .. Len(data))
        /\ data' = data /\ it' = it + 1 /\ pc' = "uniques"
    BY DEF IInv, TypeOK
  <2>2. TypeOK'
    <3>1. uniques' \in Seq(1 .. Len(data'))
      <4>1. Append(uniques, it) \in Seq(1 .. Len(data))
        BY <2>1, AppendProperties
      <4>2. uniques' \in {uniques, Append(uniques, it)}
        OBVIOUS
      <4>3. QED
        BY <2>1, <4>1, <4>2
    <3>2. it' \in Nat \ {0}
      BY <2>1
    <3>3. QED
      BY <3>1, <3>2 DEF IInv, TypeOK
  <2>3. \A k \in DOMAIN uniques : uniques'[k] = uniques[k] /\ k \in DOMAIN uniques'
    BY <2>1
  <2>4. \A k \in DOMAIN uniques' : k \in DOMAIN uniques \/ uniques'[k] = it
    BY <2>1
  <2>5. BeforeScans' /\ Parallel' /\ EntriesOfGroups' /\ NeverOutOfRange'
    <3>1. \A k \in DOMAIN uniques' : uniques'[k] < it'
      BY <2>1, <2>3, <2>4 DEF IInv, BeforeScans
    <3>2. QED
      BY <2>1, <3>1 DEF IInv, BeforeScans, Parallel, EntriesOfGroups, NeverOutOfRange
  <2>6. OneRowPerGroup'
    <3>1. ASSUME NEW j \in 1 .. it
          PROVE  \E k \in DOMAIN uniques' :
                   uniques'[k] <= j /\ SameGroup(data[j], data[uniques'[k]])
      <4>1. CASE j < it
        <5>1. pc = "uniques" /\ j \in Visited
          BY <2>1, <4>1 DEF Visited
        <5>2. PICK k \in DOMAIN uniques :
                uniques[k] <= j /\ SameGroup(data[j], data[uniques[k]])
          BY <5>1 DEF IInv, OneRowPerGroup
        <5>3. QED
          BY <2>3, <5>2
      <4>2. CASE j = it /\ is_unique(data[it])
        <5>1. uniques' = Append(uniques, it)
          BY <4>2
        <5>2. /\ Len(uniques) + 1 \in DOMAIN uniques'
              /\ uniques'[Len(uniques) + 1] = it
          BY <2>1, <5>1
        <5>3. QED
          BY <2>1, <4>2, <5>2 DEF SameGroup
      <4>3. CASE j = it /\ ~is_unique(data[it])
        <5>1. PICK k \in DOMAIN uniques : SameGroup(data[it], data[uniques[k]])
          BY <4>3 DEF is_unique
        <5>2. uniques[k] < it
          BY <5>1 DEF IInv, BeforeScans
        <5>3. uniques[k] <= it
          BY <2>1, <5>1, <5>2
        <5>4. QED
          BY <2>3, <4>3, <5>1, <5>3
      <4>4. QED
        BY <2>1, <4>1, <4>2, <4>3
    <3>2. ASSUME NEW k \in DOMAIN uniques', NEW m \in DOMAIN uniques', k < m
          PROVE  uniques'[k] < uniques'[m]
                 /\ ~SameGroup(data[uniques'[k]], data[uniques'[m]])
      <4>1. k \in DOMAIN uniques
        BY <2>1, <3>2
      <4>2. CASE m \in DOMAIN uniques
        BY <2>3, <3>2, <4>1, <4>2 DEF IInv, OneRowPerGroup
      <4>3. CASE m \notin DOMAIN uniques
        <5>1. uniques'[m] = it /\ is_unique(data[it])
          BY <2>1, <2>4, <4>3
        <5>2. ~SameGroup(data[it], data[uniques[k]])
          BY <4>1, <5>1 DEF is_unique
        <5>3. QED
          BY <2>3, <4>1, <5>1, <5>2, SelectColsGroup DEF IInv, BeforeScans
      <4>4. QED
        BY <4>2, <4>3
    <3>3. Visited' = 1 .. it
      BY <2>1 DEF Visited
    <3>4. QED
      BY <2>1, <3>1, <3>2, <3>3 DEF OneRowPerGroup
  <2>7. QED
    BY <2>2, <2>5, <2>6 DEF IInv
<1>2. CASE UniqueEnd
  <2> USE <1>2 DEF UniqueEnd
  <2>1. TypeOK'
    BY DEF IInv, TypeOK, Running
  <2>2. BeforeScans' /\ NeverOutOfRange'
    BY DEF IInv, TypeOK, BeforeScans, NeverOutOfRange
  <2>3. Visited' = Visited
    BY DEF IInv, TypeOK, BeforeScans, Visited
  <2>4. OneRowPerGroup'
    BY <2>3 DEF IInv, OneRowPerGroup
  <2>5. Parallel' /\ EntriesOfGroups'
    BY DEF IInv, BeforeScans, Parallel, EntriesOfGroups
  <2>6. QED
    BY <2>1, <2>2, <2>4, <2>5 DEF IInv
<1>3. QED
  BY <1>1, <1>2

\* prelim_scan keeps mf_struct and every dataN parallel to uniques.
LEMMA PrelimKeeps == IInv /\ (Prelim \/ PrelimEnd) => IInv'
<1> SUFFICES ASSUME IInv, Prelim \/ PrelimEnd PROVE IInv'
  OBVIOUS
<1>1. CASE Prelim
  <2> DEFINE row == data[uniques[it]]
  <2> USE <1>1 DEF Prelim
  <2>1. it \in DOMAIN uniques /\ it \in Nat /\ row \in LoadedRows
    <3>1. it \in DOMAIN uniques /\ it \in Nat
      BY DEF IInv, TypeOK
    <3>2. QED
      BY <3>1, UniqueRows DEF IInv
  <2>2. NewEntry(row) \in Entries /\ NewEntry(row).cols = SelectCols(row)
    BY <2>1, LoadedRowTypes DEF NewEntry, Entries
  <2>3. ASSUME NEW i \in Vars
        PROVE  NewGroup(i, row) \in Groups(i) /\ NewGroup(i, row).cols = SelectCols(row)
    BY <2>1, LoadedRowTypes DEF NewGroup, Groups, ZeroFields
  <2>4. /\ Len(mf_struct) = it - 1 /\ mf_struct \in Seq(Entries)
        /\ \A i \in Vars : Len(dataN[i]) = it - 1 /\ dataN[i] \in Seq(Groups(i))
    BY DEF IInv, TypeOK, Parallel, EntriesOfGroups
  <2>5. /\ mf_struct' \in Seq(Entries) /\ Len(mf_struct') = it
        /\ \A p \in DOMAIN mf_struct : mf_struct'[p] = mf_struct[p]
        /\ mf_struct'[it] = NewEntry(row)
        /\ DOMAIN mf_struct' = DOMAIN mf_struct \cup {it}
    <3> HIDE DEF row
    <3>1. mf_struct' = Append(mf_struct, NewEntry(row))
      BY DEF row
    <3>2. QED
      BY <2>1, <2>2, <2>4, <3>1
  <2>6. ASSUME NEW i \in Vars
        PROVE  /\ dataN'[i] \in Seq(Groups(i)) /\ Len(dataN'[i]) = it
               /\ \A p \in DOMAIN dataN[i] : dataN'[i][p] = dataN[i][p]
               /\ dataN'[i][it] = NewGroup(i, row)
               /\ DOMAIN dataN'[i] = DOMAIN dataN[i] \cup {it}
    <3> HIDE DEF row
    <3>1. dataN'[i] = Append(dataN[i], NewGroup(i, row))
      BY DEF row
    <3>2. QED
      BY <2>1, <2>3, <2>4, <3>1
  <2>7. TypeOK'
    <3>1. DOMAIN dataN' = Vars /\ it' \in Nat \ {0}
      BY <2>1
    <3>2. QED
      BY <2>5, <2>6, <3>1 DEF IInv, TypeOK
  <2>8. BeforeScans' /\ OneRowPerGroup' /\ NeverOutOfRange'
    BY <2>1 DEF IInv, TypeOK, BeforeScans, OneRowPerGroup, Visited, NeverOutOfRange
  <2>9. Parallel'
    <3>1. ASSUME NEW i \in Vars, NEW p \in DOMAIN dataN'[i]
          PROVE  p \in DOMAIN uniques /\ dataN'[i][p].cols = SelectCols(data[uniques[p]])
      <4>1. CASE p \in DOMAIN dataN[i]
        BY <2>6, <4>1 DEF IInv, Parallel
      <4>2. CASE p = it
        BY <2>1, <2>3, <2>6, <4>2
      <4>3. QED
        BY <2>6, <3>1, <4>1, <4>2
    <3>2. \A i \in Vars : Len(dataN'[i]) = it' - 1
      BY <2>1, <2>6
    <3>3. QED
      BY <3>1, <3>2 DEF Parallel
  <2>10. EntriesOfGroups'
    <3>1. ASSUME NEW p \in DOMAIN mf_struct'
          PROVE  p \in DOMAIN uniques /\ mf_struct'[p].cols = SelectCols(data[uniques[p]])
      <4>1. CASE p \in DOMAIN mf_struct
        BY <2>1, <2>4, <2>5, <4>1 DEF IInv, TypeOK, EntriesOfGroups
      <4>2. CASE p = it
        BY <2>1, <2>2, <2>5, <4>2
      <4>3. QED
        BY <2>5, <3>1, <4>1, <4>2
    <3>2. ASSUME NEW p \in DOMAIN mf_struct', NEW q \in DOMAIN mf_struct', p < q
          PROVE  ~SameGroup(mf_struct'[p].cols, mf_struct'[q].cols)
      <4>1. ~SameGroup(data[uniques[p]], data[uniques[q]])
        BY <3>1, <3>2 DEF IInv, OneRowPerGroup
      <4>2. QED
        BY <3>1, <4>1, SelectColsGroup
    <3>3. Len(mf_struct') = it' - 1
      BY <2>1, <2>5
    <3>4. QED
      BY <3>1, <3>2, <3>3 DEF EntriesOfGroups
  <2>11. QED
    BY <2>7, <2>8, <2>9, <2>10 DEF IInv
<1>2. CASE PrelimEnd
  <2> USE <1>2 DEF PrelimEnd
  <2>1. TypeOK'
    BY DEF IInv, TypeOK, Running
  <2>2. BeforeScans' /\ OneRowPerGroup' /\ NeverOutOfRange' /\ EntriesOfGroups'
    BY DEF IInv, BeforeScans, OneRowPerGroup, Visited, NeverOutOfRange, EntriesOfGroups
  <2>3. it = Len(uniques) + 1
    BY DEF IInv, TypeOK, BeforeScans
  <2>4. Parallel'
    BY <2>3 DEF IInv, TypeOK, Parallel
  <2>5. QED
    BY <2>1, <2>2, <2>4 DEF IInv
<1>3. QED
  BY <1>1, <1>2

\* A step that only changes aggregate values and iterators during the scans
\* or the fill keeps the invariant.
LEMMA ShapeKeeps ==
  ASSUME IInv, pc \in {"scan", "fill"}, pc' \in {"scan", "fill", "print"},
         SameShape(dataN'), UNCHANGED <<table, data, uniques, output>>,
         gv' \in 0 .. no_grouping_vars + 1, it' \in Nat \ {0}, xt' \in Nat \ {0},
         mf_struct' \in Seq(Entries), EntriesOfGroups'
  PROVE  IInv'
<1>1. TypeOK'
  <2>1. DOMAIN dataN' = Vars /\ \A i \in Vars : dataN'[i] \in Seq(Groups(i))
    BY DEF SameShape
  <2>2. QED
    BY <2>1 DEF IInv, TypeOK, Running
<1>2. BeforeScans' /\ OneRowPerGroup' /\ NeverOutOfRange'
  BY DEF IInv, BeforeScans, OneRowPerGroup, Visited, NeverOutOfRange
<1>3. Parallel'
  <2>1. ASSUME NEW i \in Vars
        PROVE  /\ Len(dataN'[i]) = Len(dataN[i]) /\ DOMAIN dataN'[i] = DOMAIN dataN[i]
               /\ \A q \in DOMAIN dataN[i] : dataN'[i][q].cols = dataN[i][q].cols
    BY DEF SameShape
  <2>2. UNCHANGED <<data, uniques>>
    OBVIOUS
  <2>3. Parallel
    BY DEF IInv
  <2> QED
    BY <2>1, <2>2, <2>3 DEF Parallel
<1>4. QED
  BY <1>1, <1>2, <1>3 DEF IInv

\* The lengths the loops count to.
LEMMA LengthsNat ==
  ASSUME TypeOK PROVE Len(uniques) \in Nat /\ Len(data) \in Nat
BY DEF TypeOK

\* A step that leaves dataN alone keeps its shape.
LEMMA SameShapeRefl ==
  ASSUME TypeOK
  PROVE  SameShape(dataN)
BY DEF SameShape, TypeOK

\* Both forms of the aggregate scans keep the invariant; the MF form never
\* meets vfind = -1.
LEMMA ScanKeeps ==
  IInv /\ (\/ ScanRow \/ ScanRowsEnd
           \/ ScanPair \/ ScanGroupEnd \/ ScanPairsEnd \/ ScansEnd) => IInv'
<1> SUFFICES ASSUME IInv, \/ ScanRow \/ ScanRowsEnd
                          \/ ScanPair \/ ScanGroupEnd \/ ScanPairsEnd \/ ScansEnd
             PROVE  IInv'
  OBVIOUS
<1>1. /\ TypeOK /\ SameShape(dataN) /\ Vars = 0 .. no_grouping_vars /\ no_grouping_vars \in Nat
      /\ gv \in 0 .. no_grouping_vars + 1 /\ it \in Nat \ {0} /\ xt \in Nat \ {0}
      /\ mf_struct \in Seq(Entries) /\ EntriesOfGroups
  BY SameShapeRefl, VarsAssumption DEF IInv, TypeOK, Vars
<1>2. CASE ScanRow
  <2> USE <1>2 DEF ScanRow
  <2>1. it \in DOMAIN data /\ data[it] \in LoadedRows
    BY <1>1 DEF TypeOK
  <2>2. PICK k \in DOMAIN uniques : SameGroup(data[it], data[uniques[k]])
    BY <2>1, RowHasGroup
  <2>3. vfind(gv, data[it]) = k - 1 /\ k \in DOMAIN dataN[gv] /\ k \in Nat \ {0}
    <3>1. k \in Nat \ {0}
      BY <1>1, <2>2 DEF TypeOK
    <3>2. QED
      BY <2>2, <3>1, VfindHit
  <2>4. pc' = "scan"
    BY <2>3
  <2>5. SameShape(dataN')
    <3>1. SameShape(Accumulate(gv, k - 1, data[it]))
      BY <1>1, <2>1, <2>3, AccumulateShape
    <3>2. dataN' = dataN \/ dataN' = Accumulate(gv, k - 1, data[it])
      BY <2>3
    <3>3. QED
      BY <1>1, <3>1, <3>2
  <2>6. EntriesOfGroups'
    BY <1>1, <2>4 DEF EntriesOfGroups
  <2>7. it' \in Nat \ {0}
    BY <1>1
  <2>8. QED
    BY <1>1, <2>4, <2>5, <2>6, <2>7, ShapeKeeps
<1>3. CASE ScanRowsEnd \/ ScanPairsEnd
  <2> USE <1>3 DEF ScanRowsEnd, ScanPairsEnd
  <2>1. gv' \in 0 .. no_grouping_vars + 1
    BY <1>1
  <2>2. EntriesOfGroups' /\ SameShape(dataN')
    BY <1>1 DEF EntriesOfGroups
  <2>3. QED
    BY <1>1, <2>1, <2>2, ShapeKeeps
<1>4. CASE ScanPair
  <2> USE <1>4 DEF ScanPair
  <2>1. it \in DOMAIN dataN[gv] /\ data[xt] \in LoadedRows
    <3>1. Len(dataN[gv]) = Len(uniques) /\ dataN[gv] \in Seq(Groups(gv))
      BY <1>1 DEF IInv, Parallel, TypeOK
    <3>2. it \in 1 .. Len(uniques) /\ xt \in 1 .. Len(data)
      BY <1>1, LengthsNat
    <3>3. DOMAIN dataN[gv] = 1 .. Len(uniques)
      BY <3>1
    <3>4. data \in Seq(LoadedRows)
      BY <1>1 DEF TypeOK
    <3> QED
      BY <3>2, <3>3, <3>4
  <2>2. SameShape(dataN')
    <3>1. SameShape(Accumulate(gv, it - 1, data[xt]))
      BY <1>1, <2>1, AccumulateShape
    <3>2. dataN' = dataN \/ dataN' = Accumulate(gv, it - 1, data[xt])
      OBVIOUS
    <3>3. QED
      BY <1>1, <3>1, <3>2
  <2>3. EntriesOfGroups' /\ xt' \in Nat \ {0}
    BY <1>1 DEF EntriesOfGroups
  <2>4. QED
    BY <1>1, <2>2, <2>3, ShapeKeeps
<1>5. CASE ScanGroupEnd
  <2> USE <1>5 DEF ScanGroupEnd
  <2>1. EntriesOfGroups' /\ SameShape(dataN') /\ it' \in Nat \ {0} /\ xt' \in Nat \ {0}
    BY <1>1 DEF EntriesOfGroups
  <2>2. QED
    BY <1>1, <2>1, ShapeKeeps
<1>6. CASE ScansEnd
  <2> USE <1>6 DEF ScansEnd
  <2>1. EntriesOfGroups' /\ SameShape(dataN')
    BY <1>1 DEF EntriesOfGroups
  <2>2. QED
    BY <1>1, <2>1, ShapeKeeps
<1>7. QED
  BY <1>2, <1>3, <1>4, <1>5, <1>6

\* fill_mfstruct keeps the invariant, erasing and assigning as it does.
LEMMA FillKeeps ==
  IInv /\ (FillKeep \/ FillErase \/ FillAborts \/ FillEnd \/ PrintResult) => IInv'
<1> SUFFICES ASSUME IInv, FillKeep \/ FillErase \/ FillAborts \/ FillEnd \/ PrintResult
             PROVE  IInv'
  OBVIOUS
<1> DEFINE pos == vfind(0, mf_struct[it].cols)
<1>1. /\ TypeOK /\ SameShape(dataN) /\ 0 \in Vars
      /\ gv \in 0 .. no_grouping_vars + 1 /\ it \in Nat \ {0} /\ xt \in Nat \ {0}
      /\ mf_struct \in Seq(Entries) /\ EntriesOfGroups
  BY SameShapeRefl, VarsAssumption DEF IInv, TypeOK, Vars
\* The entry's group is found: the test for pos == -1 never fires.
<1>2. ASSUME pc = "fill", it <= Len(mf_struct)
      PROVE  /\ it \in DOMAIN mf_struct
             /\ \E k \in Nat \ {0} : pos = k - 1 /\ \A j \in Vars : k \in DOMAIN dataN[j]
  <2>1. it \in DOMAIN mf_struct
    BY <1>1, <1>2
  <2>2. PICK k \in DOMAIN uniques : SameGroup(mf_struct[it].cols, data[uniques[k]])
    BY <2>1, EntryHasGroup
  <2>3. pos = k - 1 /\ \A j \in Vars : k \in DOMAIN dataN[j]
    BY <1>1, <1>2, <2>2, VfindHit
  <2>4. k \in Nat \ {0}
    BY <1>1, <2>2 DEF TypeOK
  <2>5. QED
    BY <2>1, <2>3, <2>4
<1>3. CASE FillKeep
  <2> USE <1>3 DEF FillKeep
  <2>1. PICK k \in Nat \ {0} : pos = k - 1 /\ \A j \in Vars : k \in DOMAIN dataN[j]
    BY <1>2
  <2>2. it \in DOMAIN mf_struct
    BY <1>2
  <2>3. ~HavingFaults(Values(pos))
    <3>1. pos # -1
      BY <2>1
    <3> HIDE DEF pos
    <3>2. Verdict(pos) = "keep"
      BY DEF pos
    <3>3. QED
      BY <3>1, <3>2 DEF Verdict
  <2>4. SameShape(AfterHaving(k - 1))
    BY <1>1, <2>1, <2>3, AfterHavingShape
  <2>5. SameShape(dataN')
    BY <2>1, <2>4
  <2> DEFINE filled == Filled(mf_struct[it], pos, AfterHaving(pos))
  <2>6. filled \in Entries /\ filled.cols = mf_struct[it].cols
    <3>1. \A a \in select_aggregates :
            FieldValue(a, AfterHaving(k - 1)[a.group][k - 1 + 1].fields) \in Int
      <4> SUFFICES ASSUME NEW a \in select_aggregates
                   PROVE  FieldValue(a, AfterHaving(k - 1)[a.group][k - 1 + 1].fields) \in Int
        OBVIOUS
      <4>1. a \in all_aggregates /\ a.group \in Vars /\ k - 1 + 1 = k
        BY AggregatesAssumption
      <4>2. AfterHaving(k - 1)[a.group][k] \in Groups(a.group)
        BY <2>1, <2>4, <4>1 DEF SameShape
      <4>3. AfterHaving(k - 1)[a.group][k].fields \in Fields(a.group)
        BY <4>2 DEF Groups, Fields
      <4>4. QED
        BY <4>1, <4>3, FieldValueInt
    <3>2. mf_struct[it] \in Entries
      BY <1>1, <2>2
    <3>3. filled = [mf_struct[it] EXCEPT !.aggs =
                      [a \in select_aggregates |->
                         FieldValue(a, AfterHaving(k - 1)[a.group][k - 1 + 1].fields)]]
      BY <2>1 DEF Filled
    <3> HIDE DEF filled
    <3>4. QED
      BY <3>1, <3>2, <3>3 DEF Entries
  <2>7. /\ mf_struct' \in Seq(Entries)
        /\ DOMAIN mf_struct' = DOMAIN mf_struct
        /\ \A p \in DOMAIN mf_struct : mf_struct'[p].cols = mf_struct[p].cols
    <3> HIDE DEF filled
    <3>1. mf_struct' = [mf_struct EXCEPT ![it] = filled]
      BY DEF filled
    <3>2. QED
      BY <1>1, <2>2, <2>6, <3>1
  <2>8. EntriesOfGroups'
    BY <1>1, <2>7 DEF EntriesOfGroups
  <2>9. it' \in Nat \ {0}
    BY <1>1
  <2>10. QED
    BY <1>1, <2>5, <2>7, <2>8, <2>9, ShapeKeeps
<1>4. CASE FillErase
  <2> USE <1>4 DEF FillErase, EraseThenStep
  <2>1. PICK k \in Nat \ {0} : pos = k - 1 /\ \A j \in Vars : k \in DOMAIN dataN[j]
    BY <1>2
  <2>2. it \in DOMAIN mf_struct
    BY <1>2
  <2>3. ~HavingFaults(Values(pos)) /\ pos # -1
    <3>1. pos # -1
      BY <2>1
    <3> HIDE DEF pos
    <3>2. Verdict(pos) = "erase"
      BY DEF pos
    <3>3. QED
      BY <3>1, <3>2 DEF Verdict
  <2>4. SameShape(dataN')
    <3>1. SameShape(AfterHaving(k - 1))
      BY <1>1, <2>1, <2>3, AfterHavingShape
    <3>2. QED
      BY <2>1, <2>3, <3>1
  <2>5. /\ mf_struct' \in Seq(Entries)
        /\ Len(mf_struct') = Len(mf_struct) - 1
        /\ \A j \in 1 .. Len(mf_struct) - 1 :
             mf_struct'[j] = IF j < it THEN mf_struct[j] ELSE mf_struct[j + 1]
    <3>1. it \in 1 .. Len(mf_struct) /\ mf_struct' = RemoveAt(mf_struct, it)
      BY <1>1, <2>2
    <3>2. QED
      BY <1>1, <3>1, RemoveAtProperties
  <2>6. EntriesOfGroups'
    <3>1. DOMAIN mf_struct' = 1 .. Len(mf_struct) - 1 /\ DOMAIN mf_struct = 1 .. Len(mf_struct)
      BY <1>1, <2>5
    <3> DEFINE old(j) == IF j < it THEN j ELSE j + 1
    <3>2. ASSUME NEW p \in DOMAIN mf_struct'
          PROVE  old(p) \in DOMAIN mf_struct /\ mf_struct'[p] = mf_struct[old(p)] /\ p \in Int
      BY <1>1, <2>5, <3>1
    <3>3. \A p, q \in DOMAIN mf_struct' : p < q => old(p) < old(q)
      BY <1>1, <3>1
    <3> HIDE DEF old
    <3>4. QED
      BY <1>1, <3>2, <3>3 DEF EntriesOfGroups
  <2>7. QED
    BY <1>1, <2>4, <2>5, <2>6, ShapeKeeps
<1>5. CASE FillAborts
  <2> USE <1>5 DEF FillAborts
  <2>1. pos # -1
    BY <1>2
  <2>2. pc' = "sigfpe"
    <3> HIDE DEF pos
    <3>1. Verdict(pos) \in {"out_of_range", "sigfpe"} /\ pc' = Verdict(pos)
      BY DEF pos
    <3>2. QED
      BY <2>1, <3>1 DEF Verdict
  <2>3. QED
    BY <2>2 DEF IInv, TypeOK, Ended, BeforeScans, OneRowPerGroup, Visited, Parallel,
                EntriesOfGroups, NeverOutOfRange
<1>6. CASE FillEnd
  <2> USE <1>6 DEF FillEnd
  <2>1. EntriesOfGroups' /\ SameShape(dataN')
    BY <1>1 DEF EntriesOfGroups
  <2>2. QED
    BY <1>1, <2>1, ShapeKeeps
<1>7. CASE PrintResult
  BY <1>7 DEF PrintResult, IInv, TypeOK, Ended, BeforeScans, OneRowPerGroup, Visited,
              Parallel, EntriesOfGroups, NeverOutOfRange
<1>8. QED
  BY <1>3, <1>4, <1>5, <1>6, <1>7

-----------------------------------------------------------------------------
(***************************************************************************)
(* The theorems.                                                           *)
(***************************************************************************)
\* Every step of the generated program keeps the invariant.
LEMMA NextIInv == IInv /\ [Next]_vars => IInv'
<1> SUFFICES ASSUME IInv, [Next]_vars PROVE IInv'
  OBVIOUS
<1>1. CASE UNCHANGED vars
  BY <1>1 DEF vars, IInv, TypeOK, BeforeScans, OneRowPerGroup, Visited, Parallel,
              EntriesOfGroups, NeverOutOfRange
<1>2. CASE Next
  BY <1>2, RetrieveKeeps, UniquesKeeps, PrelimKeeps, ScanKeeps, FillKeeps DEF Next
<1>3. QED
  BY <1>1, <1>2

\* The invariant holds in every reachable state.
LEMMA Invariance == Spec => []IInv
BY InitIInv, NextIInv, PTL DEF Spec

\* Every variable of the generated program keeps its type, for every query
\* the C++ compiler accepts and every table.
THEOREM TypeCorrect == Spec => []TypeOK
<1>1. IInv => TypeOK
  BY DEF IInv
<1>2. QED
  BY <1>1, Invariance, PTL

\* No at(pos) of the generated program throws: vfind never fails where its
\* result is dereferenced.
THEOREM Safe == Spec => []NeverOutOfRange
<1>1. IInv => NeverOutOfRange
  BY DEF IInv
<1>2. QED
  BY <1>1, Invariance, PTL

\* get_uniques keeps the first row of each group, each group once.
THEOREM UniquesAreFirsts == Spec => []OneRowPerGroup
<1>1. IInv => OneRowPerGroup
  BY DEF IInv
<1>2. QED
  BY <1>1, Invariance, PTL

\* No group is printed twice, and only groups of the table are.
THEOREM PrintsOnce == Spec => []PrintsGroupsOnce
<1>1. IInv => PrintsGroupsOnce
  <2> SUFFICES ASSUME IInv, pc = "done" PROVE PrintsGroupsOnce
    BY DEF PrintsGroupsOnce
  <2>1. output = mf_struct /\ EntriesOfGroups /\ TypeOK
    BY DEF IInv, EntriesOfGroups
  <2>2. \A p \in DOMAIN output : \E j \in DOMAIN data : output[p].cols = SelectCols(data[j])
    BY <2>1, UniqueRows DEF EntriesOfGroups
  <2>3. ASSUME NEW p \in DOMAIN output, NEW q \in DOMAIN output, p # q
        PROVE  ~SameGroup(output[p].cols, output[q].cols)
    <3>1. p < q \/ q < p
      BY <2>1, <2>3 DEF TypeOK
    <3>2. QED
      BY <2>1, <3>1, SelectColsGroup DEF EntriesOfGroups
  <2>4. QED
    BY <2>2, <2>3 DEF PrintsGroupsOnce
<1>2. QED
  BY <1>1, Invariance, PTL

-----------------------------------------------------------------------------
(***************************************************************************)
(* The sum of a column over a set of rows.                                 *)
(***************************************************************************)
\* The sum of column c over the rows of d at positions S.
Sum(c, d, S) == MapThenSumSet(LAMBDA j : d[j][c], S)

\* An element of a set: the one the fold takes.
One(s) == CHOOSE x \in s : TRUE

\* The function the fold builds, as a function of its own.
SumFn(c, d, S) ==
  CHOOSE h : h = [s \in SUBSET S |-> IF s = {} THEN 0 ELSE d[One(s)][c] + h[s \ {One(s)}]]

\* The sum is its value for the whole set.
LEMMA SumIs ==
  ASSUME NEW c, NEW d, NEW S PROVE Sum(c, d, S) = SumFn(c, d, S)[S]
BY DEF Sum, MapThenSumSet, MapThenFoldSet, SumFn, One

\* The sizes of the subsets of a finite set; without an element a set is smaller.
Size(S) == [s \in SUBSET S |-> Cardinality(s)]

\* The size of a subset is a measure that goes down with every element taken.
LEMMA SizeFacts ==
  ASSUME NEW S, IsFiniteSet(S)
  PROVE  /\ Size(S) \in [SUBSET S -> Nat]
         /\ Cardinality(S) + 1 \in Nat
         /\ \A s \in SUBSET S : Size(S)[s] < Cardinality(S) + 1
         /\ \A s \in SUBSET S : \A x \in s :
              s \ {x} \in SUBSET S /\ Size(S)[s \ {x}] < Size(S)[s]
<1>1. Cardinality(S) \in Nat
  BY FS_CardinalityType
<1>2. ASSUME NEW s \in SUBSET S
      PROVE  Size(S)[s] \in Nat /\ Size(S)[s] = Cardinality(s) /\ Size(S)[s] <= Cardinality(S)
  <2>1. IsFiniteSet(s) /\ Cardinality(s) <= Cardinality(S)
    BY FS_Subset
  <2>2. Cardinality(s) \in Nat
    BY <2>1, FS_CardinalityType
  <2> QED
    BY <2>1, <2>2 DEF Size
<1>3. ASSUME NEW s \in SUBSET S, NEW x \in s
      PROVE  s \ {x} \in SUBSET S /\ Size(S)[s \ {x}] < Size(S)[s]
  <2>1. IsFiniteSet(s)
    BY FS_Subset
  <2>2. Cardinality(s \ {x}) = Cardinality(s) - 1
    BY <2>1, FS_RemoveElement
  <2>3. Size(S)[s] = Cardinality(s) /\ Size(S)[s \ {x}] = Cardinality(s \ {x}) /\ Size(S)[s] \in Nat
    BY <1>2
  <2>4. Size(S)[s \ {x}] = Size(S)[s] - 1
    BY <2>2, <2>3
  <2> QED
    BY <2>3, <2>4
<1>4. Size(S) \in [SUBSET S -> Nat]
  <2>1. \A s \in SUBSET S : Cardinality(s) \in Nat
    BY <1>2
  <2> QED
    BY <2>1 DEF Size
<1>5. \A s \in SUBSET S : Size(S)[s] < Cardinality(S) + 1
  BY <1>1, <1>2
<1> QED
  BY <1>1, <1>3, <1>4, <1>5

\* The column holds integers in the rows of S.
AllInt(c, d, S) == \A j \in S : d[j][c] \in Int

\* F has a sum for every subset of S, by the recursion of the fold.
Sums(F, c, d, S) ==
  /\ F \in [SUBSET S -> Int]
  /\ \A s \in SUBSET S : F[s] = IF s = {} THEN 0 ELSE d[One(s)][c] + F[s \ {One(s)}]

\* Over a finite set of integers the fold of sum and avg is what its recursion says.
LEMMA SumFnExists ==
  ASSUME NEW c, NEW d, NEW S, IsFiniteSet(S), AllInt(c, d, S)
  PROVE  Sums(SumFn(c, d, S), c, d, S)
<1> DEFINE I == SUBSET S
           D == Int
           B == Cardinality(S) + 1
           mu == Size(S)
           body(s, h) == IF s = {} THEN 0 ELSE d[One(s)][c] + h[s \ {One(s)}]
           step == [p \in I \X [I -> D] |-> body(p[1], p[2])]
<1>1. D # {} /\ B \in Nat /\ mu \in [I -> Nat] /\ \A s \in I : mu[s] < B
  <2>1. 0 \in D
    OBVIOUS
  <2>2. B \in Nat /\ mu \in [I -> Nat] /\ \A s \in I : mu[s] < B
    BY SizeFacts, Zenon
  <2> HIDE DEF D
  <2> QED
    BY <2>1, <2>2
<1>3. ASSUME NEW s \in I, s # {}
      PROVE  s \ {One(s)} \in I /\ mu[s \ {One(s)}] < mu[s] /\ d[One(s)][c] \in Int
  <2>1. One(s) \in s
    BY <1>3 DEF One
  <2>2. s \ {One(s)} \in SUBSET S /\ Size(S)[s \ {One(s)}] < Size(S)[s]
    BY <2>1, SizeFacts
  <2> QED
    BY <2>1, <2>2 DEF AllInt
<1>4. ASSUME NEW s \in I, NEW h, \A j \in I : mu[j] < mu[s] => h[j] \in D
      PROVE  body(s, h) \in D
  <2>1. CASE s = {}
    BY <2>1
  <2>2. CASE s # {}
    <3>1. d[One(s)][c] \in Int /\ h[s \ {One(s)}] \in Int
      BY <2>2, <1>3, <1>4
    <3> QED
      BY <2>2, <3>1
  <2> QED
    BY <2>1, <2>2
<1>5. ASSUME NEW s \in I, NEW h, NEW k, \A j \in I : mu[j] < mu[s] => h[j] = k[j]
      PROVE  body(s, h) = body(s, k)
  <2>1. CASE s = {}
    BY <2>1
  <2>2. CASE s # {}
    <3>1. h[s \ {One(s)}] = k[s \ {One(s)}]
      BY <2>2, <1>3, <1>5
    <3> QED
      BY <3>1
  <2> QED
    BY <2>1, <2>2
<1> HIDE DEF D, B, mu, I, body
<1>6. \A s \in I, h \in [I -> D] : step[<<s, h>>] = body(s, h)
  OBVIOUS
<1>7. step \in [I \X [I -> D] -> D]
  <2>1. \A p \in I \X [I -> D] : p[1] \in I /\ p[2] \in [I -> D]
    OBVIOUS
  <2>2. \A p \in I \X [I -> D] : body(p[1], p[2]) \in D
    BY <2>1, <1>4
  <2> QED
    BY <2>2
<1> HIDE DEF step
<1>8. \A s \in I : \A h, k \in [I -> D] :
        (\A j \in I : mu[j] < mu[s] => h[j] = k[j]) => step[<<s, h>>] = step[<<s, k>>]
  BY <1>5, <1>6
<1>9. IsRecursion(I, D, mu, B, step)
  BY <1>1, <1>7, <1>8, Zenon DEF IsRecursion
<1>10. PICK h \in [I -> D] : \A s \in I : h[s] = step[<<s, h>>]
  BY <1>9, RecursiveFunction
<1>11. h = [s \in I |-> body(s, h)]
  BY <1>10, <1>6
<1> DEFINE F == SumFn(c, d, S)
<1>12. F = [s \in I |-> body(s, F)]
  BY <1>11 DEF SumFn, body, I
<1> HIDE DEF F
<1> DEFINE T == {s \in I : F[s] \in D}
<1>13. \A s \in I : (\A j \in I : mu[j] < mu[s] => j \in T) => s \in T
  BY <1>12, <1>4
<1>14. \A s \in I : s \in T
  <2> HIDE DEF T
  <2> QED
    BY <1>13, <1>1, MeasureInduction, Zenon
<1>15. F \in [I -> D]
  BY <1>12, <1>14
<1>16. \A s \in I : F[s] = body(s, F)
  BY <1>12
<1> QED
  BY <1>15, <1>16 DEF F, I, D, body, Sums

\* Whichever element is taken first.
LEMMA SumTakeAny ==
  ASSUME NEW c, NEW d, NEW S, IsFiniteSet(S), AllInt(c, d, S)
  PROVE  \A s \in SUBSET S : \A x \in s :
           SumFn(c, d, S)[s] = d[x][c] + SumFn(c, d, S)[s \ {x}]
<1>0. Sums(SumFn(c, d, S), c, d, S)
  BY SumFnExists, Zenon
<1> DEFINE I == SUBSET S
           F == SumFn(c, d, S)
           mu == Size(S)
           v(x) == d[x][c]
           T == {s \in I : \A x \in s : F[s] = v(x) + F[s \ {x}]}
<1>1. /\ F \in [I -> Int]
      /\ \A s \in I : F[s] = IF s = {} THEN 0 ELSE v(One(s)) + F[s \ {One(s)}]
  BY <1>0 DEF Sums
<1>2. /\ mu \in [I -> Nat]
      /\ \A s \in I : \A x \in s : s \ {x} \in I /\ mu[s \ {x}] < mu[s]
  BY SizeFacts
<1>3. \A x \in S : v(x) \in Int
  BY DEF AllInt
<1> HIDE DEF F, mu, v
<1>4. \A s \in I : (\A j \in I : mu[j] < mu[s] => j \in T) => s \in T
  <2> SUFFICES ASSUME NEW s \in I, \A j \in I : mu[j] < mu[s] => j \in T, NEW x \in s
               PROVE  F[s] = v(x) + F[s \ {x}]
    OBVIOUS
  <2> DEFINE y == One(s)
             r == (s \ {x}) \ {y}
  <2>1. y \in s /\ x \in S /\ y \in S
    BY DEF One
  <2>2. F[s] = v(y) + F[s \ {y}]
    BY <1>1, <2>1
  <2>3. CASE x = y
    BY <2>2, <2>3
  <2>4. CASE x # y
    <3>1. s \ {x} \in T /\ s \ {y} \in T /\ y \in s \ {x} /\ x \in s \ {y}
      BY <1>2, <2>1, <2>4
    <3>2. (s \ {y}) \ {x} = r
      OBVIOUS
    <3>3. F[s \ {x}] = v(y) + F[r] /\ F[s \ {y}] = v(x) + F[(s \ {y}) \ {x}]
      BY <3>1
    <3>4. r \in I
      OBVIOUS
    <3>5. F[r] \in Int /\ v(x) \in Int /\ v(y) \in Int
      BY <1>1, <1>3, <2>1, <3>4
    <3> HIDE DEF T, y, r
    <3>6. F[s \ {y}] = v(x) + F[r]
      BY <3>2, <3>3
    <3>7. F[s] = v(y) + (v(x) + F[r]) /\ v(x) + F[s \ {x}] = v(x) + (v(y) + F[r])
      BY <2>2, <3>3, <3>6
    <3>8. \A p, q, t \in Int : p + (q + t) = q + (p + t)
      OBVIOUS
    <3> QED
      BY <3>5, <3>7, <3>8
  <2> QED
    BY <2>3, <2>4
<1>5. \A s \in I : s \in T
  <2> HIDE DEF T, I
  <2> QED
    BY <1>2, <1>4, MeasureInduction, Zenon
<1> QED
  BY <1>5 DEF F, v

\* The sum over a part does not depend on the whole.
LEMMA SumOfPart ==
  ASSUME NEW c, NEW d, NEW S, IsFiniteSet(S), AllInt(c, d, S), NEW P \in SUBSET S
  PROVE  SumFn(c, d, S)[P] = SumFn(c, d, P)[P]
<1>0. IsFiniteSet(P) /\ AllInt(c, d, P)
  BY FS_Subset DEF AllInt
<1>01. Sums(SumFn(c, d, S), c, d, S)
  BY SumFnExists, Zenon
<1>02. Sums(SumFn(c, d, P), c, d, P)
  BY <1>0, SumFnExists, Zenon
<1> DEFINE I == SUBSET P
           F == SumFn(c, d, S)
           G == SumFn(c, d, P)
           mu == Size(P)
           T == {s \in I : F[s] = G[s]}
<1>1. \A s \in SUBSET S : F[s] = IF s = {} THEN 0 ELSE d[One(s)][c] + F[s \ {One(s)}]
  BY <1>01 DEF Sums
<1>2. \A s \in I : G[s] = IF s = {} THEN 0 ELSE d[One(s)][c] + G[s \ {One(s)}]
  BY <1>02 DEF Sums
<1>3. /\ mu \in [I -> Nat]
      /\ \A s \in I : \A x \in s : s \ {x} \in I /\ mu[s \ {x}] < mu[s]
  BY <1>0, SizeFacts
<1> HIDE DEF F, G, mu
<1>4. \A s \in I : (\A j \in I : mu[j] < mu[s] => j \in T) => s \in T
  <2> SUFFICES ASSUME NEW s \in I, \A j \in I : mu[j] < mu[s] => j \in T
               PROVE  F[s] = G[s]
    OBVIOUS
  <2>0. s \in SUBSET S
    OBVIOUS
  <2>1. CASE s = {}
    BY <2>0, <2>1, <1>1, <1>2
  <2>2. CASE s # {}
    <3>1. One(s) \in s
      BY <2>2 DEF One
    <3>2. F[s \ {One(s)}] = G[s \ {One(s)}]
      BY <3>1, <1>3
    <3> QED
      BY <2>0, <2>2, <3>2, <1>1, <1>2
  <2> QED
    BY <2>1, <2>2
<1>5. \A s \in I : s \in T
  <2> HIDE DEF T, I
  <2> QED
    BY <1>3, <1>4, MeasureInduction, Zenon
<1> QED
  BY <1>5 DEF F, G

\* No rows sum up to 0, and one more row adds its value.
LEMMA SumEmpty ==
  ASSUME NEW c, NEW d PROVE Sum(c, d, {}) = 0
<1>1. IsFiniteSet({}) /\ AllInt(c, d, {})
  BY FS_EmptySet DEF AllInt
<1>2. {} \in SUBSET {}
  OBVIOUS
<1>3. SumFn(c, d, {})[{}] = 0
  BY <1>1, <1>2, SumFnExists DEF Sums
<1> QED
  BY <1>3, SumIs

\* One more row adds its value, whichever row the fold takes first.
LEMMA SumAdd ==
  ASSUME NEW c, NEW d, NEW S, IsFiniteSet(S), NEW x, x \notin S, AllInt(c, d, S \cup {x})
  PROVE  /\ Sum(c, d, S) \in Int
         /\ Sum(c, d, S \cup {x}) = Sum(c, d, S) + d[x][c]
<1> DEFINE U == S \cup {x}
<1>1. IsFiniteSet(U) /\ AllInt(c, d, S) /\ U \ {x} = S /\ S \in SUBSET U /\ U \in SUBSET U /\ x \in U
  BY FS_AddElement DEF AllInt
<1>2. SumFn(c, d, U)[U] = d[x][c] + SumFn(c, d, U)[U \ {x}]
  BY <1>1, SumTakeAny
<1>3. SumFn(c, d, U)[S] = SumFn(c, d, S)[S]
  BY <1>1, SumOfPart
<1>4. SumFn(c, d, S)[S] \in Int
  <2>1. SumFn(c, d, S) \in [SUBSET S -> Int] /\ S \in SUBSET S
    BY <1>1, SumFnExists DEF Sums
  <2> QED
    BY <2>1
<1>5. d[x][c] \in Int
  BY DEF AllInt
<1>6. Sum(c, d, S) = SumFn(c, d, S)[S] /\ Sum(c, d, U) = SumFn(c, d, U)[U]
  BY SumIs
<1>7. Sum(c, d, U) = d[x][c] + Sum(c, d, S)
  BY <1>1, <1>2, <1>3, <1>6
<1>8. \A a, b \in Int : a + b = b + a
  OBVIOUS
<1> QED
  BY <1>4, <1>5, <1>6, <1>7, <1>8

\* MFQuery instantiates PhiQuery a second time; its operators are the same.
LEMMA AbsCompare == ASSUME NEW e, NEW a, NEW b PROVE Abs!Compare(e, a, b) = Compare(e, a, b)
BY DEF Abs!Compare, Compare

\* The same for Cardinality.
LEMMA AbsCardinality == ASSUME NEW S PROVE Abs!Cardinality(S) = Cardinality(S)
BY DEF Abs!Cardinality, Cardinality

\* The same for the connectives of a clause.
LEMMA AbsConnect == ASSUME NEW h, NEW o PROVE Abs!Connect(h, o) = Connect(h, o)
BY AbsCardinality DEF Abs!Connect, Connect, Abs!Runs, Runs

\* The same for the comparison of grouping attributes.
LEMMA AbsGroup == ASSUME NEW a, NEW b PROVE Abs!SameGroup(a, b) = SameGroup(a, b)
BY DEF Abs!SameGroup, SameGroup

\* The same for the variables and the aggregates of each.
LEMMA AbsSets == Abs!Vars = Vars /\ (\A i : Abs!AggsOf(i) = AggsOf(i))
BY DEF Abs!Vars, Vars, Abs!AggsOf, AggsOf

-----------------------------------------------------------------------------
(***************************************************************************)
(* What an intended clause selects.                                        *)
(***************************************************************************)
\* What a condition taken as it is meant says of a group and a row.
Plainly(c, g, r) ==
  IF emf THEN Compare(c.exp, g[c.column], r[c.column])
  ELSE Compare(c.exp, r[c.column], c.value)

Clause0(i, g, r) ==
  LET cs == select_conditions[i].conditions
  IN  Connect([k \in DOMAIN cs |-> Plainly(cs[k], g, r)], select_conditions[i].ops)

\* Row r is one of variable i for group g.
Fits(i, g, r) ==
  /\ ~emf \/ i = 0 => SameGroup(g, r)
  /\ i # 0 => Clause0(i, g, r)

\* The clause of variable i as MFQuery reads it, with m for the aggregates.
Means(m, i, d, g, j) == Abs!SuchThat(i, d[g], d[j], LAMBDA b : m[b.group][g][b])

\* A condition as MFQuery reads it, with m for the aggregates.
Reads(m, c, d, g, j) == Abs!Says(c, d[g], d[j], LAMBDA b : m[b.group][g][b])

\* Every condition of an intended query is one the generated text treats as meant.
LEMMA IntendedConditions ==
  ASSUME Intended, NEW i \in Vars \ {0}, NEW k \in DOMAIN select_conditions[i].conditions
  PROVE  AsMeant(select_conditions[i].conditions[k])
BY DEF Intended

\* MFQuery reads such a condition without any aggregate.
LEMMA ReadsPlainly ==
  ASSUME NEW c, AsMeant(c), NEW m, NEW d, NEW g, NEW j
  PROVE  Reads(m, c, d, g, j) = Plainly(c, d[g], d[j])
<1>2. CASE emf
  <2>1. c.kind = "column" /\ c.value = c.column /\ c.exp \in {"=", "!="}
    BY <1>2 DEF AsMeant
  <2>2. Reads(m, c, d, g, j) = Abs!Compare(c.exp, d[j][c.column], d[g][c.column])
    BY <2>1 DEF Reads, Abs!Says
  <2>3. Compare(c.exp, d[j][c.column], d[g][c.column]) = Compare(c.exp, d[g][c.column], d[j][c.column])
    BY <2>1 DEF Compare
  <2>4. Plainly(c, d[g], d[j]) = Compare(c.exp, d[g][c.column], d[j][c.column])
    BY <1>2 DEF Plainly
  <2>5. Abs!Compare(c.exp, d[j][c.column], d[g][c.column]) = Compare(c.exp, d[j][c.column], d[g][c.column])
    BY AbsCompare, Zenon
  <2> QED
    BY <2>2, <2>3, <2>4, <2>5, Zenon
<1>3. CASE ~emf
  <2>1. CASE c.kind = "const" \/ c.kind = "string"
    <3>1. Reads(m, c, d, g, j) = Abs!Compare(c.exp, d[j][c.column], c.value)
      BY <2>1 DEF Reads, Abs!Says
    <3>2. Plainly(c, d[g], d[j]) = Compare(c.exp, d[j][c.column], c.value)
      BY <1>3, <2>1 DEF Plainly
    <3> QED
      BY <3>1, <3>2, AbsCompare, Zenon
  <2> QED
    BY <1>3, <2>1 DEF AsMeant
<1> QED
  BY <1>2, <1>3

\* Condition::toCpp gives such a condition its meaning: in an MF scan for the
\* rows of the group, in an EMF scan for any row.
LEMMA CondPlainly ==
  ASSUME NEW c, AsMeant(c), NEW g, NEW r
  PROVE  /\ ~emf /\ SameGroup(g, r) => CondHolds(c, r, r) = Plainly(c, g, r)
         /\ emf => CondHolds(c, g, r) = Plainly(c, g, r)
<1>2. CASE emf
  <2>1. c.kind = "column" /\ c.value = c.column
    BY <1>2 DEF AsMeant
  <2>2. CondHolds(c, g, r) = Compare(c.exp, g[c.column], r[c.column])
    BY <2>1 DEF CondHolds
  <2>3. Plainly(c, g, r) = Compare(c.exp, g[c.column], r[c.column])
    BY <1>2 DEF Plainly
  <2> QED
    BY <1>2, <2>2, <2>3, Zenon
<1>3. ASSUME ~emf, SameGroup(g, r) PROVE CondHolds(c, r, r) = Plainly(c, g, r)
  <2>1. CASE c.kind = "const"
    <3>1. CondHolds(c, r, r) = Compare(c.exp, r[c.column], c.value)
      BY <2>1 DEF CondHolds
    <3>2. Plainly(c, g, r) = Compare(c.exp, r[c.column], c.value)
      BY <1>3, <2>1 DEF Plainly
    <3> QED
      BY <3>1, <3>2, Zenon
  <2>2. CASE c.kind = "string" /\ c.exp = "="
    <3>1. CondHolds(c, r, r) = (r[c.column] = c.value)
      BY <2>2 DEF CondHolds
    <3>2. Plainly(c, g, r) = Compare(c.exp, r[c.column], c.value)
      BY <1>3, <2>2 DEF Plainly
    <3>3. Compare(c.exp, r[c.column], c.value) = (r[c.column] = c.value)
      BY <2>2 DEF Compare
    <3> QED
      BY <3>1, <3>2, <3>3, Zenon
  <2> QED
    BY <1>3, <2>1, <2>2 DEF AsMeant
<1>4. emf => CondHolds(c, g, r) = Plainly(c, g, r)
  BY <1>2
<1> QED
  BY <1>3, <1>4

\* The clause MFQuery means, without its aggregates.
LEMMA MeansFits ==
  ASSUME Intended, NEW i \in Vars, NEW m, NEW d, NEW g, NEW j
  PROVE  Means(m, i, d, g, j) = Fits(i, d[g], d[j])
<1> DEFINE cs == select_conditions[i].conditions
           H == [k \in DOMAIN cs |-> Reads(m, cs[k], d, g, j)]
           P == [k \in DOMAIN cs |-> Plainly(cs[k], d[g], d[j])]
<1>1. Means(m, i, d, g, j) =
        (/\ ~emf \/ i = 0 => Abs!SameGroup(d[g], d[j])
         /\ i # 0 => Abs!Connect(H, select_conditions[i].ops))
  BY DEF Means, Abs!SuchThat, Reads
<1>2. i # 0 => H = P
  <2>1. ASSUME i # 0, NEW k \in DOMAIN cs PROVE Reads(m, cs[k], d, g, j) = Plainly(cs[k], d[g], d[j])
    BY <2>1, IntendedConditions, ReadsPlainly
  <2> QED
    BY <2>1
<1>3. Fits(i, d[g], d[j]) =
        (/\ ~emf \/ i = 0 => SameGroup(d[g], d[j])
         /\ i # 0 => Connect(P, select_conditions[i].ops))
  BY DEF Fits, Clause0
<1> HIDE DEF H, P, cs
<1> QED
  BY <1>1, <1>2, <1>3, AbsConnect, AbsGroup

\* The rows of d of variable i for group g.
RowsOf(i, d, g) == {j \in DOMAIN d : Fits(i, d[g], d[j])}

\* The values of all aggregates, without recursion.
Plain(d) ==
  [i \in Vars |-> [g \in Abs!Firsts(d) |-> [a \in AggsOf(i) |-> Abs!AggregateOver(a, d, RowsOf(i, d, g))]]]

\* One unfolding of the recursion of MFQuery's Meaning.
Body(m, d) ==
  [i \in Abs!Vars |->
     [g \in Abs!Firsts(d) |->
        [a \in Abs!AggsOf(i) |->
           Abs!AggregateOver(a, d, {j \in DOMAIN d : Means(m, i, d, g, j)})]]]

\* Meaning is the function that is its own unfolding.
LEMMA MeaningIsBody ==
  ASSUME NEW d PROVE Abs!Meaning(d) = CHOOSE m : m = Body(m, d)
BY DEF Abs!Meaning, Body, Means

\* The clauses of an intended query mention no aggregate, so neither does it.
LEMMA BodyPlain ==
  ASSUME Intended, NEW m, NEW d PROVE Body(m, d) = Plain(d)
<1>1. ASSUME NEW i \in Vars, NEW g PROVE {j \in DOMAIN d : Means(m, i, d, g, j)} = RowsOf(i, d, g)
  BY MeansFits DEF RowsOf
<1> QED
  BY <1>1, AbsSets DEF Body, Plain

\* So the meaning of an intended query needs no recursion.
LEMMA MeaningIs ==
  ASSUME Intended, NEW d PROVE Abs!Meaning(d) = Plain(d)
<1>1. \A m : Body(m, d) = Plain(d)
  BY BodyPlain
<1>2. \E m : m = Body(m, d)
  BY <1>1
<1> DEFINE M == CHOOSE m : m = Body(m, d)
<1>3. M = Body(M, d)
  BY <1>2
<1> QED
  BY <1>1, <1>3, MeaningIsBody

\* For a row of the group, or any row in the EMF form, the generated clause
\* says what is meant.
LEMMA SelectedFits ==
  ASSUME Intended, NEW i \in Vars, NEW g, NEW r
  PROVE  /\ ~emf => (SameGroup(g, r) /\ Selected(i, r, r) <=> Fits(i, g, r))
         /\ emf /\ i # 0 => (Selected(i, g, r) <=> Fits(i, g, r))
<1> DEFINE cs == select_conditions[i].conditions
           S(x, y) == [k \in DOMAIN cs |-> CondHolds(cs[k], x, y)]
           P == [k \in DOMAIN cs |-> Plainly(cs[k], g, r)]
<1>1. ASSUME i # 0, NEW k \in DOMAIN cs
      PROVE  /\ ~emf /\ SameGroup(g, r) => CondHolds(cs[k], r, r) = Plainly(cs[k], g, r)
             /\ emf => CondHolds(cs[k], g, r) = Plainly(cs[k], g, r)
  BY <1>1, IntendedConditions, CondPlainly
<1>2. i # 0 => (~emf /\ SameGroup(g, r) => S(r, r) = P) /\ (emf => S(g, r) = P)
  BY <1>1
<1>3. \A x, y : Selected(i, x, y) <=> (i # 0 => Connect(S(x, y), select_conditions[i].ops))
  BY DEF Selected
<1>4. Fits(i, g, r) <=>
        (/\ ~emf \/ i = 0 => SameGroup(g, r)
         /\ i # 0 => Connect(P, select_conditions[i].ops))
  BY DEF Fits, Clause0
<1> HIDE DEF S, P, cs
<1> QED
  BY <1>2, <1>3, <1>4

-----------------------------------------------------------------------------
(***************************************************************************)
(* Cells: what an aggregate field holds after the rows at positions S.     *)
(***************************************************************************)
\* The field of a after the rows of d at positions S (its cell).
IsCell(a, cell, d, S) ==
  CASE a.func \in {"avg", "sum"} -> cell = Sum(a.column, d, S)
    [] a.func = "count" -> cell = Cardinality(S)
    [] a.func = "max"   -> IF S = {} THEN cell = 0
                           ELSE /\ \E j \in S : cell = d[j][a.column]
                                /\ \A j \in S : cell >= d[j][a.column]
    [] a.func = "min"   -> IF S = {} THEN cell = 0
                           ELSE /\ \E j \in S : cell = d[j][a.column]
                                /\ \A j \in S : cell <= d[j][a.column]

\* The same with the count that an average keeps.
IsFields(a, f, d, S) ==
  IsCell(a, f.cells[a], d, S) /\ (a.func = "avg" => f.counts[a] = Cardinality(S))

\* An aggregate of F and its place in the fields of its variable.
LEMMA AggregatePlace ==
  ASSUME NEW a \in all_aggregates
  PROVE  /\ a.group \in Vars /\ a.func \in Funcs /\ a \in AggsOf(a.group)
         /\ a.func = "avg" <=> a \in AvgsOf(a.group)
         /\ a.func # "count" => a.column \in NumericColumns
BY AggregatesAssumption DEF AggsOf, AvgsOf

\* Zeroed fields are right for no rows (prelim_scan).
LEMMA CellStart ==
  ASSUME NEW a \in all_aggregates, NEW d
  PROVE  IsFields(a, ZeroFields(a.group), d, {})
<1>1. /\ ZeroFields(a.group).cells[a] = 0
      /\ a.func = "avg" => ZeroFields(a.group).counts[a] = 0
  BY AggregatePlace DEF ZeroFields
<1>2. Cardinality({}) = 0 /\ Sum(a.column, d, {}) = 0
  BY FS_EmptySet, SumEmpty
<1>3. IsCell(a, 0, d, {})
  BY <1>2, AggregatePlace DEF IsCell, Funcs
<1> QED
  BY <1>1, <1>2, <1>3 DEF IsFields

\* The updates of max, min, sum and count after one more row; extrema rely on
\* the sign of the column, as they start at 0 (scan_generator.cpp:113-135).
LEMMA CellStep ==
  ASSUME Intended, NEW a \in all_aggregates, NEW d, NEW S, IsFiniteSet(S), NEW x, x \notin S,
         \A j \in S \cup {x} : d[j] \in LoadedRows,
         NEW cell \in Int, IsCell(a, cell, d, S)
  PROVE  IsCell(a, UpdateCell(a, cell, d[x]), d, S \cup {x})
<1> DEFINE c == a.column
           v(j) == d[j][a.column]
           new == UpdateCell(a, cell, d[x])
<1>1. a.func \in Funcs
  BY AggregatePlace
<1>2. ASSUME a.func # "count" PROVE \A j \in S \cup {x} : v(j) \in Int
  BY <1>2, AggregatePlace, LoadedRowTypes
<1>3. CASE a.func \in {"avg", "sum"}
  <2>1. AllInt(c, d, S \cup {x})
    BY <1>2, <1>3 DEF AllInt
  <2>2. Sum(c, d, S \cup {x}) = Sum(c, d, S) + d[x][c]
    BY <2>1, SumAdd
  <2>3. cell = Sum(c, d, S) /\ new = cell + d[x][c]
    BY <1>3 DEF IsCell, UpdateCell
  <2> HIDE DEF new
  <2>4. new = Sum(c, d, S \cup {x})
    BY <2>2, <2>3
  <2>5. IsCell(a, new, d, S \cup {x})
    BY <1>3, <2>4 DEF IsCell
  <2> QED
    BY <2>5 DEF new
<1>4. CASE a.func = "count"
  <2>1. Cardinality(S \cup {x}) = Cardinality(S) + 1
    BY FS_AddElement
  <2>2. new = Cardinality(S) + 1
    BY <1>4 DEF IsCell, UpdateCell
  <2> QED
    BY <1>4, <2>1, <2>2 DEF IsCell
<1>5. CASE a.func = "max"
  <2>1. \A j \in S \cup {x} : v(j) \in Int /\ v(j) >= 0
    BY <1>2, <1>5 DEF Intended
  <2>2. new = IF cell < v(x) THEN v(x) ELSE cell
    BY <1>5 DEF UpdateCell
  <2>3. IF S = {} THEN cell = 0 ELSE (\E j \in S : cell = v(j)) /\ (\A j \in S : cell >= v(j))
    BY <1>5 DEF IsCell
  <2> HIDE DEF new, v
  <2>4. (\E j \in S \cup {x} : new = v(j)) /\ (\A j \in S \cup {x} : new >= v(j))
    <3>1. CASE S = {}
      <4>1. cell = 0 /\ v(x) \in Int /\ v(x) >= 0
        BY <2>1, <2>3, <3>1
      <4>2. new = v(x)
        BY <2>2, <4>1
      <4> QED
        BY <3>1, <4>1, <4>2
    <3>2. CASE S # {}
      <4>1. v(x) \in Int
        BY <2>1
      <4>2. new >= cell /\ new >= v(x) /\ (new = cell \/ new = v(x)) /\ new \in Int
        BY <2>2, <4>1
      <4>3. \A j \in S : new >= v(j)
        BY <2>1, <2>3, <3>2, <4>2
      <4> QED
        BY <2>3, <3>2, <4>2, <4>3
    <3> QED
      BY <3>1, <3>2
  <2>5. S \cup {x} # {}
    OBVIOUS
  <2>6. IsCell(a, new, d, S \cup {x})
    BY <1>5, <2>4, <2>5 DEF IsCell, v
  <2> QED
    BY <2>6 DEF new
<1>6. CASE a.func = "min"
  <2>1. \A j \in S \cup {x} : v(j) \in Int /\ v(j) <= 0
    BY <1>2, <1>6 DEF Intended
  <2>2. new = IF cell > v(x) THEN v(x) ELSE cell
    BY <1>6 DEF UpdateCell
  <2>3. IF S = {} THEN cell = 0 ELSE (\E j \in S : cell = v(j)) /\ (\A j \in S : cell <= v(j))
    BY <1>6 DEF IsCell
  <2> HIDE DEF new, v
  <2>4. (\E j \in S \cup {x} : new = v(j)) /\ (\A j \in S \cup {x} : new <= v(j))
    <3>1. CASE S = {}
      <4>1. cell = 0 /\ v(x) \in Int /\ v(x) <= 0
        BY <2>1, <2>3, <3>1
      <4>2. new = v(x)
        BY <2>2, <4>1
      <4> QED
        BY <3>1, <4>1, <4>2
    <3>2. CASE S # {}
      <4>1. v(x) \in Int
        BY <2>1
      <4>2. new <= cell /\ new <= v(x) /\ (new = cell \/ new = v(x)) /\ new \in Int
        BY <2>2, <4>1
      <4>3. \A j \in S : new <= v(j)
        BY <2>1, <2>3, <3>2, <4>2
      <4> QED
        BY <2>3, <3>2, <4>2, <4>3
    <3> QED
      BY <3>1, <3>2
  <2>5. S \cup {x} # {}
    OBVIOUS
  <2>6. IsCell(a, new, d, S \cup {x})
    BY <1>6, <2>4, <2>5 DEF IsCell, v
  <2> QED
    BY <2>6 DEF new
<1> QED
  BY <1>1, <1>3, <1>4, <1>5, <1>6 DEF Funcs

\* The fields of variable i after one more row.
WithRow(i, f, row) ==
  [cells  |-> [a \in AggsOf(i) |-> UpdateCell(a, f.cells[a], row)],
   counts |-> [a \in AvgsOf(i) |-> f.counts[a] + 1]]

\* One more row for the cell and the count of an aggregate.
LEMMA FieldsStep ==
  ASSUME Intended, NEW a \in all_aggregates, NEW d, NEW S, IsFiniteSet(S), NEW x, x \notin S,
         \A j \in S \cup {x} : d[j] \in LoadedRows,
         NEW f \in Fields(a.group), IsFields(a, f, d, S)
  PROVE  IsFields(a, WithRow(a.group, f, d[x]), d, S \cup {x})
<1> DEFINE w == WithRow(a.group, f, d[x])
<1>1. /\ w.cells[a] = UpdateCell(a, f.cells[a], d[x])
      /\ a.func = "avg" => w.counts[a] = f.counts[a] + 1
  BY AggregatePlace DEF WithRow
<1>2. f.cells[a] \in Int
  BY AggregatePlace DEF Fields
<1>3. IsCell(a, f.cells[a], d, S)
  BY DEF IsFields
<1>4. IsCell(a, w.cells[a], d, S \cup {x})
  <2> DEFINE z == f.cells[a]
  <2>1. z \in Int /\ IsCell(a, z, d, S) /\ w.cells[a] = UpdateCell(a, z, d[x])
    BY <1>1, <1>2, <1>3
  <2> HIDE DEF z
  <2>2. IsCell(a, UpdateCell(a, z, d[x]), d, S \cup {x})
    BY <2>1, CellStep
  <2> QED
    BY <2>1, <2>2
<1>5. Cardinality(S \cup {x}) = Cardinality(S) + 1
  BY FS_AddElement
<1>6. a.func = "avg" => w.counts[a] = Cardinality(S \cup {x})
  BY <1>1, <1>5 DEF IsFields
<1> HIDE DEF w
<1>7. IsFields(a, w, d, S \cup {x})
  BY <1>4, <1>6 DEF IsFields
<1> QED
  BY <1>7 DEF w

\* MFQuery sums as the program does.
LEMMA AbsSum ==
  ASSUME NEW c, NEW d, NEW S PROVE Abs!MapThenSumSet(LAMBDA j : d[j][c], S) = Sum(c, d, S)
BY DEF Abs!MapThenSumSet, Abs!MapThenFoldSet, Sum, MapThenSumSet, MapThenFoldSet

\* MFQuery divides as the program does.
LEMMA AbsDiv == ASSUME NEW a, NEW b PROVE Abs!TruncDiv(a, b) = TruncDiv(a, b)
BY DEF Abs!TruncDiv, TruncDiv

\* The value the program reads from right fields, Average::value() included,
\* is the aggregate of the meaning.
LEMMA FieldsMean ==
  ASSUME NEW a \in all_aggregates, NEW d, NEW S, IsFiniteSet(S),
         \A j \in S : d[j] \in LoadedRows,
         NEW f \in Fields(a.group), IsFields(a, f, d, S)
  PROVE  FieldValue(a, f) = Abs!AggregateOver(a, d, S)
<1> DEFINE v(j) == d[j][a.column]
           s == Abs!MapThenSumSet(LAMBDA j : d[j][a.column], S)
<1>0. IsCell(a, f.cells[a], d, S) /\ f.cells[a] \in Int
  BY AggregatePlace DEF IsFields, Fields
<1>1. a.func \in Funcs
  BY AggregatePlace
<1>2. s = Sum(a.column, d, S)
  BY AbsSum
<1>3. CASE a.func = "sum"
  <2>1. Abs!AggregateOver(a, d, S) = s
    BY <1>3 DEF Abs!AggregateOver
  <2>2. FieldValue(a, f) = f.cells[a]
    BY <1>3 DEF FieldValue
  <2>3. f.cells[a] = Sum(a.column, d, S)
    BY <1>0, <1>3 DEF IsCell
  <2> HIDE DEF s
  <2> QED
    BY <1>2, <2>1, <2>2, <2>3
<1>4. CASE a.func = "avg"
  <2>1. Abs!AggregateOver(a, d, S) = IF S = {} THEN 0 ELSE Abs!TruncDiv(s, Abs!Cardinality(S))
    BY <1>4 DEF Abs!AggregateOver
  <2>2. FieldValue(a, f) = IF f.counts[a] = 0 THEN 0 ELSE TruncDiv(f.cells[a], f.counts[a])
    BY <1>4 DEF FieldValue
  <2>3. f.cells[a] = Sum(a.column, d, S)
    BY <1>0, <1>4 DEF IsCell
  <2>4. f.counts[a] = Cardinality(S)
    BY <1>4 DEF IsFields
  <2>5. Cardinality(S) = 0 <=> S = {}
    BY FS_EmptySet
  <2> HIDE DEF s
  <2> QED
    BY <1>2, <2>1, <2>2, <2>3, <2>4, <2>5, AbsDiv, AbsCardinality
<1>5. CASE a.func = "count"
  <2>1. Abs!AggregateOver(a, d, S) = Abs!Cardinality(S)
    BY <1>5 DEF Abs!AggregateOver
  <2>2. FieldValue(a, f) = f.cells[a]
    BY <1>5 DEF FieldValue
  <2>3. f.cells[a] = Cardinality(S)
    BY <1>0, <1>5 DEF IsCell
  <2> QED
    BY <2>1, <2>2, <2>3, AbsCardinality
<1>6. CASE a.func = "max"
  <2> DEFINE T == {d[j][a.column] : j \in S}
             z == f.cells[a]
  <2>1. Abs!AggregateOver(a, d, S) = IF S = {} THEN 0 ELSE Abs!Max(T)
    BY <1>6 DEF Abs!AggregateOver
  <2>2. FieldValue(a, f) = z
    BY <1>6 DEF FieldValue
  <2>3. IF S = {} THEN z = 0 ELSE (\E j \in S : z = d[j][a.column]) /\ (\A j \in S : z >= d[j][a.column])
    BY <1>0, <1>6 DEF IsCell
  <2>4. \A t \in T : t \in Int
    BY <1>6, AggregatePlace, LoadedRowTypes
  <2>5. CASE S # {}
    <3>1. z \in T /\ \A t \in T : z >= t
      BY <2>3, <2>5
    <3> HIDE DEF T, z
    <3>2. \A y \in T : (\A t \in T : y >= t) => y = z
      BY <3>1, <2>4
    <3>3. Abs!Max(T) = z
      BY <3>1, <3>2 DEF Abs!Max
    <3> QED
      BY <2>1, <2>2, <2>5, <3>3
  <2> QED
    BY <2>1, <2>2, <2>3, <2>5
<1>7. CASE a.func = "min"
  <2> DEFINE T == {d[j][a.column] : j \in S}
             z == f.cells[a]
  <2>1. Abs!AggregateOver(a, d, S) = IF S = {} THEN 0 ELSE Abs!Min(T)
    BY <1>7 DEF Abs!AggregateOver
  <2>2. FieldValue(a, f) = z
    BY <1>7 DEF FieldValue
  <2>3. IF S = {} THEN z = 0 ELSE (\E j \in S : z = d[j][a.column]) /\ (\A j \in S : z <= d[j][a.column])
    BY <1>0, <1>7 DEF IsCell
  <2>4. \A t \in T : t \in Int
    BY <1>7, AggregatePlace, LoadedRowTypes
  <2>5. CASE S # {}
    <3>1. z \in T /\ \A t \in T : z <= t
      BY <2>3, <2>5
    <3> HIDE DEF T, z
    <3>2. \A y \in T : (\A t \in T : y <= t) => y = z
      BY <3>1, <2>4
    <3>3. Abs!Min(T) = z
      BY <3>1, <3>2 DEF Abs!Min
    <3> QED
      BY <2>1, <2>2, <2>5, <3>3
  <2> QED
    BY <2>1, <2>2, <2>3, <2>5
<1> QED
  BY <1>1, <1>3, <1>4, <1>5, <1>6, <1>7 DEF Funcs

-----------------------------------------------------------------------------
(***************************************************************************)
(* The scans: after the rows of group k that a scan has seen.              *)
(***************************************************************************)
\* The rows of 1 .. n seen for group k of variable i, with the loops at
\* variable v, iterators t and x.
SeenAt(v, t, x, n, i, k) ==
  IF i < v THEN 1 .. n
  ELSE IF v < i THEN {}
  ELSE IF ~emf THEN 1 .. t - 1
  ELSE IF k < t THEN 1 .. n
  ELSE IF k = t THEN 1 .. x - 1 ELSE {}

\* Those of them that count.
Taken(S, i, d, g) == {j \in S : Fits(i, d[g], d[j])}

\* Every field holds its aggregate over the rows seen so far.
FieldsAre(dn, d, u, v, t, x) ==
  \A a \in all_aggregates : \A k \in 1 .. Len(u) :
    IsFields(a, dn[a.group][k].fields, d,
             Taken(SeenAt(v, t, x, Len(d), a.group, k), a.group, d, u[k]))

\* What the loops of the scans keep: iterators within their vectors, and every
\* field right for the rows seen so far.
ScanInv ==
  /\ pc \in {"retrieve", "uniques", "prelim"} => gv = 0 /\ xt = 1
  /\ pc = "prelim" => \A i \in Vars : \A k \in DOMAIN dataN[i] : dataN[i][k].fields = ZeroFields(i)
  /\ pc = "scan" =>
       /\ gv \notin Vars => it = 1
       /\ ~emf => it <= Len(data) + 1
       /\ emf => it <= Len(uniques) + 1 /\ xt <= Len(data) + 1 /\ (it > Len(uniques) => xt = 1)
  /\ pc \in {"fill", "print", "done"} => gv \notin Vars
  /\ pc \in {"scan", "fill", "print", "done"} => FieldsAre(dataN, data, uniques, gv, it, xt)

\* Moving the iterators without seeing a row keeps the fields right.
LEMMA FieldsSame ==
  ASSUME NEW dn, NEW d, NEW u, NEW v, NEW t, NEW x, NEW v2, NEW t2, NEW x2,
         FieldsAre(dn, d, u, v, t, x),
         \A i \in Vars : \A k \in 1 .. Len(u) :
           SeenAt(v2, t2, x2, Len(d), i, k) = SeenAt(v, t, x, Len(d), i, k)
  PROVE  FieldsAre(dn, d, u, v2, t2, x2)
BY AggregatePlace DEF FieldsAre

\* A row that counts is added to the fields.
LEMMA TakeOne ==
  ASSUME Intended, NEW a \in all_aggregates, NEW d, NEW n \in Nat, \A j \in 1 .. n : d[j] \in LoadedRows,
         NEW S, S \subseteq 1 .. n, NEW y \in 1 .. n, y \notin S, NEW g,
         NEW f \in Fields(a.group), IsFields(a, f, d, Taken(S, a.group, d, g)),
         Fits(a.group, d[g], d[y])
  PROVE  IsFields(a, WithRow(a.group, f, d[y]), d, Taken(S \cup {y}, a.group, d, g))
<1> DEFINE T == Taken(S, a.group, d, g)
<1>1. Taken(S \cup {y}, a.group, d, g) = T \cup {y}
  BY DEF Taken
<1>2. T \subseteq 1 .. n /\ y \notin T
  BY DEF Taken
<1>3. IsFiniteSet(T)
  <2>1. IsFiniteSet(1 .. n)
    BY FS_Interval
  <2> HIDE DEF T
  <2> QED
    BY <1>2, <2>1, FS_Subset
<1>4. \A j \in T \cup {y} : d[j] \in LoadedRows
  BY <1>2
<1>5. IsFields(a, f, d, T)
  OBVIOUS
<1> HIDE DEF T
<1>6. IsFields(a, WithRow(a.group, f, d[y]), d, T \cup {y})
  BY <1>2, <1>3, <1>4, <1>5, FieldsStep
<1> QED
  BY <1>1, <1>6

\* What Accumulate does to the fields.
LEMMA AccumulateOne ==
  ASSUME TypeOK, NEW i \in Vars, NEW p \in DOMAIN dataN[i], NEW row,
         NEW j \in Vars, NEW k \in DOMAIN dataN[j]
  PROVE  Accumulate(i, p - 1, row)[j][k].fields =
           IF j = i /\ k = p THEN WithRow(i, dataN[i][p].fields, row) ELSE dataN[j][k].fields
<1>0. DOMAIN dataN = Vars /\ dataN[i] \in Seq(Groups(i)) /\ dataN[i][p] \in Groups(i)
  BY DEF TypeOK
<1>1. p - 1 + 1 = p
  BY <1>0
<1> DEFINE w == WithRow(i, dataN[i][p].fields, row)
<1>2. Accumulate(i, p - 1, row) = [dataN EXCEPT ![i][p].fields = w]
  BY <1>1 DEF Accumulate, WithRow
<1> HIDE DEF w
<1>3. j # i => Accumulate(i, p - 1, row)[j] = dataN[j]
  BY <1>0, <1>2
<1>4. Accumulate(i, p - 1, row)[i] = [dataN[i] EXCEPT ![p].fields = w]
  BY <1>0, <1>2
<1>5. j = i /\ k # p => Accumulate(i, p - 1, row)[j][k] = dataN[j][k]
  BY <1>0, <1>4
<1>6. Accumulate(i, p - 1, row)[i][p] = [dataN[i][p] EXCEPT !.fields = w]
  BY <1>0, <1>4
<1>7. [dataN[i][p] EXCEPT !.fields = w].fields = w
  BY <1>0 DEF Groups
<1> QED
  BY <1>3, <1>5, <1>6, <1>7 DEF w

\* Where the scans find fields.
LEMMA FieldsTyped ==
  ASSUME IInv, pc \in {"scan", "fill", "print", "done"}, NEW i \in Vars
  PROVE  /\ DOMAIN dataN[i] = 1 .. Len(uniques)
         /\ \A k \in 1 .. Len(uniques) : dataN[i][k].fields \in Fields(i)
<1>1. Len(dataN[i]) = Len(uniques) /\ dataN[i] \in Seq(Groups(i))
  BY DEF IInv, Parallel, TypeOK
<1>2. DOMAIN dataN[i] = 1 .. Len(uniques)
  BY <1>1
<1>3. \A k \in 1 .. Len(uniques) : dataN[i][k] \in Groups(i)
  BY <1>1
<1> QED
  BY <1>2, <1>3 DEF Groups, Fields

\* The iterators and lengths, numbers only.
LEMMA ScanPlaces ==
  ASSUME IInv
  PROVE  /\ Len(uniques) \in Nat /\ Len(data) \in Nat /\ it \in Nat \ {0} /\ xt \in Nat \ {0}
         /\ gv \in Nat /\ gv \in 0 .. no_grouping_vars + 1 /\ Vars = 0 .. no_grouping_vars
         /\ no_grouping_vars \in Nat
         /\ DOMAIN data = 1 .. Len(data) /\ DOMAIN uniques = 1 .. Len(uniques)
         /\ \A j \in 1 .. Len(data) : data[j] \in LoadedRows
<1>1. data \in Seq(LoadedRows) /\ uniques \in Seq(1 .. Len(data))
  BY DEF IInv, TypeOK
<1>2. it \in Nat \ {0} /\ xt \in Nat \ {0} /\ gv \in 0 .. no_grouping_vars + 1
  BY DEF IInv, TypeOK
<1>3. no_grouping_vars \in Nat
  BY VarsAssumption
<1>4. gv \in Nat
  BY <1>2, <1>3
<1> QED
  BY <1>1, <1>2, <1>3, <1>4 DEF Vars

\* One iteration of aggregate_scan.
LEMMA ScanRowExact ==
  ASSUME Intended, IInv, ScanInv, ScanRow
  PROVE  FieldsAre(dataN', data, uniques, gv, it + 1, xt)
<1>0. /\ pc = "scan" /\ ~emf /\ gv \in Vars /\ it <= Len(data)
      /\ FieldsAre(dataN, data, uniques, gv, it, xt)
  BY DEF ScanRow, ScanInv
<1>1. it \in 1 .. Len(data)
  BY <1>0, ScanPlaces
<1>2. PICK h \in DOMAIN uniques : SameGroup(data[it], data[uniques[h]])
  BY <1>0, <1>1, ScanPlaces, RowHasGroup
<1>3. vfind(gv, data[it]) = h - 1 /\ h \in 1 .. Len(uniques)
  BY <1>0, <1>2, VfindHit, ScanPlaces
<1>4. h - 1 # -1
  BY <1>3, ScanPlaces
<1>5. dataN' = IF Selected(gv, data[it], data[it]) /\ AggsOf(gv) # {}
               THEN Accumulate(gv, h - 1, data[it]) ELSE dataN
  BY <1>3, <1>4 DEF ScanRow
<1> SUFFICES ASSUME NEW a \in all_aggregates, NEW k \in 1 .. Len(uniques)
             PROVE  IsFields(a, dataN'[a.group][k].fields, data,
                             Taken(SeenAt(gv, it + 1, xt, Len(data), a.group, k), a.group, data, uniques[k]))
  BY DEF FieldsAre
<1> DEFINE i == a.group
           S == SeenAt(gv, it, xt, Len(data), a.group, k)
           S2 == SeenAt(gv, it + 1, xt, Len(data), a.group, k)
           f == dataN[a.group][k].fields
           g == data[uniques[k]]
<1>6. a.group \in Vars /\ a \in AggsOf(a.group)
  BY AggregatePlace
<1>7. IsFields(a, f, data, Taken(S, a.group, data, uniques[k])) /\ f \in Fields(a.group)
  BY <1>0, <1>6, FieldsTyped DEF FieldsAre
<1>8. DOMAIN dataN[a.group] = 1 .. Len(uniques) /\ DOMAIN dataN[gv] = 1 .. Len(uniques)
  BY <1>0, <1>6, FieldsTyped
<1>9. Accumulate(gv, h - 1, data[it])[a.group][k].fields =
        IF a.group = gv /\ k = h THEN WithRow(gv, dataN[gv][h].fields, data[it]) ELSE f
  <2>1. TypeOK /\ h \in DOMAIN dataN[gv] /\ k \in DOMAIN dataN[a.group]
    BY <1>3, <1>8 DEF IInv
  <2> QED
    BY <1>0, <1>6, <2>1, AccumulateOne
<1>10. CASE a.group # gv
  <2>1. S2 = S
    BY <1>0, <1>10, <1>6, ScanPlaces DEF SeenAt
  <2>2. dataN'[a.group][k].fields = f
    BY <1>5, <1>9, <1>10
  <2> QED
    BY <1>7, <2>1, <2>2
<1>11. CASE a.group = gv
  <2>1. S = 1 .. it - 1 /\ S2 = 1 .. (it + 1) - 1
    BY <1>0, <1>11, ScanPlaces DEF SeenAt
  <2>2. S2 = S \cup {it} /\ it \notin S /\ S \subseteq 1 .. Len(data)
    BY <1>1, <2>1, ScanPlaces
  <2>3. SameGroup(g, data[it]) <=> k = h
    <3>1. k = h => SameGroup(g, data[it])
      BY <1>2, SelectColsGroup
    <3>2. ASSUME SameGroup(g, data[it]) PROVE k = h
      <4>1. SameGroup(data[it], data[uniques[k]])
        BY <3>2, SelectColsGroup
      <4>2. vfind(gv, data[it]) = k - 1
        BY <1>0, <4>1, VfindHit, ScanPlaces
      <4> QED
        BY <1>3, <4>2, ScanPlaces
    <3> QED
      BY <3>1, <3>2
  <2>4. Fits(a.group, g, data[it]) <=> k = h /\ Selected(gv, data[it], data[it])
    BY <1>0, <1>11, <2>3, SelectedFits
  <2> HIDE DEF S, S2, f
  <2>5. CASE Fits(a.group, g, data[it])
    <3>1. dataN'[a.group][k].fields = WithRow(a.group, f, data[it])
      BY <1>5, <1>6, <1>9, <1>11, <2>4, <2>5 DEF f
    <3>2. IsFields(a, WithRow(a.group, f, data[it]), data, Taken(S \cup {it}, a.group, data, uniques[k]))
      BY <1>1, <1>7, <2>2, <2>5, TakeOne, ScanPlaces
    <3> QED
      BY <2>2, <3>1, <3>2 DEF S2
  <2>6. CASE ~Fits(a.group, g, data[it])
    <3>1. dataN'[a.group][k].fields = f
      BY <1>5, <1>6, <1>9, <1>11, <2>4, <2>6 DEF f
    <3>2. Taken(S \cup {it}, a.group, data, uniques[k]) = Taken(S, a.group, data, uniques[k])
      BY <2>6 DEF Taken
    <3> QED
      BY <1>7, <2>2, <3>1, <3>2 DEF S2
  <2> QED
    BY <2>5, <2>6
<1> QED
  BY <1>10, <1>11

\* One iteration of emf_aggregate_scan.
LEMMA ScanPairExact ==
  ASSUME Intended, IInv, ScanInv, ScanPair
  PROVE  FieldsAre(dataN', data, uniques, gv, it, xt + 1)
<1>0. /\ pc = "scan" /\ emf /\ gv \in Vars /\ it <= Len(uniques) /\ xt <= Len(data)
      /\ FieldsAre(dataN, data, uniques, gv, it, xt)
  BY DEF ScanPair, ScanInv
<1>1. xt \in 1 .. Len(data) /\ it \in 1 .. Len(uniques)
  BY <1>0, ScanPlaces
<1>5. dataN' = IF Selected(gv, data[uniques[it]], data[xt])
               THEN Accumulate(gv, it - 1, data[xt]) ELSE dataN
  BY DEF ScanPair
<1> SUFFICES ASSUME NEW a \in all_aggregates, NEW k \in 1 .. Len(uniques)
             PROVE  IsFields(a, dataN'[a.group][k].fields, data,
                             Taken(SeenAt(gv, it, xt + 1, Len(data), a.group, k), a.group, data, uniques[k]))
  BY DEF FieldsAre
<1> DEFINE S == SeenAt(gv, it, xt, Len(data), a.group, k)
           S2 == SeenAt(gv, it, xt + 1, Len(data), a.group, k)
           f == dataN[a.group][k].fields
           g == data[uniques[k]]
<1>6. a.group \in Vars /\ a \in AggsOf(a.group) /\ a.group # 0
  BY <1>0, AggregatePlace DEF Intended
<1>7. IsFields(a, f, data, Taken(S, a.group, data, uniques[k])) /\ f \in Fields(a.group)
  BY <1>0, <1>6, FieldsTyped DEF FieldsAre
<1>8. DOMAIN dataN[a.group] = 1 .. Len(uniques) /\ DOMAIN dataN[gv] = 1 .. Len(uniques)
  BY <1>0, <1>6, FieldsTyped
<1>9. Accumulate(gv, it - 1, data[xt])[a.group][k].fields =
        IF a.group = gv /\ k = it THEN WithRow(gv, dataN[gv][it].fields, data[xt]) ELSE f
  <2>1. TypeOK /\ it \in DOMAIN dataN[gv] /\ k \in DOMAIN dataN[a.group]
    BY <1>1, <1>8 DEF IInv
  <2> QED
    BY <1>0, <1>6, <2>1, AccumulateOne
<1>10. CASE ~(a.group = gv /\ k = it)
  <2>1. S2 = S
    BY <1>0, <1>10, <1>6, ScanPlaces DEF SeenAt
  <2>2. dataN'[a.group][k].fields = f
    BY <1>5, <1>9, <1>10
  <2> QED
    BY <1>7, <2>1, <2>2
<1>11. CASE a.group = gv /\ k = it
  <2>1. S = 1 .. xt - 1 /\ S2 = 1 .. (xt + 1) - 1
    BY <1>0, <1>11, ScanPlaces DEF SeenAt
  <2>2. S2 = S \cup {xt} /\ xt \notin S /\ S \subseteq 1 .. Len(data)
    BY <1>1, <2>1, ScanPlaces
  <2>4. Fits(a.group, g, data[xt]) <=> Selected(gv, data[uniques[it]], data[xt])
    BY <1>0, <1>6, <1>11, SelectedFits
  <2> HIDE DEF S, S2, f
  <2>5. CASE Fits(a.group, g, data[xt])
    <3>1. dataN'[a.group][k].fields = WithRow(a.group, f, data[xt])
      BY <1>5, <1>6, <1>9, <1>11, <2>4, <2>5 DEF f
    <3>2. IsFields(a, WithRow(a.group, f, data[xt]), data, Taken(S \cup {xt}, a.group, data, uniques[k]))
      BY <1>1, <1>7, <2>2, <2>5, TakeOne, ScanPlaces
    <3> QED
      BY <2>2, <3>1, <3>2 DEF S2
  <2>6. CASE ~Fits(a.group, g, data[xt])
    <3>1. dataN'[a.group][k].fields = f
      BY <1>5, <1>6, <1>9, <1>11, <2>4, <2>6 DEF f
    <3>2. Taken(S \cup {xt}, a.group, data, uniques[k]) = Taken(S, a.group, data, uniques[k])
      BY <2>6 DEF Taken
    <3> QED
      BY <1>7, <2>2, <3>1, <3>2 DEF S2
  <2> QED
    BY <2>5, <2>6
<1> QED
  BY <1>10, <1>11

-----------------------------------------------------------------------------
(*****************************************************************************)
(* The scans preserve ScanInv, action by action.                             *)
(*****************************************************************************)
\* Nothing is scanned when main() starts.
LEMMA InitScanInv == Init => ScanInv
BY DEF Init, ScanInv

\* Before the scans nothing is counted.
LEMMA ScanInvBefore ==
  ASSUME IInv, ScanInv,
         Retrieve \/ RetrieveFaults \/ RetrieveEnd \/ SQLException \/ Unique \/ UniqueEnd
  PROVE  ScanInv'
<1>1. CASE Retrieve \/ RetrieveEnd \/ SQLException \/ RetrieveFaults \/ Unique
  BY <1>1 DEF Retrieve, RetrieveEnd, SQLException, RetrieveFaults, Unique, ScanInv
<1>2. CASE UniqueEnd
  <2>1. pc = "uniques" /\ pc' = "prelim" /\ gv' = gv /\ xt' = xt /\ dataN' = dataN
    BY <1>2 DEF UniqueEnd
  <2>2. \A i \in Vars : DOMAIN dataN[i] = {}
    BY <2>1 DEF IInv, BeforeScans
  <2> QED
    BY <2>1, <2>2 DEF ScanInv
<1> QED
  BY <1>1, <1>2

\* prelim_scan appends zeroed fields.
LEMMA ScanInvPrelim ==
  ASSUME IInv, ScanInv, Prelim
  PROVE  ScanInv'
<1>1. pc = "prelim" /\ pc' = "prelim" /\ gv' = gv /\ xt' = xt
  BY DEF Prelim
<1>2. gv = 0 /\ xt = 1 /\ \A i \in Vars : \A k \in DOMAIN dataN[i] : dataN[i][k].fields = ZeroFields(i)
  BY <1>1 DEF ScanInv
<1> DEFINE e(i) == NewGroup(i, data[uniques[it]])
<1>3. ASSUME NEW i \in Vars, NEW k \in DOMAIN dataN'[i]
      PROVE  dataN'[i][k].fields = ZeroFields(i)
  <2>1. dataN'[i] = Append(dataN[i], e(i))
    BY DEF Prelim
  <2>2. e(i).fields = ZeroFields(i)
    BY DEF NewGroup
  <2>3. dataN[i] \in Seq(Groups(i))
    BY DEF IInv, TypeOK
  <2> HIDE DEF e
  <2>4. Len(dataN[i]) \in Nat /\ DOMAIN dataN[i] = 1 .. Len(dataN[i])
    BY <2>3
  <2>5. DOMAIN Append(dataN[i], e(i)) = 1 .. Len(dataN[i]) + 1
    BY <2>3
  <2>6. \A j \in 1 .. Len(dataN[i]) : Append(dataN[i], e(i))[j] = dataN[i][j]
    BY <2>3
  <2>7. Append(dataN[i], e(i))[Len(dataN[i]) + 1] = e(i)
    BY <2>3
  <2>8. k \in 1 .. Len(dataN[i]) \/ k = Len(dataN[i]) + 1
    BY <2>1, <2>4, <2>5
  <2> QED
    BY <1>2, <2>1, <2>2, <2>4, <2>6, <2>7, <2>8
<1> QED
  BY <1>1, <1>2, <1>3 DEF ScanInv

\* The first scan starts with no row seen and every field zero.
LEMMA ScanInvStart ==
  ASSUME IInv, ScanInv, PrelimEnd
  PROVE  ScanInv'
<1>1. /\ pc = "prelim" /\ pc' = "scan" /\ it' = 1 /\ it > Len(uniques)
      /\ UNCHANGED <<data, uniques, dataN, gv, xt>>
  BY DEF PrelimEnd
<1>2. gv = 0 /\ xt = 1 /\ \A i \in Vars : \A k \in DOMAIN dataN[i] : dataN[i][k].fields = ZeroFields(i)
  BY <1>1 DEF ScanInv
<1>3. \A i \in Vars : DOMAIN dataN[i] = 1 .. Len(uniques)
  <2>1. it = Len(uniques) + 1
    BY <1>1, ScanPlaces DEF IInv, BeforeScans
  <2>2. \A i \in Vars : Len(dataN[i]) = it - 1 /\ dataN[i] \in Seq(Groups(i))
    BY <1>1 DEF IInv, Parallel, TypeOK
  <2>3. it - 1 = Len(uniques)
    BY <2>1, ScanPlaces
  <2> QED
    BY <2>2, <2>3
<1>4. FieldsAre(dataN, data, uniques, 0, 1, 1)
  <2> SUFFICES ASSUME NEW a \in all_aggregates, NEW k \in 1 .. Len(uniques)
               PROVE  IsFields(a, dataN[a.group][k].fields, data,
                               Taken(SeenAt(0, 1, 1, Len(data), a.group, k), a.group, data, uniques[k]))
    BY DEF FieldsAre
  <2>1. a.group \in Vars /\ a.group \in Nat /\ k \in Nat /\ k >= 1
    BY AggregatePlace, ScanPlaces
  <2>2. SeenAt(0, 1, 1, Len(data), a.group, k) = {}
    BY <2>1 DEF SeenAt
  <2>3. Taken({}, a.group, data, uniques[k]) = {}
    BY DEF Taken
  <2>4. dataN[a.group][k].fields = ZeroFields(a.group)
    BY <1>2, <1>3, <2>1
  <2> QED
    BY <2>2, <2>3, <2>4, CellStart
<1>5. gv \in Vars
  BY <1>2, ScanPlaces
<1>6. 1 <= Len(data) + 1 /\ 1 <= Len(uniques) + 1
  BY ScanPlaces
<1> QED
  BY <1>1, <1>2, <1>4, <1>5, <1>6 DEF ScanInv

\* aggregate_scan: one row more, or the next variable.
LEMMA ScanInvRows ==
  ASSUME Intended, IInv, ScanInv, ScanRow \/ ScanRowsEnd
  PROVE  ScanInv'
<1>0. /\ pc = "scan" /\ ~emf /\ gv \in Vars /\ it <= Len(data) + 1
      /\ FieldsAre(dataN, data, uniques, gv, it, xt)
  BY DEF ScanRow, ScanRowsEnd, ScanInv
<1>1. CASE ScanRow
  <2>1. FieldsAre(dataN', data, uniques, gv, it + 1, xt)
    BY <1>1, ScanRowExact
  <2>2. it + 1 <= Len(data) + 1
    BY <1>1, ScanPlaces DEF ScanRow
  <2>3. it' = it + 1 /\ gv' = gv /\ xt' = xt /\ data' = data /\ uniques' = uniques
    BY <1>1 DEF ScanRow
  <2>4. pc' \in {"scan", "out_of_range"}
    BY <1>1, <1>0 DEF ScanRow
  <2> QED
    BY <1>0, <2>1, <2>2, <2>3, <2>4 DEF ScanInv
<1>2. CASE ScanRowsEnd
  <2>1. /\ pc' = "scan" /\ it' = 1 /\ gv' = gv + 1 /\ it > Len(data)
        /\ UNCHANGED <<xt, data, uniques, dataN>>
    BY <1>0, <1>2 DEF ScanRowsEnd
  <2>2. it - 1 = Len(data)
    BY <1>0, <2>1, ScanPlaces
  <2>3. ASSUME NEW i \in Vars, NEW k \in 1 .. Len(uniques)
        PROVE  SeenAt(gv + 1, 1, xt, Len(data), i, k) = SeenAt(gv, it, xt, Len(data), i, k)
    <3>1. i \in Nat /\ gv \in Nat
      BY ScanPlaces
    <3>2. CASE i < gv
      BY <3>1, <3>2 DEF SeenAt
    <3>3. CASE i = gv
      BY <1>0, <2>2, <3>1, <3>3 DEF SeenAt
    <3>4. CASE gv < i
      <4>1. ~(i < gv) /\ ~(i < gv + 1) /\ 1 .. 1 - 1 = {}
        BY <3>1, <3>4
      <4> QED
        BY <1>0, <3>4, <4>1 DEF SeenAt
    <3> QED
      BY <3>1, <3>2, <3>3, <3>4
  <2>4. FieldsAre(dataN, data, uniques, gv + 1, 1, xt)
    BY <1>0, <2>3, FieldsSame
  <2>5. 1 <= Len(data) + 1
    BY ScanPlaces
  <2> QED
    BY <1>0, <2>1, <2>4, <2>5 DEF ScanInv
<1> QED
  BY <1>1, <1>2

\* emf_aggregate_scan: one row more, the next group, or the next variable.
LEMMA ScanInvPairs ==
  ASSUME Intended, IInv, ScanInv, ScanPair \/ ScanGroupEnd \/ ScanPairsEnd
  PROVE  ScanInv'
<1>0. /\ pc = "scan" /\ emf /\ gv \in Vars
      /\ it <= Len(uniques) + 1 /\ xt <= Len(data) + 1 /\ (it > Len(uniques) => xt = 1)
      /\ FieldsAre(dataN, data, uniques, gv, it, xt)
  BY DEF ScanPair, ScanGroupEnd, ScanPairsEnd, ScanInv
<1>1. CASE ScanPair
  <2>1. FieldsAre(dataN', data, uniques, gv, it, xt + 1)
    BY <1>1, ScanPairExact
  <2>2. xt + 1 <= Len(data) + 1 /\ ~(it > Len(uniques))
    BY <1>1, ScanPlaces DEF ScanPair
  <2>3. xt' = xt + 1 /\ pc' = pc /\ gv' = gv /\ it' = it /\ data' = data /\ uniques' = uniques
    BY <1>1 DEF ScanPair
  <2> QED
    BY <1>0, <2>1, <2>2, <2>3 DEF ScanInv
<1>2. CASE ScanGroupEnd
  <2>1. /\ it' = it + 1 /\ xt' = 1 /\ it <= Len(uniques) /\ xt > Len(data)
        /\ UNCHANGED <<pc, data, uniques, dataN, gv>>
    BY <1>2 DEF ScanGroupEnd
  <2>2. xt - 1 = Len(data) /\ it + 1 <= Len(uniques) + 1 /\ 1 <= Len(data) + 1
    BY <1>0, <2>1, ScanPlaces
  <2>3. ASSUME NEW i \in Vars, NEW k \in 1 .. Len(uniques)
        PROVE  SeenAt(gv, it + 1, 1, Len(data), i, k) = SeenAt(gv, it, xt, Len(data), i, k)
    <3>1. k \in Nat /\ it \in Nat /\ 1 .. 1 - 1 = {}
      BY ScanPlaces
    <3>2. CASE k < it
      <4>1. k < it + 1
        BY <3>1, <3>2
      <4> QED
        BY <1>0, <3>2, <4>1 DEF SeenAt
    <3>3. CASE k = it
      <4>1. k < it + 1 /\ ~(k < it)
        BY <3>1, <3>3
      <4> QED
        BY <1>0, <2>2, <3>3, <4>1 DEF SeenAt
    <3>4. CASE it < k
      <4>1. ~(k < it + 1) /\ ~(k < it) /\ k # it
        BY <3>1, <3>4
      <4> QED
        BY <1>0, <3>1, <3>4, <4>1 DEF SeenAt
    <3> QED
      BY <3>1, <3>2, <3>3, <3>4
  <2>4. FieldsAre(dataN, data, uniques, gv, it + 1, 1)
    BY <1>0, <2>3, FieldsSame
  <2> QED
    BY <1>0, <2>1, <2>2, <2>4 DEF ScanInv
<1>3. CASE ScanPairsEnd
  <2>1. /\ it' = 1 /\ gv' = gv + 1 /\ it > Len(uniques)
        /\ UNCHANGED <<pc, data, uniques, dataN, xt>>
    BY <1>3 DEF ScanPairsEnd
  <2>2. xt = 1 /\ 1 <= Len(uniques) + 1 /\ 1 <= Len(data) + 1
    BY <1>0, <2>1, ScanPlaces
  <2>3. ASSUME NEW i \in Vars, NEW k \in 1 .. Len(uniques)
        PROVE  SeenAt(gv + 1, 1, xt, Len(data), i, k) = SeenAt(gv, it, xt, Len(data), i, k)
    <3>1. i \in Nat /\ gv \in Nat /\ k \in Nat /\ k < it /\ ~(k < 1) /\ 1 .. xt - 1 = {}
      BY <2>1, <2>2, ScanPlaces
    <3>2. CASE i < gv
      BY <3>1, <3>2 DEF SeenAt
    <3>3. CASE i = gv
      BY <1>0, <3>1, <3>3 DEF SeenAt
    <3>4. CASE gv < i
      <4>1. ~(i < gv) /\ ~(i < gv + 1)
        BY <3>1, <3>4
      <4> QED
        BY <1>0, <3>1, <3>4, <4>1 DEF SeenAt
    <3> QED
      BY <3>1, <3>2, <3>3, <3>4
  <2>4. FieldsAre(dataN, data, uniques, gv + 1, 1, xt)
    BY <1>0, <2>3, FieldsSame
  <2> QED
    BY <1>0, <2>1, <2>2, <2>4 DEF ScanInv
<1> QED
  BY <1>1, <1>2, <1>3

\* fill_mfstruct and print_mf_structure leave the fields alone: G does not assign.
LEMMA ScanInvAfter ==
  ASSUME Intended, IInv, ScanInv,
         ScansEnd \/ FillKeep \/ FillErase \/ FillAborts \/ FillEnd \/ PrintResult
  PROVE  ScanInv'
<1>0. /\ pc \in {"scan", "fill", "print"} /\ gv \notin Vars
      /\ FieldsAre(dataN, data, uniques, gv, it, xt)
  BY DEF ScansEnd, FillKeep, FillErase, EraseThenStep, FillAborts, FillEnd, PrintResult, ScanInv
<1>1. /\ pc' \in {"fill", "print", "done", "out_of_range", "sigfpe"}
      /\ UNCHANGED <<data, uniques, gv, xt>>
  BY DEF ScansEnd, FillKeep, FillErase, EraseThenStep, FillAborts, FillEnd, PrintResult
<1>2. dataN' = dataN
  BY DEF ScansEnd, FillKeep, FillErase, EraseThenStep, FillAborts, FillEnd, PrintResult, AfterHaving, Intended
<1>3. ASSUME NEW i \in Vars, NEW k \in 1 .. Len(uniques)
      PROVE  SeenAt(gv, it', xt, Len(data), i, k) = SeenAt(gv, it, xt, Len(data), i, k)
  <2>1. i < gv
    BY <1>0, ScanPlaces
  <2> QED
    BY <2>1 DEF SeenAt
<1>4. FieldsAre(dataN, data, uniques, gv, it', xt)
  BY <1>0, <1>3, FieldsSame
<1> QED
  BY <1>0, <1>1, <1>2, <1>4 DEF ScanInv

\* Every step keeps ScanInv.
LEMMA NextScanInv == Intended /\ IInv /\ ScanInv /\ [Next]_vars => ScanInv'
<1> SUFFICES ASSUME Intended, IInv, ScanInv, [Next]_vars PROVE ScanInv'
  OBVIOUS
<1>1. CASE UNCHANGED vars
  BY <1>1 DEF vars, ScanInv
<1> QED
  BY <1>1, ScanInvBefore, ScanInvPrelim, ScanInvStart, ScanInvRows, ScanInvPairs, ScanInvAfter DEF Next

\* ScanInv holds in every state, with the invariant of MFScanProofs.
LEMMA ScanInvariance == Intended => (Spec => [](IInv /\ ScanInv))
<1> SUFFICES ASSUME Intended PROVE Spec => [](IInv /\ ScanInv)
  OBVIOUS
<1>1. Init => IInv /\ ScanInv
  BY InitIInv, InitScanInv
<1>2. IInv /\ ScanInv /\ [Next]_vars => (IInv /\ ScanInv)'
  BY NextIInv, NextScanInv
<1> QED
  BY <1>1, <1>2, PTL DEF Spec

-----------------------------------------------------------------------------
(*****************************************************************************)
(* From the cells to the values the program reads.                           *)
(*****************************************************************************)
\* uniques holds the first rows of the groups.
LEMMA FirstsAreUniques ==
  ASSUME IInv, pc \in {"prelim", "scan", "fill", "print", "done"}
  PROVE  /\ \A k \in 1 .. Len(uniques) : uniques[k] \in Abs!Firsts(data) /\ uniques[k] \in 1 .. Len(data)
         /\ \A g \in Abs!Firsts(data) : \E k \in 1 .. Len(uniques) : uniques[k] = g
<1>0. /\ \A j \in 1 .. Len(data) : \E k \in 1 .. Len(uniques) :
           uniques[k] <= j /\ SameGroup(data[j], data[uniques[k]])
      /\ \A k, m \in 1 .. Len(uniques) :
           k < m => uniques[k] < uniques[m] /\ ~SameGroup(data[uniques[k]], data[uniques[m]])
  BY ScanPlaces DEF IInv, OneRowPerGroup, Visited
<1>1. \A k \in 1 .. Len(uniques) : uniques[k] \in 1 .. Len(data)
  BY ScanPlaces, UniqueRows DEF IInv
<1>2. \A x, y, z : SameGroup(x, y) /\ SameGroup(x, z) => SameGroup(y, z)
  BY DEF SameGroup
<1>3. \A x, y : SameGroup(x, y) => SameGroup(y, x)
  BY DEF SameGroup
<1>4. \A x : x \in Abs!Firsts(data) <=>
        x \in 1 .. Len(data) /\ \A y \in 1 .. x - 1 : ~SameGroup(data[y], data[x])
  BY AbsGroup, ScanPlaces DEF Abs!Firsts
<1>5. ASSUME NEW k \in 1 .. Len(uniques) PROVE uniques[k] \in Abs!Firsts(data)
  <2> SUFFICES ASSUME NEW y \in 1 .. uniques[k] - 1, SameGroup(data[y], data[uniques[k]]) PROVE FALSE
    BY <1>1, <1>4
  <2>1. y \in 1 .. Len(data) /\ y < uniques[k] /\ y \in Nat /\ uniques[k] \in Nat
    BY <1>1, ScanPlaces
  <2>2. PICK m \in 1 .. Len(uniques) : uniques[m] <= y /\ SameGroup(data[y], data[uniques[m]])
    BY <1>0, <2>1
  <2>3. uniques[m] \in Nat /\ m \in Nat /\ k \in Nat
    BY <1>1
  <2>4. uniques[m] < uniques[k]
    BY <2>1, <2>2, <2>3
  <2>5. SameGroup(data[uniques[m]], data[uniques[k]])
    BY <1>2, <2>2
  <2>6. m # k
    BY <2>3, <2>4
  <2>7. ~(k < m)
    <3>1. ~(uniques[k] < uniques[m])
      BY <2>1, <2>3, <2>4
    <3> QED
      BY <1>0, <3>1
  <2>8. ~(m < k)
    BY <1>0, <2>5
  <2> QED
    BY <2>3, <2>6, <2>7, <2>8
<1>6. ASSUME NEW g \in Abs!Firsts(data) PROVE \E k \in 1 .. Len(uniques) : uniques[k] = g
  <2>1. g \in 1 .. Len(data) /\ \A y \in 1 .. g - 1 : ~SameGroup(data[y], data[g])
    BY <1>4, <1>6
  <2>2. PICK k \in 1 .. Len(uniques) : uniques[k] <= g /\ SameGroup(data[g], data[uniques[k]])
    BY <1>0, <2>1
  <2>3. uniques[k] \in Nat /\ 1 <= uniques[k] /\ g \in Nat
    BY <1>1, <2>1
  <2>4. SameGroup(data[uniques[k]], data[g])
    BY <1>3, <2>2
  <2>5. ~(uniques[k] \in 1 .. g - 1)
    BY <2>1, <2>4
  <2>6. uniques[k] = g
    BY <2>2, <2>3, <2>5
  <2> QED
    BY <2>6
<1> QED
  BY <1>1, <1>5, <1>6

\* The value of an aggregate once its scan is over.
LEMMA ValueExact ==
  ASSUME Intended, IInv, ScanInv, pc \in {"scan", "fill", "print", "done"},
         NEW a \in all_aggregates, NEW k \in 1 .. Len(uniques), a.group < gv
  PROVE  ValueAt(a, k - 1) = Abs!Meaning(data)[a.group][uniques[k]][a]
<1> DEFINE f == dataN[a.group][k].fields
           S == RowsOf(a.group, data, uniques[k])
<1>1. a.group \in Vars /\ a \in AggsOf(a.group)
  BY AggregatePlace
<1>2. uniques[k] \in Abs!Firsts(data)
  BY FirstsAreUniques
<1>3. Abs!Meaning(data)[a.group][uniques[k]][a] = Abs!AggregateOver(a, data, S)
  BY <1>1, <1>2, MeaningIs DEF Plain
<1>4. k - 1 + 1 = k
  BY ScanPlaces
<1>5. ValueAt(a, k - 1) = FieldValue(a, f)
  BY <1>4 DEF ValueAt
<1>6. f \in Fields(a.group)
  BY <1>1, FieldsTyped
<1>7. SeenAt(gv, it, xt, Len(data), a.group, k) = 1 .. Len(data)
  BY DEF SeenAt
<1>8. Taken(1 .. Len(data), a.group, data, uniques[k]) = S
  BY ScanPlaces DEF Taken, RowsOf
<1>9. IsFields(a, f, data, S)
  BY <1>7, <1>8 DEF ScanInv, FieldsAre
<1>10. S \subseteq 1 .. Len(data)
  BY ScanPlaces DEF RowsOf
<1>11. IsFiniteSet(S)
  <2>1. IsFiniteSet(1 .. Len(data))
    BY ScanPlaces, FS_Interval
  <2> HIDE DEF S
  <2> QED
    BY <1>10, <2>1, FS_Subset
<1>12. \A j \in S : data[j] \in LoadedRows
  BY <1>10, ScanPlaces
<1> HIDE DEF S, f
<1>13. FieldValue(a, f) = Abs!AggregateOver(a, data, S)
  BY <1>6, <1>9, <1>11, <1>12, FieldsMean
<1> QED
  BY <1>3, <1>5, <1>13

\* The fields of a scan to come.
LEMMA LaterZero ==
  ASSUME IInv, ScanInv, pc \in {"scan", "fill", "print", "done"},
         NEW i \in Vars, NEW k \in 1 .. Len(uniques), i > gv
  PROVE  dataN[i][k].fields = ZeroFields(i)
<1> DEFINE f == dataN[i][k].fields
<1>1. f \in Fields(i)
  BY FieldsTyped
<1>2. ASSUME NEW a \in AggsOf(i)
      PROVE  f.cells[a] = 0 /\ (a.func = "avg" => f.counts[a] = 0)
  <2>1. a \in all_aggregates /\ a.group = i
    BY DEF AggsOf
  <2>2. SeenAt(gv, it, xt, Len(data), i, k) = {}
    BY ScanPlaces DEF SeenAt
  <2>3. Taken({}, i, data, uniques[k]) = {}
    BY DEF Taken
  <2>4. IsFields(a, f, data, {})
    BY <2>1, <2>2, <2>3 DEF ScanInv, FieldsAre
  <2>5. Cardinality({}) = 0 /\ Sum(a.column, data, {}) = 0
    BY FS_EmptySet, SumEmpty
  <2>6. a.func \in Funcs
    BY <2>1, AggregatePlace
  <2> HIDE DEF f
  <2>7. f.cells[a] = 0
    BY <2>4, <2>5, <2>6 DEF IsFields, IsCell, Funcs
  <2> QED
    BY <2>4, <2>5, <2>7 DEF IsFields
<1> HIDE DEF f
<1>3. f.cells = [a \in AggsOf(i) |-> 0]
  BY <1>1, <1>2 DEF Fields
<1>4. f.counts = [a \in AvgsOf(i) |-> 0]
  BY <1>1, <1>2 DEF Fields, AvgsOf
<1>5. f = [cells |-> f.cells, counts |-> f.counts]
  BY <1>1 DEF Fields
<1> QED
  BY <1>3, <1>4, <1>5 DEF ZeroFields, f

\* Right fields give exact aggregates.
LEMMA ScanInvExact == Intended /\ IInv /\ ScanInv => ScannedAggregatesExact
<1> SUFFICES ASSUME Intended, IInv, ScanInv, pc \in {"scan", "fill", "print", "done"},
                    NEW a \in all_aggregates, NEW k \in 1 .. Len(uniques)
             PROVE  /\ a.group < gv => ValueAt(a, k - 1) = Abs!Meaning(data)[a.group][uniques[k]][a]
                    /\ a.group > gv => dataN[a.group][k].fields = ZeroFields(a.group)
  BY ScanPlaces DEF ScannedAggregatesExact
<1> QED
  BY ValueExact, LaterZero, AggregatePlace

\* For every intended query, once scan i is over every aggregate of variable i
\* holds its exact value for every group, and the later ones are still zero
\* (aggregate_scan, emf_aggregate_scan).
THEOREM AggregatesExact == Intended => (Spec => []ScannedAggregatesExact)
<1> SUFFICES ASSUME Intended PROVE Spec => []ScannedAggregatesExact
  OBVIOUS
<1>1. IInv /\ ScanInv => ScannedAggregatesExact
  BY ScanInvExact
<1>2. Spec => [](IInv /\ ScanInv)
  BY ScanInvariance
<1> QED
  BY <1>1, <1>2, PTL

-----------------------------------------------------------------------------
(***************************************************************************)
(* The positions of a set in order.                                        *)
(***************************************************************************)
\* The function InOrder builds, as a function of its own.
Upto(S, n) ==
  CHOOSE f : f = [k \in 0 .. n |->
                    IF k = 0 THEN <<>> ELSE IF k \in S THEN Append(f[k - 1], k) ELSE f[k - 1]]

\* InOrder is the last value of that function.
LEMMA InOrderIs ==
  ASSUME NEW S, NEW n PROVE Abs!InOrder(S, n) = Upto(S, n)[n]
BY DEF Abs!InOrder, Upto

\* F has the positions of S up to k, by its recursion.
Ordered(F, S, n) ==
  /\ F \in [0 .. n -> Seq(Nat)]
  /\ \A k \in 0 .. n :
       F[k] = IF k = 0 THEN <<>> ELSE IF k \in S THEN Append(F[k - 1], k) ELSE F[k - 1]

\* And the function is what its recursion says.
LEMMA UptoOrdered ==
  ASSUME NEW S, NEW n \in Nat PROVE Ordered(Upto(S, n), S, n)
<1> DEFINE I == 0 .. n
           D == Seq(Nat)
           B == n + 1
           mu == [k \in I |-> k]
           body(k, f) == IF k = 0 THEN <<>> ELSE IF k \in S THEN Append(f[k - 1], k) ELSE f[k - 1]
           step == [p \in I \X [I -> D] |-> body(p[1], p[2])]
<1>1. D # {}
  <2>1. <<>> \in D
    OBVIOUS
  <2> HIDE DEF D
  <2> QED
    BY <2>1
<1>2. B \in Nat /\ mu \in [I -> Nat] /\ \A k \in I : mu[k] < B
  OBVIOUS
<1>3. ASSUME NEW k \in I, k # 0 PROVE k - 1 \in I /\ mu[k - 1] < mu[k] /\ k \in Nat
  BY <1>3
<1>4. ASSUME NEW k \in I, NEW f, \A j \in I : mu[j] < mu[k] => f[j] \in D
      PROVE  body(k, f) \in D
  <2>1. CASE k = 0
    BY <2>1
  <2>2. CASE k # 0
    <3>1. f[k - 1] \in Seq(Nat) /\ k \in Nat
      BY <2>2, <1>3, <1>4
    <3>2. Append(f[k - 1], k) \in Seq(Nat)
      BY <3>1, AppendProperties
    <3> QED
      BY <2>2, <3>1, <3>2
  <2> QED
    BY <2>1, <2>2
<1>5. ASSUME NEW k \in I, NEW f, NEW g, \A j \in I : mu[j] < mu[k] => f[j] = g[j]
      PROVE  body(k, f) = body(k, g)
  <2>1. CASE k = 0
    BY <2>1
  <2>2. CASE k # 0
    <3>1. f[k - 1] = g[k - 1]
      BY <2>2, <1>3, <1>5
    <3> QED
      BY <3>1
  <2> QED
    BY <2>1, <2>2
<1> HIDE DEF D, B, mu, I, body
<1>6. \A k \in I, f \in [I -> D] : step[<<k, f>>] = body(k, f)
  OBVIOUS
<1>7. step \in [I \X [I -> D] -> D]
  <2>1. \A p \in I \X [I -> D] : p[1] \in I /\ p[2] \in [I -> D]
    OBVIOUS
  <2>2. \A p \in I \X [I -> D] : body(p[1], p[2]) \in D
    BY <2>1, <1>4
  <2> QED
    BY <2>2
<1> HIDE DEF step
<1>8. \A k \in I : \A f, g \in [I -> D] :
        (\A j \in I : mu[j] < mu[k] => f[j] = g[j]) => step[<<k, f>>] = step[<<k, g>>]
  BY <1>5, <1>6
<1>9. IsRecursion(I, D, mu, B, step)
  BY <1>1, <1>2, <1>7, <1>8, Zenon DEF IsRecursion
<1>10. PICK f \in [I -> D] : \A k \in I : f[k] = step[<<k, f>>]
  BY <1>9, RecursiveFunction
<1>11. f = [k \in I |-> body(k, f)]
  BY <1>10, <1>6
<1> DEFINE F == Upto(S, n)
<1>12. F = [k \in I |-> body(k, F)]
  BY <1>11 DEF Upto, body, I
<1> HIDE DEF F
<1> DEFINE T == {k \in I : F[k] \in D}
<1>13. \A k \in I : (\A j \in I : mu[j] < mu[k] => j \in T) => k \in T
  BY <1>12, <1>4
<1>14. \A k \in I : k \in T
  <2> HIDE DEF T
  <2> QED
    BY <1>13, <1>2, MeasureInduction, Zenon
<1>15. F \in [I -> D]
  BY <1>12, <1>14
<1>16. \A k \in I : F[k] = body(k, F)
  BY <1>12
<1> QED
  BY <1>15, <1>16 DEF F, I, D, body, Ordered

\* b extends a with positions of S between lo + 1 and hi.
Extends(b, a, S, lo, hi) ==
  /\ Len(a) <= Len(b)
  /\ \A j \in 1 .. Len(a) : b[j] = a[j]
  /\ \A j \in Len(a) + 1 .. Len(b) : b[j] \in S /\ b[j] \in lo + 1 .. hi

\* From lo to hi the positions of S in between are added.
LEMMA OrderedGrows ==
  ASSUME NEW S, NEW n \in Nat, NEW F, Ordered(F, S, n), NEW lo \in 0 .. n, NEW hi \in lo .. n
  PROVE  Extends(F[hi], F[lo], S, lo, hi)
<1> DEFINE T == {m \in Nat : lo + m <= n => Extends(F[lo + m], F[lo], S, lo, lo + m)}
           a == F[lo]
<1>0. \A k \in 0 .. n : F[k] \in Seq(Nat) /\ Len(F[k]) \in Nat
  BY DEF Ordered
<1>1. 0 \in T
  <2>1. Len(F[lo]) \in Nat /\ lo + 0 = lo
    BY <1>0
  <2>2. Extends(F[lo], F[lo], S, lo, lo)
    BY <2>1 DEF Extends
  <2> QED
    BY <2>1, <2>2
<1>2. ASSUME NEW m \in Nat, m \in T PROVE m + 1 \in T
  <2> SUFFICES ASSUME lo + (m + 1) <= n PROVE Extends(F[lo + (m + 1)], F[lo], S, lo, lo + (m + 1))
    OBVIOUS
  <2> DEFINE k == lo + m
             b == F[k]
  <2>1. k \in 0 .. n /\ k + 1 \in 0 .. n /\ lo + (m + 1) = k + 1 /\ k + 1 # 0 /\ (k + 1) - 1 = k /\ lo <= k
    OBVIOUS
  <2>2. Extends(b, a, S, lo, k)
    BY <1>2
  <2>3. F[k + 1] = IF k + 1 \in S THEN Append(b, k + 1) ELSE b
    BY <2>1 DEF Ordered
  <2>4. b \in Seq(Nat) /\ Len(b) \in Nat /\ Len(a) \in Nat /\ k \in Nat /\ lo \in Nat
    BY <1>0, <2>1
  <2> HIDE DEF k, b, a
  <2>5. CASE k + 1 \notin S
    <3>1. \A j \in lo + 1 .. k : j \in lo + 1 .. k + 1
      BY <2>4
    <3>2. Extends(b, a, S, lo, k + 1)
      BY <2>2, <3>1 DEF Extends
    <3> QED
      BY <2>1, <2>3, <2>5, <3>2 DEF a
  <2>6. CASE k + 1 \in S
    <3> DEFINE c == Append(b, k + 1)
    <3>1. /\ Len(c) = Len(b) + 1 /\ c[Len(b) + 1] = k + 1
          /\ \A j \in 1 .. Len(b) : c[j] = b[j]
      BY <2>4
    <3> HIDE DEF c
    <3>2. /\ Len(a) <= Len(b) /\ \A j \in 1 .. Len(a) : b[j] = a[j]
      BY <2>2 DEF Extends
    <3>21. \A j \in Len(a) + 1 .. Len(b) : b[j] \in S /\ b[j] \in lo + 1 .. k
      BY <2>2 DEF Extends
    <3>3. Len(a) <= Len(c) /\ \A j \in 1 .. Len(a) : j \in 1 .. Len(b)
      BY <2>4, <3>1, <3>2
    <3>4. \A j \in 1 .. Len(a) : c[j] = a[j]
      BY <3>1, <3>2, <3>3
    <3>5. ASSUME NEW j \in Len(a) + 1 .. Len(c) PROVE c[j] \in S /\ c[j] \in lo + 1 .. k + 1
      <4>1. (j \in Len(a) + 1 .. Len(b) /\ j \in 1 .. Len(b)) \/ j = Len(b) + 1
        BY <2>4, <3>1, <3>2
      <4>2. CASE j = Len(b) + 1
        <5>1. c[j] = k + 1
          BY <4>2, <3>1
        <5>2. k + 1 \in lo + 1 .. k + 1
          BY <2>1, <2>4
        <5> QED
          BY <2>6, <5>1, <5>2
      <4>3. CASE j \in Len(a) + 1 .. Len(b) /\ j \in 1 .. Len(b)
        <5>1. c[j] = b[j] /\ b[j] \in S /\ b[j] \in lo + 1 .. k
          BY <4>3, <3>1, <3>21
        <5>2. \A i \in lo + 1 .. k : i \in lo + 1 .. k + 1
          BY <2>4
        <5> QED
          BY <5>1, <5>2
      <4> QED
        BY <4>1, <4>2, <4>3
    <3>6. Extends(c, a, S, lo, k + 1)
      BY <3>3, <3>4, <3>5 DEF Extends
    <3> QED
      BY <2>1, <2>3, <2>6, <3>6 DEF c, a
  <2> QED
    BY <2>5, <2>6
<1>3. Nat \subseteq T
  <2> HIDE DEF T
  <2> QED
    BY <1>1, <1>2, SetInduction
<1>4. hi - lo \in Nat /\ lo + (hi - lo) = hi /\ hi <= n
  OBVIOUS
<1>5. hi - lo \in T
  BY <1>3, <1>4
<1> QED
  BY <1>4, <1>5

\* With none in between nothing is added.
LEMMA OrderedGap ==
  ASSUME NEW S, NEW n \in Nat, NEW F, Ordered(F, S, n), NEW lo \in 0 .. n, NEW hi \in lo .. n,
         \A j \in lo + 1 .. hi : j \notin S
  PROVE  F[hi] = F[lo]
<1>1. hi \in 0 .. n
  OBVIOUS
<1>2. F[hi] \in Seq(Nat) /\ F[lo] \in Seq(Nat)
  BY <1>1 DEF Ordered
<1>3. Extends(F[hi], F[lo], S, lo, hi)
  BY OrderedGrows
<1> DEFINE a == F[lo]
           b == F[hi]
<1>4. Len(a) \in Nat /\ Len(b) \in Nat
  BY <1>2
<1>5. Len(a) <= Len(b) /\ (\A j \in 1 .. Len(a) : b[j] = a[j]) /\ \A j \in Len(a) + 1 .. Len(b) : FALSE
  BY <1>3 DEF Extends
<1> HIDE DEF a, b
<1>6. Len(a) = Len(b)
  <2>1. ~(Len(a) + 1 <= Len(b))
    BY <1>4, <1>5
  <2> QED
    BY <1>4, <1>5, <2>1
<1>7. a \in Seq(Nat) /\ b \in Seq(Nat)
  BY <1>2 DEF a, b
<1>8. a = b
  BY <1>5, <1>6, <1>7, SeqEqual
<1> QED
  BY <1>8 DEF a, b

-----------------------------------------------------------------------------
(***************************************************************************)
(* The fill: the entries behind the iterator are the answer so far.        *)
(***************************************************************************)
\* The groups of the answer, and their entries.
Kept(d) == {g \in Abs!Firsts(d) : HavingTrue(Abs!ValuesOf(Abs!Meaning(d), g))}

\* The entry of the answer for the group of row g.
AnsEntry(d, g) ==
  [cols |-> SelectCols(d[g]),
   aggs |-> [a \in select_aggregates |-> Abs!Meaning(d)[a.group][g][a]]]

Order(d) == Upto(Kept(d), Len(d))

\* MFQuery evaluates G as the program does, when G assigns nothing.
LEMMA AbsHaving ==
  ASSUME NEW v
  PROVE  Abs!HavingTrue(v) = HavingTrue(v) /\ Abs!HavingFaults(v) = HavingFaults(v)
BY DEF Abs!HavingTrue, HavingTrue, Abs!HavingFaults, HavingFaults, Abs!ConjunctTrue, ConjunctTrue,
       Abs!AtomTrue, AtomTrue, Abs!Divides, Divides, Abs!Operand, Operand, Abs!Rhs, Rhs,
       Abs!TruncDiv, TruncDiv, Abs!Compare, Compare

\* And selects the same plain columns.
LEMMA AbsCols == ASSUME NEW r PROVE Abs!SelectCols(r) = SelectCols(r)
BY DEF Abs!SelectCols, SelectCols

\* The answer has one entry for each kept group, in order.
LEMMA AnswerIs ==
  ASSUME NEW d
  PROVE  Abs!Answer(d) = [k \in DOMAIN Order(d)[Len(d)] |-> AnsEntry(d, Order(d)[Len(d)][k])]
<1> DEFINE K == {g \in Abs!Firsts(d) : Abs!HavingTrue(Abs!ValuesOf(Abs!Meaning(d), g))}
           s == Abs!InOrder(K, Len(d))
<1>1. Abs!Answer(d) = [k \in DOMAIN s |->
                         [cols |-> Abs!SelectCols(d[s[k]]),
                          aggs |-> [a \in select_aggregates |-> Abs!Meaning(d)[a.group][s[k]][a]]]]
  BY DEF Abs!Answer
<1>2. K = Kept(d)
  BY AbsHaving DEF Kept
<1> HIDE DEF K
<1>3. s = Order(d)[Len(d)]
  BY <1>2, InOrderIs DEF Order
<1> HIDE DEF s
<1>4. Abs!Answer(d) = [k \in DOMAIN s |-> AnsEntry(d, s[k])]
  BY <1>1, AbsCols DEF AnsEntry
<1> QED
  BY <1>3, <1>4

\* The row of the last group passed.
Mark(u, p) == IF p = 0 THEN 0 ELSE u[p]

\* t - 1 entries of the answer, for the first p groups, and the other groups.
FillAt(ms, t, d, u, p) ==
  /\ p \in 0 .. Len(u)
  /\ Len(ms) = (t - 1) + (Len(u) - p)
  /\ Len(Order(d)[Mark(u, p)]) = t - 1
  /\ \A q \in 1 .. t - 1 : ms[q] = AnsEntry(d, Order(d)[Mark(u, p)][q])
  /\ \A q \in 1 .. Len(u) - p : ms[(t - 1) + q] = NewEntry(d[u[p + q]])

\* What prelim_scan and fill_mfstruct keep of mf_struct and of the output.
FillInv ==
  /\ pc \in {"prelim", "scan"} => \A p \in DOMAIN mf_struct : mf_struct[p] = NewEntry(data[uniques[p]])
  /\ pc = "scan" => Len(mf_struct) = Len(uniques)
  /\ pc = "fill" => \E p \in 0 .. Len(uniques) : FillAt(mf_struct, it, data, uniques, p)
  /\ pc = "print" => FillAt(mf_struct, it, data, uniques, Len(uniques))
  /\ pc = "done" => output = Abs!Answer(data)
  /\ pc # "done" => output = <<>>

\* The groups in order: numbers only.
LEMMA UniquesPlaces ==
  ASSUME IInv, pc \in {"scan", "fill", "print"}
  PROVE  /\ \A k \in 1 .. Len(uniques) : uniques[k] \in 1 .. Len(data)
         /\ \A k, m \in 1 .. Len(uniques) : k < m => uniques[k] < uniques[m]
         /\ \A g \in Kept(data) : \E k \in 1 .. Len(uniques) : uniques[k] = g
<1>1. \A k \in 1 .. Len(uniques) : uniques[k] \in 1 .. Len(data)
  BY FirstsAreUniques
<1>2. \A k, m \in 1 .. Len(uniques) : k < m => uniques[k] < uniques[m]
  BY ScanPlaces DEF IInv, OneRowPerGroup
<1>3. \A g \in Kept(data) : \E k \in 1 .. Len(uniques) : uniques[k] = g
  BY FirstsAreUniques DEF Kept
<1> QED
  BY <1>1, <1>2, <1>3

\* The last group passed separates the groups behind from the ones ahead.
LEMMA MarkPlaces ==
  ASSUME IInv, pc \in {"scan", "fill", "print"}, NEW p \in 0 .. Len(uniques)
  PROVE  /\ Mark(uniques, p) \in 0 .. Len(data)
         /\ \A k \in 1 .. Len(uniques) :
              /\ k <= p => uniques[k] <= Mark(uniques, p)
              /\ p < k => Mark(uniques, p) < uniques[k]
<1>1. p \in Nat /\ Len(uniques) \in Nat /\ Len(data) \in Nat
  BY ScanPlaces
<1>2. CASE p = 0
  BY <1>1, <1>2, UniquesPlaces DEF Mark
<1>3. CASE p # 0
  <2>1. p \in 1 .. Len(uniques) /\ Mark(uniques, p) = uniques[p]
    BY <1>1, <1>3 DEF Mark
  <2>2. uniques[p] \in 1 .. Len(data)
    BY <2>1, UniquesPlaces
  <2>3. ASSUME NEW k \in 1 .. Len(uniques)
        PROVE  (k <= p => uniques[k] <= uniques[p]) /\ (p < k => uniques[p] < uniques[k])
    <3>1. uniques[k] \in Nat /\ uniques[p] \in Nat /\ k \in Nat
      BY <1>1, <2>1, UniquesPlaces
    <3>2. k < p => uniques[k] < uniques[p]
      BY <2>1, UniquesPlaces
    <3>3. p < k => uniques[p] < uniques[k]
      BY <2>1, UniquesPlaces
    <3>4. k <= p => k < p \/ k = p
      BY <1>1, <3>1
    <3> QED
      BY <3>1, <3>2, <3>3, <3>4
  <2>4. uniques[p] \in 0 .. Len(data)
    BY <1>1, <2>2
  <2> QED
    BY <2>1, <2>3, <2>4
<1> QED
  BY <1>2, <1>3

\* The kept groups of data in order.
LEMMA OrderOrdered ==
  ASSUME IInv PROVE Ordered(Order(data), Kept(data), Len(data))
BY ScanPlaces, UptoOrdered DEF Order

\* Passing one more group.
LEMMA OrderStep ==
  ASSUME IInv, pc \in {"scan", "fill", "print"}, NEW p \in 0 .. Len(uniques), p < Len(uniques)
  PROVE  Order(data)[uniques[p + 1]] =
           IF uniques[p + 1] \in Kept(data) THEN Append(Order(data)[Mark(uniques, p)], uniques[p + 1])
           ELSE Order(data)[Mark(uniques, p)]
<1> DEFINE x == uniques[p + 1]
           F == Order(data)
           S == Kept(data)
           n == Len(data)
           m == Mark(uniques, p)
<1>1. p \in Nat /\ p + 1 \in 1 .. Len(uniques) /\ p < p + 1 /\ n \in Nat
  BY ScanPlaces
<1>2. x \in 1 .. n /\ m \in 0 .. n /\ m < x
  BY <1>1, UniquesPlaces, MarkPlaces
<1>3. Ordered(F, S, n)
  BY OrderOrdered
<1>4. ASSUME NEW j \in m + 1 .. x - 1, j \in S PROVE FALSE
  <2>1. PICK k \in 1 .. Len(uniques) : uniques[k] = j
    BY <1>4, UniquesPlaces
  <2>2. k \in Nat /\ m < j /\ j < x /\ j \in Int /\ x \in Int /\ m \in Int
    BY <1>1, <1>2
  <2>3. k <= p => uniques[k] <= m
    BY MarkPlaces
  <2>4. p + 1 < k => x < uniques[k]
    BY <1>1, UniquesPlaces
  <2>5. k <= p \/ k = p + 1 \/ p + 1 < k
    BY <1>1, <2>2
  <2> HIDE DEF m, x
  <2>6. ~(k <= p) /\ ~(p + 1 < k)
    BY <2>1, <2>2, <2>3, <2>4
  <2>7. uniques[k] = x
    BY <2>5, <2>6 DEF x
  <2> QED
    BY <2>1, <2>2, <2>7
<1> HIDE DEF x, m, n, S, F
<1>5. x \in 0 .. n /\ x # 0 /\ x - 1 \in 0 .. n /\ x - 1 \in m .. n
  BY <1>1, <1>2
<1>6. F[x - 1] = F[m]
  <2>1. n \in Nat /\ m \in 0 .. n /\ x - 1 \in m .. n
    BY <1>1, <1>2, <1>5
  <2>2. \A j \in m + 1 .. x - 1 : j \notin S
    BY <1>4
  <2> QED
    BY <1>3, <2>1, <2>2, OrderedGap
<1>7. F[x] = IF x \in S THEN Append(F[x - 1], x) ELSE F[x - 1]
  BY <1>3, <1>5 DEF Ordered
<1>8. F[x] = IF x \in S THEN Append(F[m], x) ELSE F[m]
  BY <1>6, <1>7
<1> QED
  BY <1>8 DEF x, m, S, F

\* After the last group.
LEMMA OrderEnd ==
  ASSUME IInv, pc \in {"scan", "fill", "print"}
  PROVE  Order(data)[Mark(uniques, Len(uniques))] = Order(data)[Len(data)]
<1> DEFINE F == Order(data)
           S == Kept(data)
           n == Len(data)
           m == Mark(uniques, Len(uniques))
<1>1. n \in Nat /\ Len(uniques) \in 0 .. Len(uniques)
  BY ScanPlaces
<1>2. m \in 0 .. n /\ \A k \in 1 .. Len(uniques) : k <= Len(uniques) => uniques[k] <= m
  BY <1>1, MarkPlaces
<1>3. Ordered(F, S, n)
  BY OrderOrdered
<1>4. ASSUME NEW j \in m + 1 .. n, j \in S PROVE FALSE
  <2>1. PICK k \in 1 .. Len(uniques) : uniques[k] = j
    BY <1>4, UniquesPlaces
  <2>2. uniques[k] <= m
    BY <1>2, ScanPlaces
  <2> HIDE DEF m
  <2> QED
    BY <1>1, <1>2, <2>1, <2>2
<1> HIDE DEF m, n, S, F
<1>5. n \in m .. n
  BY <1>1, <1>2
<1>6. F[n] = F[m]
  <2>1. n \in Nat /\ m \in 0 .. n
    BY <1>1, <1>2
  <2>2. \A j \in m + 1 .. n : j \notin S
    BY <1>4
  <2> QED
    BY <1>3, <1>5, <2>1, <2>2, OrderedGap
<1> QED
  BY <1>6 DEF m, n, F

-----------------------------------------------------------------------------
(*****************************************************************************)
(* One iteration of fill_mfstruct.                                           *)
(*****************************************************************************)
\* Every value HAVING reads is the one of the meaning.
LEMMA ValuesExact ==
  ASSUME Intended, IInv, ScanInv, pc = "fill", NEW k \in 1 .. Len(uniques)
  PROVE  /\ Values(k - 1) = Abs!ValuesOf(Abs!Meaning(data), uniques[k])
         /\ \A a \in all_aggregates : ValueAt(a, k - 1) = Abs!Meaning(data)[a.group][uniques[k]][a]
<1>1. ASSUME NEW a \in all_aggregates
      PROVE  ValueAt(a, k - 1) = Abs!Meaning(data)[a.group][uniques[k]][a]
  <2>1. gv \notin Vars
    BY DEF ScanInv
  <2>2. a.group < gv
    BY <2>1, AggregatePlace, ScanPlaces
  <2> QED
    BY <2>2, ValueExact
<1> QED
  BY <1>1 DEF Values, Abs!ValuesOf

\* The entry at the iterator is the next group, and vfind finds it.
LEMMA EntryNext ==
  ASSUME Intended, IInv, ScanInv, pc = "fill", it <= Len(mf_struct),
         NEW p, FillAt(mf_struct, it, data, uniques, p)
  PROVE  /\ p \in 0 .. Len(uniques) /\ p < Len(uniques) /\ p + 1 \in 1 .. Len(uniques)
         /\ Mark(uniques, p + 1) = uniques[p + 1]
         /\ it \in 1 .. Len(mf_struct)
         /\ mf_struct[it] = NewEntry(data[uniques[p + 1]])
         /\ vfind(0, mf_struct[it].cols) = (p + 1) - 1 /\ (p + 1) - 1 # -1
<1>0. Len(mf_struct) \in Nat /\ Len(uniques) \in Nat /\ it \in Nat \ {0}
  BY ScanPlaces DEF IInv, TypeOK
<1>1. p \in 0 .. Len(uniques) /\ Len(mf_struct) = (it - 1) + (Len(uniques) - p)
  BY DEF FillAt
<1>2. p \in Nat /\ p < Len(uniques) /\ p + 1 \in 1 .. Len(uniques) /\ it \in 1 .. Len(mf_struct)
  BY <1>0, <1>1
<1>3. 1 \in 1 .. Len(uniques) - p /\ (it - 1) + 1 = it
  BY <1>0, <1>2
<1>4. mf_struct[it] = NewEntry(data[uniques[p + 1]])
  BY <1>3 DEF FillAt
<1>5. mf_struct[it].cols = SelectCols(data[uniques[p + 1]])
  BY <1>4 DEF NewEntry
<1>6. SameGroup(mf_struct[it].cols, data[uniques[p + 1]])
  BY <1>5, ColumnsAssumption DEF SameGroup, SelectCols
<1>7. vfind(0, mf_struct[it].cols) = (p + 1) - 1
  <2>1. 0 \in Vars /\ p + 1 \in DOMAIN uniques
    BY <1>2, ScanPlaces
  <2> QED
    BY <1>6, <2>1, VfindHit
<1>8. Mark(uniques, p + 1) = uniques[p + 1] /\ (p + 1) - 1 # -1
  BY <1>2 DEF Mark
<1> QED
  BY <1>1, <1>2, <1>4, <1>7, <1>8

\* What HAVING decides is whether the group is one of the answer.
LEMMA VerdictExact ==
  ASSUME Intended, IInv, ScanInv, pc = "fill", NEW k \in 1 .. Len(uniques)
  PROVE  /\ Verdict(k - 1) = "keep" => uniques[k] \in Kept(data)
         /\ Verdict(k - 1) = "erase" => uniques[k] \notin Kept(data)
         /\ Verdict(k - 1) \in {"sigfpe", "out_of_range"} =>
              /\ Verdict(k - 1) = "sigfpe"
              /\ HavingFaults(Abs!ValuesOf(Abs!Meaning(data), uniques[k]))
<1> DEFINE v == Abs!ValuesOf(Abs!Meaning(data), uniques[k])
<1>1. Values(k - 1) = v /\ k - 1 # -1
  BY ValuesExact, ScanPlaces
<1>2. ~Assigns
  BY DEF Intended
<1>3. Verdict(k - 1) = IF HavingFaults(v) THEN "sigfpe" ELSE IF HavingTrue(v) THEN "keep" ELSE "erase"
  BY <1>1, <1>2 DEF Verdict, HavingHolds
<1>4. uniques[k] \in Kept(data) <=> HavingTrue(v)
  BY FirstsAreUniques DEF Kept
<1> HIDE DEF v
<1>5. HavingTrue(v) \in BOOLEAN /\ HavingFaults(v) \in BOOLEAN
  BY DEF HavingTrue, HavingFaults
<1> QED
  BY <1>3, <1>4, <1>5 DEF v

\* A group that passes HAVING gets its values and the iterator moves on.
LEMMA FillKeepExact ==
  ASSUME Intended, IInv, ScanInv, FillKeep, NEW p, FillAt(mf_struct, it, data, uniques, p)
  PROVE  FillAt(mf_struct', it + 1, data, uniques, p + 1)
<1> DEFINE x == uniques[p + 1]
           s == Order(data)[Mark(uniques, p)]
           s2 == Order(data)[Mark(uniques, p + 1)]
<1>0. pc = "fill" /\ it <= Len(mf_struct)
  BY DEF FillKeep
<1>1. /\ p \in 0 .. Len(uniques) /\ p < Len(uniques) /\ p + 1 \in 1 .. Len(uniques)
      /\ Mark(uniques, p + 1) = x /\ it \in 1 .. Len(mf_struct)
      /\ mf_struct[it] = NewEntry(data[x])
      /\ vfind(0, mf_struct[it].cols) = (p + 1) - 1
  BY <1>0, EntryNext
<1>2. x \in Kept(data)
  <2>1. Verdict((p + 1) - 1) = "keep"
    BY <1>1 DEF FillKeep
  <2> QED
    BY <1>0, <1>1, <2>1, VerdictExact
<1>3. s2 = Append(s, x)
  BY <1>0, <1>1, <1>2, OrderStep
<1>4. mf_struct \in Seq(Entries) /\ Len(mf_struct) \in Nat /\ it \in Nat /\ Len(uniques) \in Nat /\ p \in Nat
  BY <1>1, ScanPlaces DEF IInv, TypeOK
<1>5. Len(s) = it - 1 /\ s \in Seq(Nat)
  <2>1. Mark(uniques, p) \in 0 .. Len(data)
    BY <1>0, <1>1, MarkPlaces
  <2> QED
    BY <2>1, OrderOrdered DEF FillAt, Ordered
<1> DEFINE e == AnsEntry(data, x)
<1>6. mf_struct' = [mf_struct EXCEPT ![it] = e]
  <2> DEFINE w == [a \in select_aggregates |-> FieldValue(a, dataN[a.group][(p + 1) - 1 + 1].fields)]
  <2>1. mf_struct' = [mf_struct EXCEPT ![it] = Filled(mf_struct[it], (p + 1) - 1, AfterHaving((p + 1) - 1))]
    BY <1>1 DEF FillKeep
  <2>2. AfterHaving((p + 1) - 1) = dataN
    BY DEF AfterHaving, Intended
  <2>3. Filled(mf_struct[it], (p + 1) - 1, dataN) = [mf_struct[it] EXCEPT !.aggs = w]
    BY DEF Filled
  <2>4. \A a \in select_aggregates :
          FieldValue(a, dataN[a.group][(p + 1) - 1 + 1].fields) = Abs!Meaning(data)[a.group][x][a]
    <3>1. \A a \in all_aggregates : ValueAt(a, (p + 1) - 1) = Abs!Meaning(data)[a.group][x][a]
      BY <1>0, <1>1, ValuesExact
    <3> QED
      BY <3>1, AggregatesAssumption DEF ValueAt
  <2>5. w = [a \in select_aggregates |-> Abs!Meaning(data)[a.group][x][a]]
    BY <2>4
  <2> HIDE DEF w
  <2>6. [mf_struct[it] EXCEPT !.aggs = w] = [cols |-> SelectCols(data[x]), aggs |-> w]
    BY <1>1 DEF NewEntry
  <2> QED
    BY <2>1, <2>2, <2>3, <2>5, <2>6 DEF AnsEntry
<1> HIDE DEF x, s, s2, e
<1>7. /\ Len(mf_struct') = Len(mf_struct) /\ mf_struct'[it] = e
      /\ \A q \in 1 .. Len(mf_struct) : q # it => mf_struct'[q] = mf_struct[q]
  BY <1>1, <1>4, <1>6
<1>8. /\ Len(s2) = it /\ s2[it] = x /\ \A q \in 1 .. it - 1 : s2[q] = s[q]
  <2>1. Len(s2) = Len(s) + 1 /\ s2[Len(s) + 1] = x /\ \A q \in 1 .. Len(s) : s2[q] = s[q]
    BY <1>3, <1>5
  <2> QED
    BY <1>4, <1>5, <2>1
<1>9. Len(mf_struct') = ((it + 1) - 1) + (Len(uniques) - (p + 1))
  <2>1. Len(mf_struct) = (it - 1) + (Len(uniques) - p)
    BY DEF FillAt
  <2> QED
    BY <1>4, <1>7, <2>1
<1>10. ASSUME NEW q \in 1 .. (it + 1) - 1 PROVE mf_struct'[q] = AnsEntry(data, s2[q])
  <2>1. (q \in 1 .. it - 1 /\ q \in 1 .. Len(mf_struct) /\ q # it) \/ q = it
    BY <1>1, <1>4
  <2>2. \A j \in 1 .. it - 1 : mf_struct[j] = AnsEntry(data, s[j])
    BY DEF FillAt, s
  <2> QED
    BY <1>7, <1>8, <2>1, <2>2 DEF e
<1>11. ASSUME NEW q \in 1 .. Len(uniques) - (p + 1)
       PROVE  mf_struct'[((it + 1) - 1) + q] = NewEntry(data[uniques[(p + 1) + q]])
  <2>1. q + 1 \in 1 .. Len(uniques) - p /\ (it - 1) + (q + 1) = ((it + 1) - 1) + q
        /\ p + (q + 1) = (p + 1) + q
    BY <1>4
  <2>2. mf_struct[(it - 1) + (q + 1)] = NewEntry(data[uniques[p + (q + 1)]])
    BY <2>1 DEF FillAt
  <2>3. ((it + 1) - 1) + q \in 1 .. Len(mf_struct) /\ ((it + 1) - 1) + q # it
    BY <1>4, <1>7, <1>9
  <2> QED
    BY <1>7, <2>1, <2>2, <2>3
<1>12. p + 1 \in 0 .. Len(uniques) /\ Len(s2) = (it + 1) - 1
  BY <1>1, <1>4, <1>8
<1> QED
  BY <1>9, <1>10, <1>11, <1>12 DEF FillAt, s2

\* erase(it); it--; it++: the next group is now at the iterator, none is skipped.
LEMMA FillEraseExact ==
  ASSUME Intended, IInv, ScanInv, FillErase, NEW p, FillAt(mf_struct, it, data, uniques, p)
  PROVE  FillAt(mf_struct', it, data, uniques, p + 1)
<1> DEFINE x == uniques[p + 1]
           s == Order(data)[Mark(uniques, p)]
           s2 == Order(data)[Mark(uniques, p + 1)]
<1>0. pc = "fill" /\ it <= Len(mf_struct) /\ mf_struct' = RemoveAt(mf_struct, it)
  BY DEF FillErase, EraseThenStep
<1>1. /\ p \in 0 .. Len(uniques) /\ p < Len(uniques) /\ p + 1 \in 1 .. Len(uniques)
      /\ Mark(uniques, p + 1) = x /\ it \in 1 .. Len(mf_struct)
      /\ vfind(0, mf_struct[it].cols) = (p + 1) - 1
  BY <1>0, EntryNext
<1>2. x \notin Kept(data)
  <2>1. Verdict((p + 1) - 1) = "erase"
    BY <1>1 DEF FillErase, EraseThenStep
  <2> QED
    BY <1>0, <1>1, <2>1, VerdictExact
<1>3. s2 = s
  BY <1>0, <1>1, <1>2, OrderStep
<1>4. mf_struct \in Seq(Entries) /\ Len(mf_struct) \in Nat /\ it \in Nat /\ Len(uniques) \in Nat /\ p \in Nat
  BY <1>1, ScanPlaces DEF IInv, TypeOK
<1>5. /\ Len(mf_struct') = Len(mf_struct) - 1
      /\ \A j \in 1 .. Len(mf_struct) - 1 :
           mf_struct'[j] = IF j < it THEN mf_struct[j] ELSE mf_struct[j + 1]
  BY <1>0, <1>1, <1>4, RemoveAtProperties
<1>6. Len(mf_struct) = (it - 1) + (Len(uniques) - p)
  BY DEF FillAt
<1> HIDE DEF x, s, s2
<1>7. Len(mf_struct') = (it - 1) + (Len(uniques) - (p + 1))
  BY <1>4, <1>5, <1>6
<1>8. ASSUME NEW q \in 1 .. it - 1 PROVE mf_struct'[q] = AnsEntry(data, s2[q])
  <2>1. q \in 1 .. Len(mf_struct) - 1 /\ q < it
    BY <1>1, <1>4
  <2>2. mf_struct[q] = AnsEntry(data, s[q])
    BY DEF FillAt, s
  <2> QED
    BY <1>3, <1>5, <2>1, <2>2
<1>9. ASSUME NEW q \in 1 .. Len(uniques) - (p + 1)
      PROVE  mf_struct'[(it - 1) + q] = NewEntry(data[uniques[(p + 1) + q]])
  <2>1. q + 1 \in 1 .. Len(uniques) - p /\ (it - 1) + (q + 1) = ((it - 1) + q) + 1
        /\ p + (q + 1) = (p + 1) + q
    BY <1>4
  <2>2. mf_struct[(it - 1) + (q + 1)] = NewEntry(data[uniques[p + (q + 1)]])
    BY <2>1 DEF FillAt
  <2>3. (it - 1) + q \in 1 .. Len(mf_struct) - 1 /\ ~((it - 1) + q < it)
    BY <1>1, <1>4, <1>6
  <2> QED
    BY <1>5, <2>1, <2>2, <2>3
<1>10. p + 1 \in 0 .. Len(uniques) /\ Len(s2) = it - 1
  BY <1>1, <1>3, <1>4 DEF FillAt, s
<1> QED
  BY <1>7, <1>8, <1>9, <1>10 DEF FillAt, s2

-----------------------------------------------------------------------------
(*****************************************************************************)
(* fill_mfstruct preserves FillInv, action by action.                        *)
(*****************************************************************************)
\* No entries and no output when main() starts.
LEMMA InitFillInv == Init => FillInv
BY DEF Init, FillInv

\* mf_struct stays empty until prelim_scan.
LEMMA FillInvBefore ==
  ASSUME IInv, FillInv,
         Retrieve \/ RetrieveFaults \/ RetrieveEnd \/ SQLException \/ Unique \/ UniqueEnd
  PROVE  FillInv'
<1>1. CASE Retrieve \/ RetrieveEnd \/ SQLException \/ RetrieveFaults \/ Unique
  BY <1>1 DEF Retrieve, RetrieveEnd, SQLException, RetrieveFaults, Unique, FillInv
<1>2. CASE UniqueEnd
  <2>1. pc = "uniques" /\ pc' = "prelim" /\ mf_struct' = mf_struct /\ output' = output
    BY <1>2 DEF UniqueEnd
  <2>2. DOMAIN mf_struct = {}
    BY <2>1 DEF IInv, BeforeScans
  <2> QED
    BY <2>1, <2>2 DEF FillInv
<1> QED
  BY <1>1, <1>2

\* prelim_scan appends the zeroed entry of the next group.
LEMMA FillInvPrelim ==
  ASSUME IInv, FillInv, Prelim
  PROVE  FillInv'
<1>1. pc = "prelim" /\ pc' = "prelim" /\ it <= Len(uniques) /\ UNCHANGED <<data, uniques, output>>
  BY DEF Prelim
<1>2. /\ \A p \in DOMAIN mf_struct : mf_struct[p] = NewEntry(data[uniques[p]])
      /\ output = <<>>
  BY <1>1 DEF FillInv
<1> DEFINE e == NewEntry(data[uniques[it]])
<1>3. mf_struct' = Append(mf_struct, e)
  BY DEF Prelim
<1>4. mf_struct \in Seq(Entries) /\ Len(mf_struct) = it - 1 /\ it \in Nat
  BY <1>1 DEF IInv, TypeOK, EntriesOfGroups
<1>5. ASSUME NEW p \in DOMAIN mf_struct' PROVE mf_struct'[p] = NewEntry(data[uniques[p]])
  <2> HIDE DEF e
  <2>1. Len(mf_struct) \in Nat /\ DOMAIN mf_struct = 1 .. Len(mf_struct)
    BY <1>4
  <2>2. DOMAIN Append(mf_struct, e) = 1 .. Len(mf_struct) + 1
    BY <1>4
  <2>3. \A j \in 1 .. Len(mf_struct) : Append(mf_struct, e)[j] = mf_struct[j]
    BY <1>4
  <2>4. Append(mf_struct, e)[Len(mf_struct) + 1] = e
    BY <1>4
  <2>5. p \in 1 .. Len(mf_struct) \/ p = Len(mf_struct) + 1
    BY <1>3, <2>1, <2>2
  <2>6. Len(mf_struct) + 1 = it
    BY <1>4
  <2> QED
    BY <1>2, <1>3, <2>1, <2>3, <2>4, <2>5, <2>6 DEF e
<1> QED
  BY <1>1, <1>2, <1>5 DEF FillInv

\* When the scans start there is one entry per group; they leave it alone.
LEMMA FillInvScan ==
  ASSUME IInv, FillInv,
         PrelimEnd \/ ScanRow \/ ScanRowsEnd \/ ScanPair \/ ScanGroupEnd \/ ScanPairsEnd
  PROVE  FillInv'
<1>1. CASE PrelimEnd
  <2>1. /\ pc = "prelim" /\ pc' = "scan" /\ it > Len(uniques)
        /\ UNCHANGED <<data, uniques, mf_struct, output>>
    BY <1>1 DEF PrelimEnd
  <2>2. it <= Len(uniques) + 1 /\ Len(mf_struct) = it - 1
    BY <2>1 DEF IInv, BeforeScans, EntriesOfGroups
  <2>3. Len(mf_struct) = Len(uniques)
    BY <2>1, <2>2, ScanPlaces
  <2> QED
    BY <2>1, <2>3 DEF FillInv
<1>2. CASE ScanRow \/ ScanRowsEnd \/ ScanPair \/ ScanGroupEnd \/ ScanPairsEnd
  <2>1. /\ pc = "scan" /\ pc' \in {"scan", "out_of_range"}
        /\ UNCHANGED <<data, uniques, mf_struct, output>>
    BY <1>2 DEF ScanRow, ScanRowsEnd, ScanPair, ScanGroupEnd, ScanPairsEnd
  <2> QED
    BY <2>1 DEF FillInv
<1> QED
  BY <1>1, <1>2

\* fill_mfstruct starts with no group passed.
LEMMA FillInvStart ==
  ASSUME IInv, ScanInv, FillInv, ScansEnd
  PROVE  FillInv'
<1>1. /\ pc = "scan" /\ gv \notin Vars /\ pc' = "fill"
      /\ UNCHANGED <<data, uniques, mf_struct, it, output>>
  BY DEF ScansEnd
<1>2. it = 1
  BY <1>1 DEF ScanInv
<1>3. /\ \A p \in DOMAIN mf_struct : mf_struct[p] = NewEntry(data[uniques[p]])
      /\ Len(mf_struct) = Len(uniques) /\ output = <<>>
  BY <1>1 DEF FillInv
<1>4. DOMAIN mf_struct = 1 .. Len(uniques)
  BY <1>3, ScanPlaces DEF IInv, TypeOK
<1>5. Mark(uniques, 0) = 0 /\ Order(data)[0] = <<>>
  <2>1. 0 \in 0 .. Len(data)
    BY ScanPlaces
  <2> QED
    BY <2>1, OrderOrdered DEF Mark, Ordered
<1>6. Len(Order(data)[0]) = 1 - 1
  BY <1>5
<1>7. Len(mf_struct) = (1 - 1) + (Len(uniques) - 0) /\ 0 \in 0 .. Len(uniques)
  BY <1>3, ScanPlaces
<1>8. ASSUME NEW q \in 1 .. Len(uniques) - 0
      PROVE  mf_struct[(1 - 1) + q] = NewEntry(data[uniques[0 + q]])
  <2>1. q \in 1 .. Len(uniques) /\ (1 - 1) + q = q /\ 0 + q = q
    BY ScanPlaces
  <2> QED
    BY <1>3, <1>4, <2>1
<1>9. \A q \in 1 .. 1 - 1 : FALSE
  OBVIOUS
<1>10. FillAt(mf_struct, 1, data, uniques, 0)
  BY <1>5, <1>6, <1>7, <1>8, <1>9 DEF FillAt
<1> QED
  BY <1>1, <1>2, <1>3, <1>7, <1>10 DEF FillInv

\* Each iteration passes one group.
LEMMA FillInvStep ==
  ASSUME Intended, IInv, ScanInv, FillInv, FillKeep \/ FillErase
  PROVE  FillInv'
<1>1. /\ pc = "fill" /\ pc' = "fill" /\ UNCHANGED <<data, uniques, output>>
      /\ it <= Len(mf_struct)
  BY DEF FillKeep, FillErase, EraseThenStep
<1>2. PICK p \in 0 .. Len(uniques) : FillAt(mf_struct, it, data, uniques, p)
  BY <1>1 DEF FillInv
<1>3. FillAt(mf_struct', it', data, uniques, p + 1)
  <2>1. CASE FillKeep
    <3>1. it' = it + 1
      BY <2>1 DEF FillKeep
    <3> QED
      BY <1>2, <2>1, <3>1, FillKeepExact
  <2>2. CASE FillErase
    <3>1. it' = it
      BY <2>2 DEF FillErase, EraseThenStep
    <3> QED
      BY <1>2, <2>2, <3>1, FillEraseExact
  <2> QED
    BY <2>1, <2>2
<1>4. p + 1 \in 0 .. Len(uniques)
  BY <1>3 DEF FillAt
<1>5. output = <<>>
  BY <1>1 DEF FillInv
<1> QED
  BY <1>1, <1>3, <1>4, <1>5 DEF FillInv

\* The loop ends when all groups are passed.
LEMMA FillInvEnd ==
  ASSUME IInv, FillInv, FillEnd \/ FillAborts
  PROVE  FillInv'
<1>1. /\ pc = "fill" /\ UNCHANGED <<data, uniques, mf_struct, it, output>>
      /\ (pc' = "print" /\ it > Len(mf_struct)) \/ pc' \in {"out_of_range", "sigfpe"}
  BY DEF FillEnd, FillAborts
<1>2. PICK p \in 0 .. Len(uniques) : FillAt(mf_struct, it, data, uniques, p)
  BY <1>1 DEF FillInv
<1>3. ASSUME it > Len(mf_struct) PROVE p = Len(uniques)
  <2>1. Len(mf_struct) = (it - 1) + (Len(uniques) - p)
    BY <1>2 DEF FillAt
  <2>2. it \in Nat /\ Len(uniques) \in Nat /\ p \in Nat /\ p <= Len(uniques)
    BY ScanPlaces
  <2> QED
    BY <1>3, <2>1, <2>2
<1>4. output = <<>>
  BY <1>1 DEF FillInv
<1> QED
  BY <1>1, <1>2, <1>3, <1>4 DEF FillInv

\* Once the iterator is at the end the vector is the answer.
LEMMA FilledIsAnswer ==
  ASSUME IInv, pc = "print", FillAt(mf_struct, it, data, uniques, Len(uniques))
  PROVE  mf_struct = Abs!Answer(data)
<1> DEFINE s == Order(data)[Mark(uniques, Len(uniques))]
<1>1. s = Order(data)[Len(data)]
  BY OrderEnd
<1>2. Abs!Answer(data) = [k \in DOMAIN s |-> AnsEntry(data, s[k])]
  BY <1>1, AnswerIs
<1>3. /\ Len(mf_struct) = (it - 1) + (Len(uniques) - Len(uniques)) /\ Len(s) = it - 1
      /\ \A q \in 1 .. it - 1 : mf_struct[q] = AnsEntry(data, s[q])
  BY DEF FillAt
<1>4. Len(mf_struct) = it - 1
  BY <1>3, ScanPlaces
<1>5. s \in Seq(Nat)
  <2>1. Len(data) \in 0 .. Len(data)
    BY ScanPlaces
  <2> QED
    BY <1>1, <2>1, OrderOrdered DEF Ordered
<1> HIDE DEF s
<1>6. DOMAIN s = 1 .. it - 1
  BY <1>3, <1>5
<1>7. mf_struct \in Seq(Entries)
  BY DEF IInv, TypeOK
<1>8. mf_struct = [k \in 1 .. it - 1 |-> mf_struct[k]]
  BY <1>4, <1>7
<1>9. mf_struct = [k \in 1 .. it - 1 |-> AnsEntry(data, s[k])]
  BY <1>3, <1>8
<1> QED
  BY <1>2, <1>6, <1>9

\* What is printed is the vector.
LEMMA FillInvPrint ==
  ASSUME IInv, FillInv, PrintResult
  PROVE  FillInv'
<1>1. pc = "print" /\ pc' = "done" /\ output' = mf_struct /\ data' = data
  BY DEF PrintResult
<1>2. mf_struct = Abs!Answer(data)
  BY <1>1, FilledIsAnswer DEF FillInv
<1>3. (pc = "done" => output = Abs!Answer(data))'
  <2>1. Abs!Answer(data)' = Abs!Answer(data)
    BY <1>1, AnswerIs
  <2> QED
    BY <1>1, <1>2
<1> QED
  BY <1>1, <1>3 DEF FillInv

\* Every step keeps FillInv.
LEMMA NextFillInv == Intended /\ IInv /\ ScanInv /\ FillInv /\ [Next]_vars => FillInv'
<1> SUFFICES ASSUME Intended, IInv, ScanInv, FillInv, [Next]_vars PROVE FillInv'
  OBVIOUS
<1>1. CASE UNCHANGED vars
  BY <1>1 DEF vars, FillInv
<1> QED
  BY <1>1, FillInvBefore, FillInvPrelim, FillInvScan, FillInvStart, FillInvStep, FillInvEnd, FillInvPrint
     DEF Next

\* FillInv holds in every state, with the two invariants before it.
LEMMA FillInvariance == Intended => (Spec => [](IInv /\ ScanInv /\ FillInv))
<1> SUFFICES ASSUME Intended PROVE Spec => [](IInv /\ ScanInv /\ FillInv)
  OBVIOUS
<1>1. Init => IInv /\ ScanInv /\ FillInv
  BY InitIInv, InitScanInv, InitFillInv
<1>2. IInv /\ ScanInv /\ FillInv /\ [Next]_vars => (IInv /\ ScanInv /\ FillInv)'
  BY NextIInv, NextScanInv, NextFillInv
<1> QED
  BY <1>1, <1>2, PTL DEF Spec

\* For every intended query, what print_mf_structure prints is the answer: the
\* groups G accepts, with their exact aggregates, in the order of first rows.
THEOREM AnswerPrinted == Intended => (Spec => []PrintedAnswer)
<1> SUFFICES ASSUME Intended PROVE Spec => []PrintedAnswer
  OBVIOUS
<1>1. FillInv => PrintedAnswer
  BY DEF FillInv, PrintedAnswer
<1>2. Spec => [](IInv /\ ScanInv /\ FillInv)
  BY FillInvariance
<1> QED
  BY <1>1, <1>2, PTL

-----------------------------------------------------------------------------
(*****************************************************************************)
(* The vector in the middle of fill_mfstruct.                                *)
(*****************************************************************************)
\* A sequence whose first c elements are those of a and whose others are r.
LEMMA JoinIs ==
  ASSUME NEW E, NEW ms \in Seq(E), NEW A, NEW a \in Seq(A), NEW c \in 0 .. Len(a),
         NEW l \in Nat, NEW R, NEW r \in [1 .. l -> R], Len(ms) = c + l,
         \A q \in 1 .. c : ms[q] = a[q],
         \A q \in 1 .. l : ms[c + q] = r[q]
  PROVE  ms = SubSeq(a, 1, c) \o r
<1> DEFINE b == SubSeq(a, 1, c)
<1>0. Len(a) \in Nat /\ c \in Nat
  OBVIOUS
<1>1. b = [q \in 1 .. c |-> a[q]]
  BY <1>0
<1>2. b \in Seq(A) /\ Len(b) = c /\ \A q \in 1 .. c : b[q] = a[q]
  <2>1. \A q \in 1 .. c : a[q] \in A
    BY <1>0
  <2> HIDE DEF b
  <2>2. b \in [1 .. c -> A]
    BY <1>1, <2>1
  <2> QED
    BY <1>0, <1>1, <2>2
<1> HIDE DEF b
<1>3. r \in Seq(R) /\ Len(r) = l
  OBVIOUS
<1> DEFINE U == A \cup R
<1>4. b \in Seq(U) /\ r \in Seq(U)
  <2>1. b \in [1 .. c -> A] /\ \A q \in 1 .. c : b[q] \in A
    BY <1>2
  <2>2. \A q \in 1 .. l : r[q] \in R
    OBVIOUS
  <2>3. b \in [1 .. c -> U] /\ r \in [1 .. l -> U]
    BY <2>1, <2>2
  <2> QED
    BY <1>0, <2>3
<1> HIDE DEF U
<1> DEFINE w == b \o r
<1>5. /\ w \in Seq(U) /\ Len(w) = Len(b) + Len(r)
      /\ \A q \in 1 .. Len(b) + Len(r) : w[q] = IF q <= Len(b) THEN b[q] ELSE r[q - Len(b)]
  BY <1>4, ConcatProperties, Zenon
<1> HIDE DEF w
<1>6. w \in Seq(U) /\ Len(w) = c + l
  BY <1>2, <1>3, <1>5
<1>7. \A q \in 1 .. c + l : w[q] = IF q <= c THEN b[q] ELSE r[q - c]
  BY <1>2, <1>3, <1>5
<1>8. ASSUME NEW q \in 1 .. c + l PROVE ms[q] = w[q]
  <2>1. CASE q <= c
    <3>1. q \in 1 .. c
      BY <1>0, <2>1
    <3> QED
      BY <1>2, <1>7, <2>1, <3>1
  <2>2. CASE ~(q <= c)
    <3>1. q - c \in 1 .. l /\ c + (q - c) = q
      BY <1>0, <2>2
    <3>2. ms[c + (q - c)] = r[q - c]
      BY <3>1
    <3> QED
      BY <1>7, <2>2, <3>1, <3>2
  <2> QED
    BY <2>1, <2>2
<1>9. ms = [q \in 1 .. c + l |-> ms[q]] /\ w = [q \in 1 .. c + l |-> w[q]]
  BY <1>6
<1>10. ms = w
  BY <1>8, <1>9
<1> QED
  BY <1>10 DEF w, b

\* With p groups passed the vector is the answer for them and then the others.
LEMMA FillAtExact ==
  ASSUME IInv, pc \in {"fill", "print"}, NEW p, FillAt(mf_struct, it, data, uniques, p)
  PROVE  LET ans  == Abs!Answer(data)
             left == Len(mf_struct) - (it - 1)
             rest == [j \in 1 .. left |-> NewEntry(data[uniques[Len(uniques) - left + j]])]
         IN  /\ left \in 0 .. Len(uniques)
             /\ mf_struct = SubSeq(ans, 1, it - 1) \o rest
             /\ \A j \in it .. Len(ans) : \E k \in 1 .. left : rest[k].cols = ans[j].cols
<1> DEFINE ans  == Abs!Answer(data)
           left == Len(mf_struct) - (it - 1)
           rest == [j \in 1 .. left |-> NewEntry(data[uniques[Len(uniques) - left + j]])]
           s == Order(data)[Len(data)]
           m == Mark(uniques, p)
           b == Order(data)[m]
<1>0. Len(uniques) \in Nat /\ Len(data) \in Nat /\ it \in Nat /\ 1 <= it
  BY ScanPlaces
<1>1. /\ p \in 0 .. Len(uniques) /\ Len(mf_struct) = (it - 1) + (Len(uniques) - p) /\ Len(b) = it - 1
      /\ \A q \in 1 .. it - 1 : mf_struct[q] = AnsEntry(data, b[q])
      /\ \A q \in 1 .. Len(uniques) - p : mf_struct[(it - 1) + q] = NewEntry(data[uniques[p + q]])
  BY DEF FillAt
<1>2. left = Len(uniques) - p /\ left \in Nat /\ Len(uniques) - left = p
  BY <1>0, <1>1
<1>3. m \in 0 .. Len(data) /\ Len(data) \in m .. Len(data) /\ Len(data) \in 0 .. Len(data)
  <2>1. m \in 0 .. Len(data)
    BY <1>1, MarkPlaces
  <2> HIDE DEF m
  <2> QED
    BY <1>0, <2>1
<1>4. Extends(s, b, Kept(data), m, Len(data))
  BY <1>0, <1>3, OrderOrdered, OrderedGrows
<1>5. s \in Seq(Nat) /\ b \in Seq(Nat)
  BY <1>3, OrderOrdered DEF Ordered
<1>6. ans = [k \in DOMAIN s |-> AnsEntry(data, s[k])]
  BY AnswerIs
<1> HIDE DEF ans, s, b, m
<1>7. DOMAIN s = 1 .. Len(s) /\ Len(s) \in Nat
  BY <1>5
<1>8. ans \in Seq({AnsEntry(data, s[k]) : k \in 1 .. Len(s)}) /\ Len(ans) = Len(s)
  <2>1. ans \in [1 .. Len(s) -> {AnsEntry(data, s[k]) : k \in 1 .. Len(s)}]
    BY <1>6, <1>7
  <2> QED
    BY <1>7, <2>1
<1>9. it - 1 \in 0 .. Len(ans)
  BY <1>0, <1>1, <1>4, <1>7, <1>8 DEF Extends
<1>10. ASSUME NEW q \in 1 .. it - 1 PROVE mf_struct[q] = ans[q]
  <2>1. q \in 1 .. Len(s)
    BY <1>0, <1>7, <1>8, <1>9
  <2>2. s[q] = b[q]
    BY <1>1, <1>4 DEF Extends
  <2> QED
    BY <1>1, <1>6, <1>7, <2>1, <2>2
<1>11. rest = [j \in 1 .. left |-> NewEntry(data[uniques[p + j]])]
  BY <1>2
<1> HIDE DEF left, rest
<1>12. ASSUME NEW q \in 1 .. left PROVE mf_struct[(it - 1) + q] = rest[q]
  <2>1. q \in 1 .. Len(uniques) - p
    BY <1>2
  <2> QED
    BY <1>1, <1>11, <2>1
<1>13. mf_struct = SubSeq(ans, 1, it - 1) \o rest
  <2> DEFINE A == {AnsEntry(data, s[k]) : k \in 1 .. Len(s)}
             R == {NewEntry(data[uniques[p + j]]) : j \in 1 .. left}
  <2>1. rest \in [1 .. left -> R]
    BY <1>11
  <2>2. ans \in Seq(A)
    BY <1>8
  <2>3. mf_struct \in Seq(Entries)
    BY DEF IInv, TypeOK
  <2> DEFINE c == it - 1
  <2>4. c \in 0 .. Len(ans) /\ left \in Nat /\ Len(mf_struct) = c + left
    BY <1>1, <1>2, <1>9
  <2>5. \A q \in 1 .. c : mf_struct[q] = ans[q]
    BY <1>10
  <2>6. \A q \in 1 .. left : mf_struct[c + q] = rest[q]
    BY <1>12
  <2> HIDE DEF A, R, c
  <2>7. mf_struct = SubSeq(ans, 1, c) \o rest
    BY <2>1, <2>2, <2>3, <2>4, <2>5, <2>6, JoinIs, Zenon
  <2> QED
    BY <2>7 DEF c
<1>14. ASSUME NEW j \in it .. Len(ans)
       PROVE  \E k \in 1 .. left : rest[k].cols = ans[j].cols
  <2>1. j \in Len(b) + 1 .. Len(s) /\ j \in 1 .. Len(s)
    BY <1>0, <1>1, <1>7, <1>8
  <2>2. s[j] \in Kept(data) /\ s[j] \in m + 1 .. Len(data)
    BY <1>4, <2>1 DEF Extends
  <2>3. PICK k \in 1 .. Len(uniques) : uniques[k] = s[j]
    BY <2>2, UniquesPlaces
  <2>4. k <= p => uniques[k] <= m
    BY <1>1, MarkPlaces DEF m
  <2>5. k \in Nat /\ p \in Nat /\ m \in Nat /\ s[j] \in Nat /\ m < s[j]
    BY <1>0, <1>1, <1>3, <2>2
  <2>6. p < k
    BY <2>3, <2>4, <2>5
  <2>7. k - p \in 1 .. left /\ p + (k - p) = k
    BY <1>0, <1>2, <2>5, <2>6
  <2>8. rest[k - p] = NewEntry(data[s[j]])
    BY <1>11, <2>3, <2>7
  <2>9. ans[j] = AnsEntry(data, s[j])
    BY <1>6, <1>7, <2>1
  <2>10. rest[k - p].cols = ans[j].cols
    BY <2>8, <2>9 DEF NewEntry, AnsEntry
  <2> QED
    BY <2>7, <2>10
<1>15. left \in 0 .. Len(uniques)
  BY <1>0, <1>1, <1>2
<1> QED
  BY <1>13, <1>14, <1>15 DEF ans, left, rest

\* FillInv gives FillExact.
LEMMA FillInvExact == IInv /\ FillInv => FillExact
<1> SUFFICES ASSUME IInv, FillInv, pc \in {"fill", "print"} PROVE FillExact
  BY DEF FillExact
<1>1. \E p : FillAt(mf_struct, it, data, uniques, p)
  BY DEF FillInv
<1> QED
  BY <1>1, FillAtExact DEF FillExact

\* For every intended query, while fill_mfstruct erases from the vector it walks
\* no group is skipped and none is visited twice (scan_generator.cpp:191-207).
THEOREM FillIsExact == Intended => (Spec => []FillExact)
<1> SUFFICES ASSUME Intended PROVE Spec => []FillExact
  OBVIOUS
<1>1. IInv /\ FillInv => FillExact
  BY FillInvExact
<1>2. Spec => [](IInv /\ ScanInv /\ FillInv)
  BY FillInvariance
<1> QED
  BY <1>1, <1>2, PTL

-----------------------------------------------------------------------------
(*****************************************************************************)
(* The generated program implements the one-step query.                      *)
(*****************************************************************************)
\* data is what has been read of the table, and all of it once reading is over.
LoadInv ==
  /\ pc = "retrieve" => Len(data) <= Len(table) /\ \A j \in 1 .. Len(data) : data[j] = Load(table[j])
  /\ pc \in Running \ {"retrieve"} => data = Abs!Loaded(table)

\* MFQuery loads a row and tests for empty texts as data_retrieval does.
LEMMA AbsLoad ==
  ASSUME NEW r PROVE Abs!Load(r) = Load(r) /\ Abs!EmptyText(r) = EmptyText(r)
BY DEF Abs!Load, Load, Abs!EmptyText, EmptyText

\* The loaded table, row by row.
LEMMA LoadedIs == ASSUME NEW t PROVE Abs!Loaded(t) = [j \in DOMAIN t |-> Load(t[j])]
BY AbsLoad DEF Abs!Loaded

\* data_retrieval appends the rows in order; nothing else changes data.
LEMMA NextLoadInv == IInv /\ LoadInv /\ [Next]_vars => LoadInv'
<1> SUFFICES ASSUME IInv, LoadInv, [Next]_vars PROVE LoadInv'
  OBVIOUS
<1>0. table \in Seq(Rows) /\ data \in Seq(LoadedRows)
  BY DEF IInv, TypeOK
<1>1. CASE Retrieve
  <2> DEFINE e == Load(table[Len(data) + 1])
  <2>1. /\ pc = "retrieve" /\ pc' = "retrieve" /\ Len(data) < Len(table) /\ table' = table
        /\ data' = Append(data, e)
    BY <1>1 DEF Retrieve
  <2>2. \A j \in 1 .. Len(data) : data[j] = Load(table[j])
    BY <2>1 DEF LoadInv
  <2>3. Len(data) \in Nat /\ Len(table) \in Nat
    BY <1>0
  <2> HIDE DEF e
  <2>4. /\ Len(data') = Len(data) + 1 /\ data'[Len(data) + 1] = e
        /\ \A j \in 1 .. Len(data) : data'[j] = data[j]
    BY <1>0, <2>1
  <2>5. ASSUME NEW j \in 1 .. Len(data') PROVE data'[j] = Load(table[j])
    <3>1. j \in 1 .. Len(data) \/ j = Len(data) + 1
      BY <2>3, <2>4
    <3> QED
      BY <2>2, <2>4, <3>1 DEF e
  <2>6. Len(data') <= Len(table)
    BY <2>1, <2>3, <2>4
  <2> QED
    BY <2>1, <2>5, <2>6 DEF LoadInv, Running
<1>2. CASE RetrieveEnd
  <2>1. /\ pc = "retrieve" /\ pc' = "uniques" /\ Len(data) = Len(table) /\ table' = table /\ data' = data
    BY <1>2 DEF RetrieveEnd
  <2>2. \A j \in 1 .. Len(data) : data[j] = Load(table[j])
    BY <2>1 DEF LoadInv
  <2>3. data = [j \in 1 .. Len(data) |-> data[j]]
    BY <1>0
  <2>4. DOMAIN table = 1 .. Len(data)
    BY <1>0, <2>1
  <2>5. data = [j \in DOMAIN table |-> Load(table[j])]
    BY <2>2, <2>3, <2>4
  <2>6. Abs!Loaded(table)' = [j \in DOMAIN table' |-> Load(table'[j])]
    BY LoadedIs
  <2> QED
    BY <2>1, <2>5, <2>6 DEF LoadInv, Running
<1>3. CASE RetrieveFaults \/ SQLException
  BY <1>3 DEF RetrieveFaults, SQLException, LoadInv, Running
<1>4. ASSUME UNCHANGED <<table, data>>,
             pc' = pc \/ (pc \in Running \ {"retrieve"} /\ pc' # "retrieve")
      PROVE  LoadInv'
  <2>1. Abs!Loaded(table)' = Abs!Loaded(table)
    BY <1>4, LoadedIs
  <2> QED
    BY <1>4, <2>1 DEF LoadInv, Running
<1>5. CASE UNCHANGED vars
  BY <1>4, <1>5 DEF vars
<1>6. CASE Unique \/ UniqueEnd \/ Prelim \/ PrelimEnd
  BY <1>4, <1>6 DEF Unique, UniqueEnd, Prelim, PrelimEnd, Running
<1>7. CASE ScanRow \/ ScanRowsEnd \/ ScanPair \/ ScanGroupEnd \/ ScanPairsEnd \/ ScansEnd
  BY <1>4, <1>7 DEF ScanRow, ScanRowsEnd, ScanPair, ScanGroupEnd, ScanPairsEnd, ScansEnd, Running
<1>8. CASE FillKeep \/ FillErase \/ FillAborts \/ FillEnd \/ PrintResult
  BY <1>4, <1>8 DEF FillKeep, FillErase, EraseThenStep, FillAborts, FillEnd, PrintResult, Running
<1> QED
  BY <1>1, <1>2, <1>3, <1>5, <1>6, <1>7, <1>8 DEF Next

\* Nothing is read when main() starts.
LEMMA InitLoadInv == Init => LoadInv
<1> SUFFICES ASSUME Init PROVE LoadInv
  OBVIOUS
<1>1. pc = "retrieve" /\ data = <<>> /\ table \in Seq(Rows)
  BY TablesAssumption DEF Init
<1>2. Len(data) = 0 /\ Len(table) \in Nat
  BY <1>1
<1> QED
  BY <1>1, <1>2 DEF LoadInv

\* A step that keeps running and prints nothing changes nothing in MFQuery.
LEMMA AbsStutter ==
  ASSUME UNCHANGED <<table, output>>, pc \in Running, pc' \in Running
  PROVE  UNCHANGED Abs!absvars
BY DEF Abs!absvars

\* All loops but the last steps of main() are invisible to the query.
LEMMA StepsStutter ==
  ASSUME IInv', \/ Retrieve \/ RetrieveEnd \/ Unique \/ UniqueEnd \/ Prelim \/ PrelimEnd
         \/ ScanRow \/ ScanRowsEnd \/ ScanPair \/ ScanGroupEnd \/ ScanPairsEnd \/ ScansEnd
         \/ FillKeep \/ FillErase \/ FillEnd
  PROVE  UNCHANGED Abs!absvars
<1>0. pc' # "out_of_range"
  BY DEF IInv, NeverOutOfRange
<1>1. CASE Retrieve \/ RetrieveEnd \/ Unique \/ UniqueEnd \/ Prelim \/ PrelimEnd
  BY <1>1, AbsStutter DEF Retrieve, RetrieveEnd, Unique, UniqueEnd, Prelim, PrelimEnd, Running
<1>2. CASE ScanRow \/ ScanRowsEnd \/ ScanPair \/ ScanGroupEnd \/ ScanPairsEnd \/ ScansEnd
  BY <1>0, <1>2, AbsStutter DEF ScanRow, ScanRowsEnd, ScanPair, ScanGroupEnd, ScanPairsEnd, ScansEnd, Running
<1>3. CASE FillKeep \/ FillErase \/ FillEnd
  BY <1>3, AbsStutter DEF FillKeep, FillErase, EraseThenStep, FillEnd, Running
<1> QED
  BY <1>1, <1>2, <1>3

\* print_mf_structure is the step that prints the answer.
LEMMA StepPrints ==
  ASSUME IInv, FillInv, LoadInv, PrintResult
  PROVE  Abs!PrintAnswer
<1>1. pc = "print" /\ pc' = "done" /\ output' = mf_struct /\ table' = table
  BY DEF PrintResult
<1>2. mf_struct = Abs!Answer(data)
  BY <1>1, FilledIsAnswer DEF FillInv
<1>3. data = Abs!Loaded(table)
  BY <1>1 DEF LoadInv, Running
<1>4. output' = Abs!Answer(Abs!Loaded(table))
  BY <1>1, <1>2, <1>3
<1> QED
  BY <1>1, <1>4 DEF Abs!PrintAnswer, Running

\* fill_mfstruct aborts only on a division by zero that G really makes.
LEMMA StepAborts ==
  ASSUME Intended, IInv, ScanInv, FillInv, LoadInv, FillAborts
  PROVE  Abs!DivisionFaults
<1>1. /\ pc = "fill" /\ it <= Len(mf_struct) /\ UNCHANGED <<table, output>>
      /\ pc' = Verdict(vfind(0, mf_struct[it].cols)) /\ pc' \in {"out_of_range", "sigfpe"}
  BY DEF FillAborts
<1>2. PICK p \in 0 .. Len(uniques) : FillAt(mf_struct, it, data, uniques, p)
  BY <1>1 DEF FillInv
<1>3. p + 1 \in 1 .. Len(uniques) /\ vfind(0, mf_struct[it].cols) = (p + 1) - 1
  BY <1>1, <1>2, EntryNext
<1>4. /\ Verdict((p + 1) - 1) = "sigfpe"
      /\ HavingFaults(Abs!ValuesOf(Abs!Meaning(data), uniques[p + 1]))
  BY <1>1, <1>3, VerdictExact
<1>5. uniques[p + 1] \in Abs!Firsts(data)
  BY <1>1, <1>3, FirstsAreUniques
<1>6. data = Abs!Loaded(table)
  BY <1>1 DEF LoadInv, Running
<1>7. \E g \in Abs!Firsts(data) : Abs!HavingFaults(Abs!ValuesOf(Abs!Meaning(data), g))
  BY <1>4, <1>5, AbsHaving
<1>8. \E g \in Abs!Firsts(Abs!Loaded(table)) :
        Abs!HavingFaults(Abs!ValuesOf(Abs!Meaning(Abs!Loaded(table)), g))
  BY <1>6, <1>7
<1>9. pc' = "sigfpe"
  BY <1>1, <1>3, <1>4
<1> QED
  BY <1>1, <1>8, <1>9 DEF Abs!DivisionFaults, Running

\* data_retrieval fails only on an empty text or a database error.
LEMMA StepFails ==
  ASSUME IInv, RetrieveFaults \/ SQLException
  PROVE  Abs!EmptyTextFaults \/ Abs!SQLFails
<1>1. CASE RetrieveFaults
  <2>1. /\ pc = "retrieve" /\ pc' = "sigsegv" /\ UNCHANGED <<table, output>>
        /\ Len(data) < Len(table) /\ EmptyText(table[Len(data) + 1])
    BY <1>1 DEF RetrieveFaults
  <2>2. Len(data) + 1 \in DOMAIN table
    <3>1. table \in Seq(Rows) /\ Len(data) \in Nat
      BY ScanPlaces DEF IInv, TypeOK
    <3> QED
      BY <2>1, <3>1
  <2>3. \E j \in DOMAIN table : Abs!EmptyText(table[j])
    BY <2>1, <2>2, AbsLoad
  <2> QED
    BY <2>1, <2>3 DEF Abs!EmptyTextFaults, Running
<1>2. CASE SQLException
  BY <1>2 DEF SQLException, Abs!SQLFails, Running
<1> QED
  BY <1>1, <1>2

\* Every step of the generated program is a step of the query or changes
\* nothing in it.
LEMMA StepRefines ==
  ASSUME Intended, IInv, IInv', ScanInv, FillInv, LoadInv, [Next]_vars
  PROVE  [Abs!AbsNext]_Abs!absvars
<1>1. CASE UNCHANGED vars
  BY <1>1 DEF vars, Abs!absvars
<1>2. CASE Next
  BY <1>2, StepsStutter, StepPrints, StepAborts, StepFails DEF Next, Abs!AbsNext
<1> QED
  BY <1>1, <1>2

\* main() starts where the query starts.
LEMMA InitRefines == Init => Abs!AbsInit
BY DEF Init, Abs!AbsInit, Running

\* For every intended query the generated program implements MFQuery: it prints
\* the answer over the whole table, or stops on a database error, an empty text
\* or a division G really makes, and on nothing else.
THEOREM QueryRefined == Intended => (Spec => RefinesQuery)
<1> SUFFICES ASSUME Intended PROVE Spec => RefinesQuery
  OBVIOUS
<1>1. Spec => [](IInv /\ ScanInv /\ FillInv)
  BY FillInvariance
<1>2. Init => LoadInv
  BY InitLoadInv
<1>3. IInv /\ LoadInv /\ [Next]_vars => LoadInv'
  BY NextLoadInv
<1>4. Init => Abs!AbsInit
  BY InitRefines
<1>5. IInv /\ IInv' /\ ScanInv /\ FillInv /\ LoadInv /\ [Next]_vars => [Abs!AbsNext]_Abs!absvars
  BY StepRefines
<1> QED
  BY <1>1, <1>2, <1>3, <1>4, <1>5, PTL DEF Spec, RefinesQuery, Abs!AbsSpec
=============================================================================
