------------------------------- MODULE MFScan -------------------------------
(***************************************************************************)
(* The program `final` writes to result.cpp, one action per loop iteration *)
(* of its main(): load the rows, find the distinct groups, build the       *)
(* mf_structure and the vectors data0..dataN, run one aggregate scan per   *)
(* grouping variable (MF or EMF form), apply HAVING and print.             *)
(*                                                                         *)
(* Iterators are positions counted from 1; `pos`, the result of vfindN, is *)
(* counted from 0 with -1 for "not found", as in the code.  uniques holds  *)
(* pointers into data, so positions here.                                  *)
(***************************************************************************)
EXTENDS PhiQuery

CONSTANTS Tables      \* the result sequences the SELECT may return

ASSUME TablesAssumption == Tables \subseteq Seq(Rows)

VARIABLES
  pc,                 \* the loop main() is in, or how it ended
  table,              \* what the database returns, in its order
  data,               \* vector<struct sales*>
  uniques,            \* first row of each group
  mf_struct,          \* vector<struct mf_structure*>
  dataN,              \* data0 .. dataN, one vector per grouping variable
  gv,                 \* the grouping variable being scanned
  it, xt,             \* the loop iterators
  output              \* what print_mf_structure printed

vars == <<pc, table, data, uniques, mf_struct, dataN, gv, it, xt, output>>

Running == {"retrieve", "uniques", "prelim", "scan", "fill", "print"}
Ended   == {"done", "sql_error", "sigsegv", "out_of_range", "sigfpe"}

Init ==
  /\ pc = "retrieve"
  /\ table \in Tables
  /\ data = <<>> /\ uniques = <<>> /\ mf_struct = <<>>
  /\ dataN = [i \in Vars |-> <<>>]
  /\ gv = 0 /\ it = 1 /\ xt = 1
  /\ output = <<>>

-----------------------------------------------------------------------------
(***************************************************************************)
(* data_retrieval: while(res->next()) data->push_back(entry).              *)
(***************************************************************************)
Retrieve ==
  /\ pc = "retrieve"
  /\ Len(data) < Len(table)
  /\ ~EmptyText(table[Len(data) + 1])
  /\ data' = Append(data, Load(table[Len(data) + 1]))
  /\ UNCHANGED <<pc, table, uniques, mf_struct, dataN, gv, it, xt, output>>

RetrieveFaults ==
  /\ pc = "retrieve"
  /\ Len(data) < Len(table)
  /\ EmptyText(table[Len(data) + 1])
  /\ pc' = "sigsegv"
  /\ UNCHANGED <<table, data, uniques, mf_struct, dataN, gv, it, xt, output>>

RetrieveEnd ==
  /\ pc = "retrieve"
  /\ Len(data) = Len(table)
  /\ pc' = "uniques"
  /\ UNCHANGED <<table, data, uniques, mf_struct, dataN, gv, it, xt, output>>

\* connect, setSchema, executeQuery, next or getXxx throws; nothing catches.
SQLException ==
  /\ pc = "retrieve"
  /\ pc' = "sql_error"
  /\ UNCHANGED <<table, data, uniques, mf_struct, dataN, gv, it, xt, output>>

-----------------------------------------------------------------------------
(***************************************************************************)
(* get_uniques and is_unique.                                              *)
(***************************************************************************)
OnlyLast_Mutant(row) ==
  uniques # <<>> => ~SameGroup(row, data[uniques[Len(uniques)]])

is_unique(row) == \A k \in DOMAIN uniques : ~SameGroup(row, data[uniques[k]])

Unique ==
  /\ pc = "uniques"
  /\ it <= Len(data)
  /\ uniques' = IF is_unique(data[it]) THEN Append(uniques, it) ELSE uniques
  /\ it' = it + 1
  /\ UNCHANGED <<pc, table, data, mf_struct, dataN, gv, xt, output>>

UniqueEnd ==
  /\ pc = "uniques"
  /\ it > Len(data)
  /\ pc' = "prelim" /\ it' = 1
  /\ UNCHANGED <<table, data, uniques, mf_struct, dataN, gv, xt, output>>

-----------------------------------------------------------------------------
(***************************************************************************)
(* prelim_scan: one zeroed entry per group in mf_struct and in each dataN. *)
(***************************************************************************)
NewGroup(i, row) == [cols |-> SelectCols(row), fields |-> ZeroFields(i)]

NewEntry(row) ==
  [cols |-> SelectCols(row), aggs |-> [a \in select_aggregates |-> 0]]

Prelim ==
  /\ pc = "prelim"
  /\ it <= Len(uniques)
  /\ mf_struct' = Append(mf_struct, NewEntry(data[uniques[it]]))
  /\ dataN' = [i \in Vars |-> Append(dataN[i], NewGroup(i, data[uniques[it]]))]
  /\ it' = it + 1
  /\ UNCHANGED <<pc, table, data, uniques, gv, xt, output>>

PrelimEnd ==
  /\ pc = "prelim"
  /\ it > Len(uniques)
  /\ pc' = "scan" /\ it' = 1
  /\ UNCHANGED <<table, data, uniques, mf_struct, dataN, gv, xt, output>>

-----------------------------------------------------------------------------
(***************************************************************************)
(* vfindN: the position of the group with row's grouping attributes.       *)
(***************************************************************************)
LastNotSearched_Mutant(i, row) ==
  LET hits == {p \in 1 .. Len(dataN[i]) - 1 : SameGroup(row, dataN[i][p].cols)}
  IN  IF hits = {} THEN -1 ELSE Min(hits) - 1

vfind(i, row) ==
  LET hits == {p \in DOMAIN dataN[i] : SameGroup(row, dataN[i][p].cols)}
  IN  IF hits = {} THEN -1 ELSE Min(hits) - 1

\* dataN->at(pos)->field, with value() for an average.
ValueAt(a, pos) == FieldValue(a, dataN[a.group][pos + 1].fields)

(***************************************************************************)
(* Condition::toCpp(var, var2): the C++ expression for one condition, with *)
(* the row at `it` on the column side, at `xt` on the value side, always.    *)
(* The aggregate form tests vfind > 0; the string form is compare() == 0   *)
(* whatever the operator.                                                  *)
(***************************************************************************)
CondHolds(c, rit, rxt) ==
  CASE c.kind = "column"    -> Compare(c.exp, rit[c.column], rxt[c.value])
    [] c.kind = "aggregate" -> /\ vfind(c.value.group, rit) > 0
                               /\ Compare(c.exp, rit[c.column],
                                          ValueAt(c.value, vfind(c.value.group, rit)))
    [] c.kind = "expr"      -> Compare(c.exp, rit[c.column],
                                       rxt[c.value.column] + c.value.offset)
    [] c.kind = "string"    -> rit[c.column] = c.value
    [] c.kind = "const"     -> Compare(c.exp, rit[c.column], c.value)

FirstConditionOnly_Mutant(i, rit, rxt) ==
  i # 0 => CondHolds(select_conditions[i].conditions[1], rit, rxt)

\* get_selection_cond: "true" for variable 0, else the such-that clause.
Selected(i, rit, rxt) ==
  i # 0 => LET cs == select_conditions[i].conditions
           IN  Connect([k \in DOMAIN cs |-> CondHolds(cs[k], rit, rxt)],
                       select_conditions[i].ops)

\* Every aggregate of variable i takes the row at position pos.
Accumulate(i, pos, row) ==
  [dataN EXCEPT ![i][pos + 1].fields =
     [cells  |-> [a \in AggsOf(i) |-> UpdateCell(a, @.cells[a], row)],
      counts |-> [a \in AvgsOf(i) |-> @.counts[a] + 1]]]

(***************************************************************************)
(* aggregate_scan: one pass over data per grouping variable.  at(pos) with *)
(* pos = -1 throws, when there is an aggregate to update.                  *)
(***************************************************************************)
ScanRow ==
  /\ pc = "scan" /\ ~emf /\ gv \in Vars
  /\ it <= Len(data)
  /\ LET pos  == vfind(gv, data[it])
         take == Selected(gv, data[it], data[it]) /\ AggsOf(gv) # {}
     IN  /\ dataN' = IF take /\ pos # -1 THEN Accumulate(gv, pos, data[it]) ELSE dataN
         /\ pc' = IF take /\ pos = -1 THEN "out_of_range" ELSE pc
  /\ it' = it + 1
  /\ UNCHANGED <<table, data, uniques, mf_struct, gv, xt, output>>

ScanRowsEnd ==
  /\ pc = "scan" /\ ~emf /\ gv \in Vars
  /\ it > Len(data)
  /\ gv' = gv + 1 /\ it' = 1
  /\ UNCHANGED <<pc, table, data, uniques, mf_struct, dataN, xt, output>>

(***************************************************************************)
(* emf_aggregate_scan: every pair of a group (it) and a row (xt).          *)
(***************************************************************************)
AddsGroupRow_Mutant ==
  /\ pc = "scan" /\ emf /\ gv \in Vars
  /\ it <= Len(uniques) /\ xt <= Len(data)
  /\ dataN' = IF Selected(gv, data[uniques[it]], data[xt])
              THEN Accumulate(gv, it - 1, data[uniques[it]])
              ELSE dataN
  /\ xt' = xt + 1
  /\ UNCHANGED <<pc, table, data, uniques, mf_struct, gv, it, output>>

ScanPair ==
  /\ pc = "scan" /\ emf /\ gv \in Vars
  /\ it <= Len(uniques) /\ xt <= Len(data)
  /\ dataN' = IF Selected(gv, data[uniques[it]], data[xt])
              THEN Accumulate(gv, it - 1, data[xt])
              ELSE dataN
  /\ xt' = xt + 1
  /\ UNCHANGED <<pc, table, data, uniques, mf_struct, gv, it, output>>

RowsNotRewound_Mutant ==
  /\ pc = "scan" /\ emf /\ gv \in Vars
  /\ it <= Len(uniques) /\ xt > Len(data)
  /\ it' = it + 1
  /\ UNCHANGED <<pc, table, data, uniques, mf_struct, dataN, gv, xt, output>>

SameGroupAgain_Mutant ==
  /\ pc = "scan" /\ emf /\ gv \in Vars
  /\ it <= Len(uniques) /\ xt > Len(data)
  /\ xt' = 1
  /\ UNCHANGED <<pc, table, data, uniques, mf_struct, dataN, gv, it, output>>

ScanGroupEnd ==
  /\ pc = "scan" /\ emf /\ gv \in Vars
  /\ it <= Len(uniques) /\ xt > Len(data)
  /\ it' = it + 1 /\ xt' = 1
  /\ UNCHANGED <<pc, table, data, uniques, mf_struct, dataN, gv, output>>

ScanPairsEnd ==
  /\ pc = "scan" /\ emf /\ gv \in Vars
  /\ it > Len(uniques)
  /\ gv' = gv + 1 /\ it' = 1
  /\ UNCHANGED <<pc, table, data, uniques, mf_struct, dataN, xt, output>>

ScansEnd ==
  /\ pc = "scan"
  /\ gv \notin Vars
  /\ pc' = "fill"
  /\ UNCHANGED <<table, data, uniques, mf_struct, dataN, gv, it, xt, output>>

-----------------------------------------------------------------------------
(***************************************************************************)
(* parse_having copies the tokens of G through, so a single `=` is a C++   *)
(* assignment to the left-hand field, whose value is then the condition.   *)
(***************************************************************************)
Assigns == \E j \in DOMAIN having : \E k \in DOMAIN having[j] : having[j][k].exp = "="

Values(pos) == [a \in all_aggregates |-> ValueAt(a, pos)]

HavingHolds(pos) ==
  IF Assigns THEN Rhs(having[1][1], Values(pos)) # 0 ELSE HavingTrue(Values(pos))

AfterHaving(pos) ==
  IF Assigns
  THEN LET a == having[1][1].lhs.agg
       IN  [dataN EXCEPT ![a.group][pos + 1].fields.cells[a] = Rhs(having[1][1], Values(pos))]
  ELSE dataN

\* The entry with its aggregates copied from the groups at pos.
Filled(entry, pos, groups) ==
  [entry EXCEPT !.aggs =
     [a \in select_aggregates |-> FieldValue(a, groups[a.group][pos + 1].fields)]]

(***************************************************************************)
(* fill_mfstruct.  HAVING is evaluated, at(pos) and all, before the test   *)
(* for pos == -1.                                                          *)
(***************************************************************************)
Verdict(pos) ==
  IF pos = -1 THEN IF having = <<>> THEN "erase" ELSE "out_of_range"
  ELSE IF HavingFaults(Values(pos)) THEN "sigfpe"
  ELSE IF HavingHolds(pos) THEN "keep" ELSE "erase"

FillKeep ==
  /\ pc = "fill"
  /\ it <= Len(mf_struct)
  /\ LET pos == vfind(0, mf_struct[it].cols)
     IN  /\ Verdict(pos) = "keep"
         /\ dataN' = AfterHaving(pos)
         /\ mf_struct' = [mf_struct EXCEPT ![it] = Filled(@, pos, AfterHaving(pos))]
  /\ it' = it + 1
  /\ UNCHANGED <<pc, table, data, uniques, gv, xt, output>>

EraseThenStep(next) ==
  /\ pc = "fill"
  /\ it <= Len(mf_struct)
  /\ LET pos == vfind(0, mf_struct[it].cols)
     IN  /\ Verdict(pos) = "erase"
         /\ dataN' = IF pos = -1 THEN dataN ELSE AfterHaving(pos)
  /\ it' = next
  /\ UNCHANGED <<pc, table, data, uniques, gv, xt, output>>

NoStepBack_Mutant == EraseThenStep(it + 1) /\ mf_struct' = RemoveAt(mf_struct, it)
StepsBackTwice_Mutant == EraseThenStep(it - 1) /\ mf_struct' = RemoveAt(mf_struct, it)
NothingErased_Mutant == EraseThenStep(it) /\ UNCHANGED mf_struct

\* mf_struct->erase(it); it--; continue;  the loop's it++ comes back to `it`.
FillErase == EraseThenStep(it) /\ mf_struct' = RemoveAt(mf_struct, it)

FillAborts ==
  /\ pc = "fill"
  /\ it <= Len(mf_struct)
  /\ LET v == Verdict(vfind(0, mf_struct[it].cols))
     IN  v \in {"out_of_range", "sigfpe"} /\ pc' = v
  /\ UNCHANGED <<table, data, uniques, mf_struct, dataN, gv, it, xt, output>>

FillEnd ==
  /\ pc = "fill"
  /\ it > Len(mf_struct)
  /\ pc' = "print"
  /\ UNCHANGED <<table, data, uniques, mf_struct, dataN, gv, it, xt, output>>

\* print_mf_structure
PrintResult ==
  /\ pc = "print"
  /\ pc' = "done"
  /\ output' = mf_struct
  /\ UNCHANGED <<table, data, uniques, mf_struct, dataN, gv, it, xt>>

-----------------------------------------------------------------------------
Next ==
  \/ Retrieve \/ RetrieveFaults \/ RetrieveEnd \/ SQLException
  \/ Unique \/ UniqueEnd
  \/ Prelim \/ PrelimEnd
  \/ ScanRow \/ ScanRowsEnd
  \/ ScanPair \/ ScanGroupEnd \/ ScanPairsEnd \/ ScansEnd
  \/ FillKeep \/ FillErase \/ FillAborts \/ FillEnd
  \/ PrintResult

Spec == Init /\ [][Next]_vars

\* One thread that nothing blocks: while a loop has an iteration it runs it.
FairSpec == Spec /\ WF_vars(Next)

-----------------------------------------------------------------------------
ColumnValues == UNION {{r[c] : c \in Columns} : r \in LoadedRows}

Entries == [cols : [select_columns -> ColumnValues], aggs : [select_aggregates -> Int]]

Groups(i) == [cols   : [select_columns -> ColumnValues],
              fields : [cells  : [AggsOf(i) -> Int], counts : [AvgsOf(i) -> Nat]]]

\* Types of all variables.
TypeOK ==
  /\ pc \in Running \cup Ended
  /\ table \in Seq(Rows)
  /\ data \in Seq(LoadedRows)
  /\ uniques \in Seq(1 .. Len(data))
  /\ mf_struct \in Seq(Entries)
  /\ DOMAIN dataN = Vars
  /\ \A i \in Vars : dataN[i] \in Seq(Groups(i))
  /\ gv \in 0 .. no_grouping_vars + 1
  /\ it \in Nat \ {0}
  /\ xt \in Nat \ {0}
  /\ output \in Seq(Entries)

-----------------------------------------------------------------------------
(***************************************************************************)
(* Properties.                                                             *)
(***************************************************************************)

\* The abstract query: a program still running has printed nothing yet.
Abs == INSTANCE MFQuery
         WITH status <- IF pc \in Running THEN "running" ELSE pc

(***************************************************************************)
(* The queries that the generated text treats as they are meant.  It reads *)
(* `=` in HAVING as an assignment, starts extrema at 0, lets variable 0 of *)
(* an EMF query range over the whole table, compares texts for equality    *)
(* only, exchanges the two rows that a clause with a column compares (such *)
(* clauses compile in the EMF form only), and takes an aggregate in a      *)
(* clause for missing in the first group.                                  *)
(***************************************************************************)
AsMeant(c) ==
  IF emf THEN c.kind = "column" /\ c.value = c.column /\ c.exp \in {"=", "!="}
  ELSE c.kind = "const" \/ (c.kind = "string" /\ c.exp = "=")

Intended ==
  /\ ~Assigns
  /\ \A a \in all_aggregates :
       /\ a.func = "max" => \A r \in LoadedRows : r[a.column] >= 0
       /\ a.func = "min" => \A r \in LoadedRows : r[a.column] <= 0
       /\ emf => a.group # 0
  /\ \A i \in Vars \ {0} : \A k \in DOMAIN select_conditions[i].conditions :
       AsMeant(select_conditions[i].conditions[k])

\* No dataN->at(pos) of the aggregate scans or of fill_mfstruct is ever
\* reached with the -1 of a failed vfind (scan_generator.cpp:113-135, 191-207).
NeverOutOfRange == pc # "out_of_range"

\* Rows get_uniques has gone through.
Visited == IF pc = "uniques" THEN 1 .. it - 1 ELSE DOMAIN data

\* get_uniques keeps exactly one row of each group, the first, in table order.
OneRowPerGroup ==
  pc \notin {"retrieve", "sql_error", "sigsegv"} =>
    /\ \A j \in Visited : \E k \in DOMAIN uniques :
         uniques[k] <= j /\ SameGroup(data[j], data[uniques[k]])
    /\ \A k, m \in DOMAIN uniques :
         k < m => uniques[k] < uniques[m] /\ ~SameGroup(data[uniques[k]], data[uniques[m]])

\* Once scan i is over, every aggregate of variable i holds, for every group,
\* its value over the rows the such-that clause of i selects for that group;
\* the later variables are still zero (aggregate_scan, emf_aggregate_scan).
ScannedAggregatesExact ==
  pc \in {"scan", "fill", "print", "done"} =>
    LET m == Abs!Meaning(data)
    IN  \A a \in all_aggregates : \A k \in DOMAIN uniques :
          /\ a.group < gv => ValueAt(a, k - 1) = m[a.group][uniques[k]][a]
          /\ a.group > gv => dataN[a.group][k].fields = ZeroFields(a.group)

\* While fill_mfstruct erases from the vector it walks, the entries behind the
\* iterator are the answer for the groups passed so far and the ones ahead are
\* the remaining groups, in order: none skipped, none visited twice.
FillExact ==
  pc \in {"fill", "print"} =>
    LET ans  == Abs!Answer(data)
        left == Len(mf_struct) - (it - 1)
        rest == [j \in 1 .. left |-> NewEntry(data[uniques[Len(uniques) - left + j]])]
    IN  /\ left \in 0 .. Len(uniques)
        /\ mf_struct = SubSeq(ans, 1, it - 1) \o rest
        /\ \A j \in it .. Len(ans) : \E k \in 1 .. left : rest[k].cols = ans[j].cols

\* fill_mfstruct prints no group twice and no group the table does not have,
\* whatever it erases on the way and whatever HAVING says or assigns.
PrintsGroupsOnce ==
  pc = "done" =>
    /\ \A p \in DOMAIN output : \E j \in DOMAIN data : output[p].cols = SelectCols(data[j])
    /\ \A p, q \in DOMAIN output : p # q => ~SameGroup(output[p].cols, output[q].cols)

\* What is printed is the answer of the query, in the order of first rows.
PrintedAnswer == pc = "done" => output = Abs!Answer(data)

\* The scans implement the one-step query: they print its answer, or stop on
\* a database error or on a division G really makes, and on nothing else.
RefinesQuery == Abs!AbsSpec

\* Every run of the generated program ends: in particular the loop that
\* steps its iterator back after each erase (scan_generator.cpp:194-203).
Termination == <>(pc \in Ended)
=============================================================================
