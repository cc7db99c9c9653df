------------------------------ MODULE PhiQuery ------------------------------
(***************************************************************************)
(* The operands of a query (the Phi operator: S, W, n, V, F, sigma, G) as  *)
(* `final` holds them once they are parsed, and the value-level operators  *)
(* of the program it generates: comparisons, aggregate cells, integer      *)
(* division, the connectives of a such-that clause.                        *)
(*                                                                         *)
(* Names are the source's.  Text is already classified: a condition's      *)
(* right-hand side carries the kind Condition::toCpp tells apart.          *)
(***************************************************************************)
EXTENDS Integers, Sequences, FiniteSets, FiniteSetsExt, SequencesExt

CONSTANTS
  Columns,            \* column names of the table
  NumericColumns,     \* those whose generated C++ type is a number
  grouping_attr,      \* V, the grouping attributes
  select_columns,     \* the plain columns of S
  select_aggregates,  \* the aggregates of S
  no_grouping_vars,   \* n
  all_aggregates,     \* F, a set of [group, func, column]
  select_conditions,  \* sigma, 1..n -> [conditions, ops]
  having,             \* G in disjunctive form: Seq(Seq(atom)), <<>> when absent
  emf,                \* the -emf flag
  Rows,               \* the rows the table may hold: [Columns -> value or NULL]
  NULL                \* SQL NULL

Funcs == {"avg", "sum", "count", "min", "max"}

AggsOf(i) == {a \in all_aggregates : a.group = i}
AvgsOf(i) == {a \in AggsOf(i) : a.func = "avg"}

Vars == 0 .. no_grouping_vars

(***************************************************************************)
(* The operands of the programs modelled: what the generator and the C++   *)
(* compiler demand before a generated program runs at all, and, where g++  *)
(* does not look (Declarations!Unchecked), functions and columns of F that *)
(* the scans have a statement for.                                         *)
(***************************************************************************)
ASSUME VarsAssumption == no_grouping_vars \in Nat

\* vfindN compares it->attr of struct groupN, which has the plain columns
\* of S only: V must be among them (helpers.cpp:33-55, structures.cpp:76-86).
ASSUME ColumnsAssumption ==
  /\ grouping_attr \subseteq select_columns
  /\ select_columns \subseteq Columns
  /\ NumericColumns \subseteq Columns

\* group_aggregates throws for a group beyond n (scan_generator.cpp:71), and
\* fill_mfstruct reads dataN fields that only F declares.
ASSUME AggregatesAssumption ==
  /\ IsFiniteSet(all_aggregates)
  /\ all_aggregates \subseteq [group : Vars, func : Funcs, column : Columns]
  /\ \A a \in all_aggregates : a.func # "count" => a.column \in NumericColumns
  /\ select_aggregates \subseteq all_aggregates

ASSUME RowsAssumption ==
  /\ \A row \in Rows : /\ DOMAIN row = Columns
                       /\ \A c \in NumericColumns : row[c] = NULL \/ row[c] \in Int

\* G, when present, compares numbers; a G with `=` is modelled as the single atom
\* `field = expression` only, with a field that is not an Average object, which
\* g++ refuses to assign to (Clauses!AssignmentCompiles).
ASSUME HavingAssumption ==
  /\ \A j \in DOMAIN having : \A k \in DOMAIN having[j] :
       /\ having[j][k].mul \in Int
       /\ \A o \in {having[j][k].lhs, having[j][k].num, having[j][k].den} :
            IF o.kind = "agg" THEN o.agg \in all_aggregates ELSE o.value \in Int
       /\ having[j][k].exp = "=" =>
            /\ DOMAIN having = {1} /\ DOMAIN having[1] = {1}
            /\ having[1][1].lhs.kind = "agg" /\ having[1][1].lhs.agg.func # "avg"

ASSUME EmfAssumption == emf \in BOOLEAN

\* A clause names the second iterator (*xt) for a column on its right, and only
\* the EMF scans declare it (scan_generator.cpp:62, Clauses!ConditionCompiles).
ASSUME FormAssumption ==
  ~emf => \A i \in DOMAIN select_conditions :
            \A j \in DOMAIN select_conditions[i].conditions :
              select_conditions[i].conditions[j].kind \notin {"column", "expr"}

-----------------------------------------------------------------------------
(***************************************************************************)
(* Values.                                                                 *)
(***************************************************************************)

\* getInt / getDouble return 0 for SQL NULL.
Load(row) == [c \in Columns |-> IF row[c] = NULL THEN 0 ELSE row[c]]

\* getString returns "" for SQL NULL (and for an empty text), and NULL stands
\* for both.  Assigning "" to a std::string that calloc zeroed is undefined:
\* libstdc++ writes the terminator through its null pointer.
EmptyText(row) == \E c \in Columns \ NumericColumns : row[c] = NULL

\* The rows as `struct sales` holds them.
LoadedRows == {Load(row) : row \in {r \in Rows : ~EmptyText(r)}}

SameGroup(a, b) == \A c \in grouping_attr : a[c] = b[c]

\* entry->col = it->col for every plain column of S.
SelectCols(row) == [c \in select_columns |-> row[c]]

\* C++ integer division truncates toward zero.
TruncDiv(a, b) ==
  LET Mag(x) == IF x < 0 THEN -x ELSE x
      q == Mag(a) \div Mag(b)
  IN  IF (a < 0) = (b < 0) THEN q ELSE -q

Compare(exp, a, b) ==
  CASE exp = "="  -> a = b
    [] exp = "!=" -> a # b
    [] exp = "<"  -> a < b
    [] exp = ">"  -> a > b
    [] exp = "<=" -> a <= b
    [] exp = ">=" -> a >= b

(***************************************************************************)
(* The aggregate fields of one group: cells[a] is the field of a, or the   *)
(* sum of its Average<T>, and counts[a] the count of that Average.  All    *)
(* start at the zero calloc leaves and change once per selected row.       *)
(***************************************************************************)
ZeroFields(i) ==
  [cells |-> [a \in AggsOf(i) |-> 0], counts |-> [a \in AvgsOf(i) |-> 0]]

\* Average<T>::value(), and the field itself for the other functions.
FieldValue(a, g) ==
  IF a.func = "avg"
  THEN IF g.counts[a] = 0 THEN 0 ELSE TruncDiv(g.cells[a], g.counts[a])
  ELSE g.cells[a]

MaxKeepsSmaller_Mutant(a, cell, row) ==
  CASE a.func \in {"avg", "sum"} -> cell + row[a.column]
    [] a.func = "count" -> cell + 1
    [] a.func \in {"min", "max"} -> IF cell > row[a.column] THEN row[a.column] ELSE cell

UpdateCell(a, cell, row) ==
  CASE a.func \in {"avg", "sum"} -> cell + row[a.column]
    [] a.func = "count" -> cell + 1
    [] a.func = "min"   -> IF cell > row[a.column] THEN row[a.column] ELSE cell
    [] a.func = "max"   -> IF cell < row[a.column] THEN row[a.column] ELSE cell

(***************************************************************************)
(* `c1 op1 c2 op2 ... cm` with the precedence C++ gives the alternative    *)
(* tokens the generator copies through: xor (^) over and over or.          *)
(***************************************************************************)
Runs(ops, lo, hi, sep) ==
  {r \in (lo .. hi) \X (lo .. hi) :
     /\ r[1] <= r[2]
     /\ r[1] = lo \/ ops[r[1] - 1] = sep
     /\ r[2] = hi \/ ops[r[2]] = sep
     /\ \A k \in r[1] .. r[2] - 1 : ops[k] # sep}

Connect(holds, ops) ==
  \E disjunct \in Runs(ops, 1, Len(holds), "or") :
    \A conjunct \in Runs(ops, disjunct[1], disjunct[2], "and") :
      Cardinality({k \in conjunct[1] .. conjunct[2] : holds[k]}) % 2 = 1

(***************************************************************************)
(* HAVING atoms  lhs exp mul * num / den  over the aggregates of one       *)
(* position; vals maps every aggregate of F to its value.                  *)
(***************************************************************************)
Operand(o, vals) == IF o.kind = "agg" THEN vals[o.agg] ELSE o.value

Rhs(atom, vals) ==
  TruncDiv(atom.mul * Operand(atom.num, vals), Operand(atom.den, vals))

Divides(atom, vals) == Operand(atom.den, vals) # 0

\* Short-circuit evaluation, left to right.
AtomTrue(atom, vals) ==
  Divides(atom, vals) /\ Compare(atom.exp, Operand(atom.lhs, vals), Rhs(atom, vals))

ConjunctTrue(conj, vals) == \A k \in DOMAIN conj : AtomTrue(conj[k], vals)

HavingTrue(vals) ==
  having = <<>> \/ \E j \in DOMAIN having : ConjunctTrue(having[j], vals)

\* An integer division by zero is reached (SIGFPE).
HavingFaults(vals) ==
  \E j \in DOMAIN having : \E k \in DOMAIN having[j] :
    /\ \A p \in 1 .. j - 1 : ~ConjunctTrue(having[p], vals)
    /\ \A p \in 1 .. k - 1 : AtomTrue(having[j][p], vals)
    /\ ~Divides(having[j][k], vals)
=============================================================================
