------------------------------- MODULE MFQuery ------------------------------
(***************************************************************************)
(* The abstract specification of a generated program: one step that prints *)
(* the answer of the MF / EMF query over the table, or a failure outside   *)
(* the program's control.  The answer is defined declaratively, from the   *)
(* meaning the test queries and the header comments give the operands: a   *)
(* grouping variable i ranges over table rows, `i.c` is column c of such a *)
(* row, a bare `c` is an attribute of the group, F holds the aggregates of *)
(* each variable over the rows its such-that clause selects, and G filters *)
(* the groups.                                                             *)
(***************************************************************************)
EXTENDS PhiQuery

CONSTANTS Tables      \* the result sequences the SELECT may return

VARIABLES
  table,              \* the rows the database returns, in its order
  status,             \* "running", "done", "sql_error", "sigsegv", "sigfpe"
  output              \* the printed entries

absvars == <<table, status, output>>

-----------------------------------------------------------------------------
\* The groups of d, each named by the position of its first row.
Firsts(d) == {j \in DOMAIN d : \A k \in 1 .. j - 1 : ~SameGroup(d[k], d[j])}

\* What a condition says about a group g and a row r of its variable.
Says(c, g, r, val(_)) ==
  CASE c.kind = "column"    -> Compare(c.exp, r[c.column], g[c.value])
    [] c.kind = "expr"      -> Compare(c.exp, r[c.column], g[c.value.column] + c.value.offset)
    [] c.kind = "aggregate" -> Compare(c.exp, r[c.column], val(c.value))
    [] c.kind = "const"     -> Compare(c.exp, r[c.column], c.value)
    [] c.kind = "string"    -> Compare(c.exp, r[c.column], c.value)

\* Variable 0 is the group itself; an MF variable stays inside the group.
SuchThat(i, g, r, val(_)) ==
  /\ ~emf \/ i = 0 => SameGroup(g, r)
  /\ i # 0 => LET cs == select_conditions[i].conditions
              IN  Connect([k \in DOMAIN cs |-> Says(cs[k], g, r, val)],
                          select_conditions[i].ops)

\* The aggregate a over the rows of d at positions S; 0 for no rows.
AggregateOver(a, d, S) ==
  LET v(j) == d[j][a.column]
  IN  CASE a.func = "count" -> Cardinality(S)
        [] a.func = "sum"   -> MapThenSumSet(v, S)
        [] a.func = "avg"   -> IF S = {} THEN 0
                               ELSE TruncDiv(MapThenSumSet(v, S), Cardinality(S))
        [] a.func = "max"   -> IF S = {} THEN 0 ELSE Max({v(j) : j \in S})
        [] a.func = "min"   -> IF S = {} THEN 0 ELSE Min({v(j) : j \in S})

\* Meaning(d)[i][g][a]: the value of aggregate a of variable i for group g.
Meaning(d) ==
  LET m[i \in Vars] ==
        [g \in Firsts(d) |->
           LET val(b) == m[b.group][g][b]
               S == {j \in DOMAIN d : SuchThat(i, d[g], d[j], val)}
           IN  [a \in AggsOf(i) |-> AggregateOver(a, d, S)]]
  IN  m

\* The values of all aggregates for group g.
ValuesOf(m, g) == [a \in all_aggregates |-> m[a.group][g][a]]

\* The positions of S among 1 .. n, in increasing order.
InOrder(S, n) ==
  LET upto[k \in 0 .. n] ==
        IF k = 0 THEN <<>> ELSE IF k \in S THEN Append(upto[k - 1], k) ELSE upto[k - 1]
  IN  upto[n]

\* The answer: the groups G accepts, in the order of their first rows.
Answer(d) ==
  LET m    == Meaning(d)
      kept == {g \in Firsts(d) : HavingTrue(ValuesOf(m, g))}
      seq  == InOrder(kept, Len(d))
  IN  [k \in DOMAIN seq |->
         [cols |-> SelectCols(d[seq[k]]),
          aggs |-> [a \in select_aggregates |-> m[a.group][seq[k]][a]]]]

Loaded(t) == [j \in DOMAIN t |-> Load(t[j])]

-----------------------------------------------------------------------------
AbsInit == table \in Tables /\ status = "running" /\ output = <<>>

PrintAnswer ==
  /\ status = "running"
  /\ status' = "done"
  /\ output' = Answer(Loaded(table))
  /\ UNCHANGED table

SQLFails ==
  /\ status = "running"
  /\ status' = "sql_error"
  /\ UNCHANGED <<table, output>>

\* A NULL or empty text anywhere in the rows, in a selected column or not.
EmptyTextFaults ==
  /\ status = "running"
  /\ \E j \in DOMAIN table : EmptyText(table[j])
  /\ status' = "sigsegv"
  /\ UNCHANGED <<table, output>>

DivisionFaults ==
  /\ status = "running"
  /\ LET d == Loaded(table)
     IN  \E g \in Firsts(d) : HavingFaults(ValuesOf(Meaning(d), g))
  /\ status' = "sigfpe"
  /\ UNCHANGED <<table, output>>

AbsNext == PrintAnswer \/ SQLFails \/ EmptyTextFaults \/ DivisionFaults

AbsSpec == AbsInit /\ [][AbsNext]_absvars
=============================================================================
