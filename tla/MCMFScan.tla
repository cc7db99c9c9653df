------------------------------ MODULE MCMFScan ------------------------------
(***************************************************************************)
(* Queries and tables for TLC.  The queries are cut down from test/: they  *)
(* keep the shape of their such-that and HAVING clauses.                   *)
(***************************************************************************)
EXTENDS MFScan

CONSTANTS
  Names,              \* values of the text columns, model values
  Prods,
  NY, CT,             \* two state names
  Quants,             \* quantities in the table
  Months,
  MaxRows             \* bound: rows the SELECT returns

Agg(g, f, c) == [group |-> g, func |-> f, column |-> c]
OfAgg(a)     == [kind |-> "agg", agg |-> a]
Number(k)    == [kind |-> "number", value |-> k]
Atom(l, e, mul, num, den) ==
  [lhs |-> l, exp |-> e, mul |-> mul, num |-> num, den |-> den]
Cond(col, exp, kind, value) ==
  [column |-> col, exp |-> exp, kind |-> kind, value |-> value]
Clause(cs, ops) == [conditions |-> cs, ops |-> ops]

MCTables == SeqOf(Rows, MaxRows)

\* Table (cust, state, quant), with one row whose state is NULL.
SalesColumns == {"cust", "state", "quant"}
SalesRows ==
  {[cust |-> c, state |-> s, quant |-> q] : c \in Names, s \in {NY, CT}, q \in Quants}
NullStateRow == [cust |-> CHOOSE c \in Names : TRUE, state |-> NULL, quant |-> 1]
SalesRowsAndNull == SalesRows \cup {NullStateRow}

\* Table (cust, prod, quant).
ProductColumns == {"cust", "prod", "quant"}
ProductRows ==
  {[cust |-> c, prod |-> p, quant |-> q] : c \in Names, p \in Prods, q \in Quants}

\* Table (prod, month, quant).
MonthColumns == {"prod", "month", "quant"}
MonthRows ==
  {[prod |-> p, month |-> t, quant |-> q] : p \in Prods, t \in Months, q \in Quants}

\* test/test: totals of a customer in two states, with two-condition clauses
\* and a HAVING that divides.
MFAggregates ==
  {Agg(1, "sum", "quant"), Agg(1, "avg", "quant"), Agg(2, "sum", "quant"),
   Agg(2, "count", "quant"), Agg(0, "max", "quant")}
MFSelect == {Agg(1, "avg", "quant"), Agg(2, "sum", "quant"), Agg(0, "max", "quant")}
MFConditions ==
  <<Clause(<<Cond("state", "=", "string", NY)>>, <<>>),
    Clause(<<Cond("state", "=", "string", NY), Cond("quant", ">", "const", 1),
             Cond("state", "=", "string", CT)>>, <<"and", "or">>)>>
MFHaving ==
  << <<Atom(OfAgg(Agg(1, "avg", "quant")), ">", 1, Number(1), Number(1))>>,
     <<Atom(Number(1), "<", 1, OfAgg(Agg(2, "sum", "quant")),
            OfAgg(Agg(2, "count", "quant")))>> >>

\* test/example6: averages of the group and of the other customers.
EMFAggregates ==
  {Agg(1, "avg", "quant"), Agg(2, "avg", "quant"), Agg(2, "count", "cust"),
   Agg(2, "max", "quant")}
EMFSelect == {Agg(1, "avg", "quant"), Agg(2, "max", "quant"), Agg(2, "count", "cust")}
EMFConditions ==
  <<Clause(<<Cond("cust", "=", "column", "cust"), Cond("prod", "=", "column", "prod")>>,
           <<"and">>),
    Clause(<<Cond("cust", "!=", "column", "cust"), Cond("prod", "=", "column", "prod")>>,
           <<"and">>)>>
EMFHaving ==
  << <<Atom(OfAgg(Agg(1, "avg", "quant")), ">=", 1, OfAgg(Agg(2, "avg", "quant")),
            Number(1))>> >>

\* test/example5: HAVING 2_count_prod = 1_count_prod / 2.
HalfAggregates == {Agg(1, "count", "prod"), Agg(2, "count", "prod")}
HalfConditions ==
  <<Clause(<<Cond("prod", "=", "column", "prod")>>, <<>>),
    Clause(<<Cond("prod", "!=", "column", "prod")>>, <<>>)>>
HalfHaving ==
  << <<Atom(OfAgg(Agg(2, "count", "prod")), "=", 1, OfAgg(Agg(1, "count", "prod")),
            Number(2))>> >>

\* test/example3: the averages before and after the month of the group.
OrderAggregates == {Agg(1, "avg", "quant")}
OrderConditions ==
  <<Clause(<<Cond("prod", "=", "column", "prod"), Cond("month", "<", "column", "month")>>,
           <<"and">>)>>
NoHaving == <<>>
=============================================================================
