--------------------------- MODULE MCDeclarations ---------------------------
(***************************************************************************)
(* Tables of two and three columns, one name part of another, in each      *)
(* order, and queries over them: sound ones, and ones whose V, F or n do   *)
(* not fit S.                                                              *)
(***************************************************************************)
EXTENDS Declarations

CONSTANTS
  DataTypes           \* the data types of the columns

\* What find() finds in the names of information_schema's DATA_TYPE.
MySQLWords ==
  [varchar |-> {"varchar", "char"}, char |-> {"char"}, longtext |-> {"text"},
   enum |-> {"enum"}, set |-> {"set"}, bigint |-> {"int"}, float |-> {"float"},
   double |-> {"double"}, decimal |-> {"decimal"}, datetime |-> {"datetime", "time", "date"},
   timestamp |-> {"timestamp", "time"}, time |-> {"time"}, date |-> {"date"},
   year |-> {"year"}, blob |-> {"blob"}, bit |-> {}]

\* "unit" is part of "unitprice".
SomeWithin == {<<"unit", "unitprice">>}

Permuted == {<<"cust", "unit", "unitprice">>, <<"unitprice", "unit", "cust">>,
             <<"cust", "unitprice">>}
SomeSchemas ==
  UNION {{[k \in DOMAIN names |-> [name |-> names[k], data_type |-> types[k]]] :
            types \in [DOMAIN names -> DataTypes]} : names \in Permuted}

Col(c) == [name |-> c]
Agg(g, f, c) == [group |-> g, func |-> f, column |-> c]
Sum == Agg(1, "sum", "unitprice")
Avg == Agg(1, "avg", "unitprice")
Count == Agg(0, "count", "cust")
UpperCount == Agg(0, "COUNT", "cust")
Sum0 == Agg(0, "sum", "unitprice")
Least == Agg(0, "min", "cust")

Selects ==
  {<<Col("cust")>>, <<Col("unitprice"), Sum>>, <<Col("cust"), Avg, Count>>,
   <<Col("cust"), Col("unitprice"), UpperCount>>, <<Col("cust"), Least>>,
   <<Col("cust"), Col("cust")>>}
Groupings == {<<>>, <<"cust">>, <<"unitprice">>, <<"cust", "unitprice">>, <<"qty">>}
Vectors ==
  {<<Sum, Avg>>, <<Count, Avg>>, <<UpperCount>>, <<Least>>, <<Sum0>>}

SomeQueries == [s : Selects, v : Groupings, f : Vectors, n : {0, 1}]
=============================================================================
