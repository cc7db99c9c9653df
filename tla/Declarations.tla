---------------------------- MODULE Declarations ----------------------------
(***************************************************************************)
(* What parse_query declares in result.h, and with which C++ types: the    *)
(* columns of the table with their types, struct mf_structure, struct      *)
(* sales, the structs group0..groupN and the parameters of vfindN; then    *)
(* what g++ makes of the statements that use them.  One action per         *)
(* iteration of the generator's loops.                                     *)
(*                                                                         *)
(* A name is opaque; `Within` says which names contain which, because most *)
(* lookups are name.find(column).  Column names have no underscore.        *)
(***************************************************************************)
EXTENDS Integers, Sequences, FiniteSets, FiniteSetsExt, Functions

CONSTANTS
  Words,      \* data type of information_schema -> the keywords in its name
  Within,     \* pairs <<a, b>> of names: b contains a, and a # b
  Schemas,    \* the tables: sequences of [name, data_type]
  Queries     \* [s, v, f, n]: attributes of S, names of V, aggregates of F, n

(***************************************************************************)
(* Attributes of S are [name] or aggregates [group, func, column].         *)
(***************************************************************************)
IsAggregate(attr) == "func" \in DOMAIN attr

Aggregate(agg) ==
  agg = [group |-> agg.group, func |-> agg.func, column |-> agg.column] /\ agg.group \in Nat

ASSUME InputsAssumption ==
  /\ \A t \in Schemas :
       /\ t \in Seq(Range(t))
       /\ \A j, k \in DOMAIN t :
            t[j].data_type \in DOMAIN Words /\ (t[j].name = t[k].name => j = k)
  /\ \A q \in Queries :
       /\ q.n \in Nat
       /\ q.s \in Seq(Range(q.s)) /\ q.v \in Seq(Range(q.v)) /\ q.f \in Seq(Range(q.f))
       /\ \A attr \in Range(q.s) :
            IF IsAggregate(attr) THEN Aggregate(attr) ELSE attr = [name |-> attr.name]
       /\ \A agg \in Range(q.f) : Aggregate(agg)

VARIABLES
  pc, i,          \* the loop, and its index
  schema, query,
  columns,        \* vector<Column*>: [name, type, ctype]
  mf_structure,   \* fields [name, type] of struct mf_structure
  sales,          \* of struct sales
  groups,         \* of struct group0, group1, ...: [name, type, avg]
  ct              \* [name, type] of each grouping attribute

vars == <<pc, i, schema, query, columns, mf_structure, sales, groups, ct>>

Init ==
  /\ pc = "columns" /\ i = 1
  /\ schema \in Schemas /\ query \in Queries
  /\ columns = <<>> /\ mf_structure = <<>> /\ sales = <<>> /\ groups = <<>> /\ ct = <<>>

-----------------------------------------------------------------------------
(***************************************************************************)
(* Column: types.                                                          *)
(***************************************************************************)
\* The keywords getType looks for, in its order.
Keywords ==
  << <<"varchar", "SQL_VARCHAR">>, <<"char", "SQL_CHAR">>, <<"text", "SQL_TEXT">>,
     <<"enum", "SQL_ENUM">>, <<"set", "SQL_SET">>, <<"unsigned", "SQL_UINT">>,
     <<"int", "SQL_INT">>, <<"float", "SQL_FLOAT">>, <<"double", "SQL_DOUBLE">>,
     <<"decimal", "SQL_DECIMAL">>, <<"datetime", "SQL_DATETIME">>,
     <<"timestamp", "SQL_TIMESTAMP">>, <<"time", "SQL_TIME">>, <<"date", "SQL_DATE">>,
     <<"year", "SQL_YEAR">>, <<"blob", "SQL_BLOB">>, <<"numeric", "SQL_NUMERIC">>,
     <<"money", "SQL_MONEY">>, <<"real", "SQL_REAL">> >>

getType(data_type) ==
  LET hits == {k \in DOMAIN Keywords : Keywords[k][1] \in Words[data_type]}
  IN  IF hits = {} THEN "SQL_BOOL" ELSE Keywords[Min(hits)][2]

Texts == {"SQL_CHAR", "SQL_VARCHAR", "SQL_TEXT", "SQL_DECIMAL", "SQL_NUMERIC", "SQL_MONEY",
          "SQL_REAL"}
Whole == {"SQL_YEAR", "SQL_INT", "SQL_TIMESTAMP", "SQL_UINT"}
Times == {"SQL_DATE", "SQL_DATETIME", "SQL_TIME"}

DoubleFallsThrough_Mutant(type) ==
  CASE type \in Texts                   -> "CPP_STRING"
    [] type = "SQL_BLOB"                -> "CPP_RAW"
    [] type \in {"SQL_ENUM", "SQL_SET"} -> "CPP_VECTOR"
    [] type = "SQL_FLOAT"               -> "CPP_FLOAT"
    [] type \in Times                   -> "CPP_DATE"
    [] OTHER                            -> "CPP_INT64"

getCppType(type) ==
  CASE type \in Texts                   -> "CPP_STRING"
    [] type = "SQL_BLOB"                -> "CPP_RAW"
    [] type \in {"SQL_ENUM", "SQL_SET"} -> "CPP_VECTOR"
    [] type \in Whole                   -> "CPP_INT64"
    [] type = "SQL_FLOAT"               -> "CPP_FLOAT"
    [] type = "SQL_DOUBLE"              -> "CPP_DOUBLE"
    [] type \in Times                   -> "CPP_DATE"
    [] OTHER                            -> "CPP_INT64"

CppTypes == {"CPP_STRING", "CPP_INT64", "CPP_FLOAT", "CPP_DOUBLE", "CPP_DATE", "CPP_RAW",
             "CPP_VECTOR"}

\* Called with SQL and with C++ types; "" for the ones it does not list.
getOutCppType(type) ==
  CASE type \in Texts \cup {"CPP_STRING"}       -> "string"
    [] type = "SQL_BLOB"                        -> "uint8_t[10000]"
    [] type \in {"SQL_ENUM", "SQL_SET"}         -> "vector<string>"
    [] type \in Whole \cup {"CPP_INT64"}        -> "int64_t"
    [] type \in {"SQL_FLOAT", "CPP_FLOAT"}      -> "float"
    [] type \in {"SQL_DOUBLE", "CPP_DOUBLE"}    -> "double"
    [] type \in Times                           -> "Date"
    [] OTHER                                    -> ""

Column(name, data_type) ==
  [name |-> name, type |-> getType(data_type), ctype |-> getCppType(getType(data_type))]

GetColumn ==
  /\ pc = "columns" /\ i <= Len(schema)
  /\ columns' = Append(columns, Column(schema[i].name, schema[i].data_type))
  /\ i' = i + 1
  /\ UNCHANGED <<pc, schema, query, mf_structure, sales, groups, ct>>

\* The end of a loop: on to the next one.
Goto(here, bound, there) ==
  /\ pc = here /\ i > bound
  /\ pc' = there /\ i' = 1
  /\ UNCHANGED <<schema, query, columns, mf_structure, sales, groups, ct>>

ColumnsEnd == Goto("columns", Len(schema), "mf_structure")

-----------------------------------------------------------------------------
(***************************************************************************)
(* Lookups of a type by name.                                              *)
(***************************************************************************)
Finds(name, inner) == name = inner \/ <<inner, name>> \in Within

\* The type of the first of these columns, "" for none.
FirstType(hits) == IF hits = {} THEN "" ELSE getOutCppType(columns[Min(hits)].type)

\* name.find(column) on the text of an attribute, `1_avg_quant` for one.
InAttribute(attr, column) ==
  IF IsAggregate(attr)
  THEN Finds(attr.column, column) \/ Finds(attr.func, column)
  ELSE Finds(attr.name, column)

\* Names of members.
MemberName(name) == <<name>>
toVar(agg)    == <<agg.func, agg.column>>
toABSVar(agg) == IF agg.group = 0 THEN toVar(agg) ELSE <<agg.func, agg.column, agg.group>>

\* The elements of s that are in a set, in their order.
Chosen(s, these) ==
  LET upTo[n \in 0 .. Len(s)] ==
        IF n = 0 THEN <<>>
        ELSE IF s[n] \in these THEN Append(upTo[n - 1], s[n]) ELSE upTo[n - 1]
  IN  upTo[Len(s)]

PlainOf(s)      == Chosen(s, {attr \in Range(s) : ~IsAggregate(attr)})
AggregatesOf(s) == Chosen(s, {attr \in Range(s) : IsAggregate(attr)})
OfGroup(f, var) == Chosen(f, {agg \in Range(f) : agg.group = var})

select_columns    == PlainOf(query.s)
select_aggregates == AggregatesOf(query.s)

-----------------------------------------------------------------------------
(***************************************************************************)
(* create_structures.                                                      *)
(***************************************************************************)
Selected(attr) ==
  LET type == FirstType({k \in DOMAIN columns : InAttribute(attr, columns[k].name)})
  IN  IF IsAggregate(attr)
      THEN [name |-> toABSVar(attr), type |-> IF type = "string" THEN "int64_t" ELSE type]
      ELSE [name |-> MemberName(attr.name), type |-> type]

MfField ==
  /\ pc = "mf_structure" /\ i <= Len(query.s)
  /\ mf_structure' = Append(mf_structure, Selected(query.s[i]))
  /\ i' = i + 1
  /\ UNCHANGED <<pc, schema, query, columns, sales, groups, ct>>

MfEnd == Goto("mf_structure", Len(query.s), "sales")

SalesField ==
  /\ pc = "sales" /\ i <= Len(columns)
  /\ sales' = Append(sales, [name |-> MemberName(columns[i].name),
                             type |-> getOutCppType(columns[i].type)])
  /\ i' = i + 1
  /\ UNCHANGED <<pc, schema, query, columns, mf_structure, groups, ct>>

SalesEnd == Goto("sales", Len(columns), "groups")

(***************************************************************************)
(* create_grouping_var_structs: the plain columns of S by their exact      *)
(* name, then the aggregates of this variable.                             *)
(***************************************************************************)
Averages == {"avg", "AVG"}

GroupColumn(attr) ==
  [name |-> MemberName(attr.name),
   type |-> FirstType({k \in DOMAIN columns : attr.name = columns[k].name}),
   avg  |-> FALSE]

GroupAggregate(agg) ==
  [name |-> toVar(agg),
   type |-> IF agg.func = "count" THEN "int64_t"
            ELSE FirstType({k \in DOMAIN columns : Finds(agg.column, columns[k].name)}),
   avg  |-> agg.func \in Averages]

MapSeq(Op(_), s) == [k \in DOMAIN s |-> Op(s[k])]

EveryAggregate_Mutant(var) ==
  MapSeq(GroupColumn, select_columns) \o MapSeq(GroupAggregate, query.f)

GroupFields(var) ==
  MapSeq(GroupColumn, select_columns) \o MapSeq(GroupAggregate, OfGroup(query.f, var))

OneTooMany_Mutant ==
  /\ pc = "groups" /\ i <= query.n + 2
  /\ groups' = Append(groups, GroupFields(i - 1))
  /\ i' = i + 1
  /\ UNCHANGED <<pc, schema, query, columns, mf_structure, sales, ct>>

GroupStruct ==
  /\ pc = "groups" /\ i <= query.n + 1
  /\ groups' = Append(groups, GroupFields(i - 1))
  /\ i' = i + 1
  /\ UNCHANGED <<pc, schema, query, columns, mf_structure, sales, ct>>

OneTooFew_Mutant == Goto("groups", query.n, "ct")

GroupsEnd == Goto("groups", query.n + 1, "ct")

(***************************************************************************)
(* get_ct: the type of an attribute no column name is found in is never    *)
(* set.                                                                    *)
(***************************************************************************)
CtTypes(name) ==
  LET hits == {k \in DOMAIN columns : Finds(name, columns[k].name)}
  IN  IF hits = {} THEN CppTypes \cup {"garbage"} ELSE {columns[Min(hits)].ctype}

CtEntry ==
  /\ pc = "ct" /\ i <= Len(query.v)
  /\ \E type \in CtTypes(query.v[i]) :
       ct' = Append(ct, [name |-> query.v[i], type |-> type])
  /\ i' = i + 1
  /\ UNCHANGED <<pc, schema, query, columns, mf_structure, sales, groups>>

CtEnd == Goto("ct", Len(query.v), "helpers")

\* get_helpers refuses dates, blobs and sets among the grouping attributes, and
\* then group_aggregates an aggregate of a variable beyond n.
Throws ==
  \/ \E k \in DOMAIN ct : ct[k].type \in {"CPP_DATE", "CPP_RAW", "CPP_VECTOR"}
  \/ \E k \in DOMAIN query.f : query.f[k].group > query.n

Helpers ==
  /\ pc = "helpers"
  /\ pc' = IF Throws THEN "thrown" ELSE "generated"
  /\ UNCHANGED <<i, schema, query, columns, mf_structure, sales, groups, ct>>

-----------------------------------------------------------------------------
(***************************************************************************)
(* g++ on result.cpp: the rules of C++ for the statements the generator    *)
(* prints, as far as types of fields decide them.                          *)
(***************************************************************************)
Numbers == {"int64_t", "float", "double"}

\* The type of a member, "none" where there is none.
Member(struct, name) ==
  LET hits == {k \in DOMAIN struct : struct[k].name = name}
  IN  IF hits = {} THEN "none" ELSE struct[Min(hits)].type

\* `Date x;`, `uint8_t[10000] x;` and ` x;` are no declarations.
ValidStruct(struct) ==
  /\ \A k \in DOMAIN struct : struct[k].type \in Numbers \cup {"string", "vector<string>"}
  /\ \A j, k \in DOMAIN struct : struct[j].name = struct[k].name => j = k

\* to = from; a number assigned to a std::string is converted to a char.
Assignable(to, from) ==
  \/ from \in Numbers /\ to \in Numbers \cup {"string"}
  \/ from \in {"string", "vector<string>"} /\ to = from

\* Passing an argument: no number becomes a std::string.
Passable(to, from) ==
  \/ from \in Numbers /\ to \in Numbers
  \/ from \in {"string", "vector<string>"} /\ to = from

\* The type res->getXxx returns.
Getter(ctype) ==
  CASE ctype = "CPP_INT64"  -> "int64_t"      \* getInt
    [] ctype = "CPP_FLOAT"  -> "none"         \* getFloat: sql::ResultSet has no such member
    [] ctype = "CPP_DOUBLE" -> "double"       \* getDouble
    [] OTHER                -> "string"       \* getString

RowsLoad ==
  \A k \in DOMAIN columns :
    Assignable(Member(sales, MemberName(columns[k].name)), Getter(columns[k].ctype))

\* prelim_scan copies the plain columns of S.
ColumnsCopied ==
  \A k \in DOMAIN select_columns :
    LET name == MemberName(select_columns[k].name)
    IN  /\ Assignable(Member(mf_structure, name), Member(sales, name))
        /\ \A g \in DOMAIN groups : Assignable(Member(groups[g], name), Member(sales, name))

\* vfindN and its calls from the scans and from fill_mfstruct; without a grouping
\* attribute its test is `if()`.
GroupsFound ==
  /\ ct # <<>>
  /\ \A k \in DOMAIN ct :
       LET name  == MemberName(ct[k].name)
           param == getOutCppType(ct[k].type)
       IN  /\ param # ""
           /\ Passable(param, Member(sales, name))
           /\ Passable(param, Member(mf_structure, name))
           /\ \A g \in DOMAIN groups : Passable(param, Member(groups[g], name))

\* The statement that adds a row to an aggregate; none for an unknown function.
Updates(agg) ==
  LET field == Member(groups[agg.group + 1], toVar(agg))
      row   == Member(sales, MemberName(agg.column))
  IN  CASE agg.func \in Averages ->
             Passable(field, row) /\ field # "vector<string>"
        [] agg.func \in {"sum", "SUM"} ->
             Assignable(field, row) /\ field # "vector<string>"
        [] agg.func \in {"count", "COUNT"} ->
             field # "vector<string>"
        [] agg.func \in {"min", "MIN", "max", "MAX"} ->
             Passable(field, row)
        [] OTHER -> TRUE

\* fill_mfstruct copies the aggregates of S; value() of an average divides.
AggregateFilled(agg) ==
  /\ agg.group + 1 \in DOMAIN groups
  /\ LET field == Member(groups[agg.group + 1], toVar(agg))
     IN  /\ Assignable(Member(mf_structure, toABSVar(agg)), field)
         /\ agg.func \in Averages => field \in Numbers

WellTyped ==
  /\ ValidStruct(mf_structure) /\ ValidStruct(sales)
  /\ Len(groups) = query.n + 1
  /\ \A g \in DOMAIN groups : ValidStruct(groups[g])
  /\ RowsLoad /\ ColumnsCopied /\ GroupsFound
  /\ \A k \in DOMAIN query.f : Updates(query.f[k])
  /\ \A k \in DOMAIN select_aggregates : AggregateFilled(select_aggregates[k])

Compile ==
  /\ pc = "generated"
  /\ pc' = IF WellTyped THEN "compiled" ELSE "refused"
  /\ UNCHANGED <<i, schema, query, columns, mf_structure, sales, groups, ct>>

Next ==
  \/ GetColumn \/ ColumnsEnd \/ MfField \/ MfEnd \/ SalesField \/ SalesEnd
  \/ GroupStruct \/ GroupsEnd \/ CtEntry \/ CtEnd \/ Helpers \/ Compile

Spec == Init /\ [][Next]_vars

-----------------------------------------------------------------------------
SQLTypes == {Keywords[k][2] : k \in DOMAIN Keywords} \cup {"SQL_BOOL"}
OutTypes == Numbers \cup {"string", "vector<string>", "uint8_t[10000]", "Date", ""}

\* Types of all variables, and how far the loops go.
TypeOK ==
  /\ pc \in {"columns", "mf_structure", "sales", "groups", "ct", "helpers", "generated",
             "thrown", "compiled", "refused"}
  /\ i \in Nat \ {0}
  /\ Len(columns) <= Len(schema) /\ Len(groups) <= query.n + 1 /\ Len(ct) <= Len(query.v)
  /\ \A k \in DOMAIN columns : columns[k].type \in SQLTypes /\ columns[k].ctype \in CppTypes
  /\ \A k \in DOMAIN mf_structure : mf_structure[k].type \in OutTypes
  /\ \A k \in DOMAIN sales : sales[k].type \in OutTypes
  /\ \A g \in DOMAIN groups : \A k \in DOMAIN groups[g] : groups[g][k].type \in OutTypes
  /\ \A k \in DOMAIN ct : ct[k].type \in CppTypes \cup {"garbage"}

(***************************************************************************)
(* Properties.                                                             *)
(***************************************************************************)
ColumnNames == {schema[k].name : k \in DOMAIN schema}
Plain == {select_columns[k].name : k \in DOMAIN select_columns}
PhiFuncs == {"avg", "sum", "count", "min", "max"}
KnownFuncs == PhiFuncs \cup {"AVG", "SUM", "COUNT", "MIN", "MAX"}

Numeric(agg) == Member(sales, MemberName(agg.column)) \in Numbers

\* What the model of the running program assumes of its query (PhiQuery's
\* ColumnsAssumption and AggregatesAssumption): V among the plain columns of S,
\* those in the table; F over the five functions, within 0..n and, except for
\* counts, over numbers; the aggregates of S in F.
FitsPhiQuery ==
  /\ Range(query.v) \subseteq Plain /\ Plain \subseteq ColumnNames
  /\ \A agg \in Range(query.f) :
       /\ agg.group \in 0 .. query.n /\ agg.func \in PhiFuncs /\ agg.column \in ColumnNames
       /\ agg.func # "count" => Numeric(agg)
  /\ Range(select_aggregates) \subseteq Range(query.f)

\* What g++ does not look at in an aggregate of F: a function in capitals or none
\* of the five, the column that a count names, a text that is averaged, added or
\* compared and that S does not print.
Unchecked(agg) ==
  \/ agg.func \notin PhiFuncs
  \/ agg.func = "count" /\ agg.column \notin ColumnNames
  \/ agg.func # "count" /\ agg \notin Range(select_aggregates) /\ ~Numeric(agg)

\* A program that g++ accepts meets what the model of the running program
\* assumes of its query, but for what g++ does not look at.
CompiledMeetsAssumptions ==
  pc = "compiled" /\ (\A agg \in Range(query.f) : ~Unchecked(agg)) => FitsPhiQuery

\* No column's name is part of another's, or of an aggregate function's.
NamesApart ==
  \A a \in ColumnNames : a \notin KnownFuncs /\ \A p \in Within : p[1] # a

\* vfind compares a grouping attribute, and the answer holds a column, with the
\* type that struct sales gives it.
SameTypes ==
  /\ \A k \in DOMAIN ct : getOutCppType(ct[k].type) = Member(sales, MemberName(ct[k].name))
  /\ \A k \in DOMAIN select_columns :
       LET name == MemberName(select_columns[k].name)
       IN  Member(mf_structure, name) = Member(sales, name)

\* The lookups by substring, by exact name and through ctype find the same type
\* when no name is part of another (get_ct, create_structures).
LookupsAgree == pc = "compiled" /\ NamesApart => SameTypes

\* A query as the test files write them, over a table of texts, integers and
\* doubles.
Sane ==
  /\ NamesApart
  /\ \A k \in DOMAIN schema :
       getType(schema[k].data_type) \in Texts \cup Whole \cup {"SQL_DOUBLE"}
  /\ query.v # <<>> /\ Range(query.v) \subseteq Plain /\ Plain \subseteq ColumnNames
  /\ Range(select_aggregates) \subseteq Range(query.f)
  /\ IsInjective(query.s) /\ IsInjective(query.f)
  /\ \A agg \in Range(query.f) :
       /\ agg.group <= query.n /\ agg.column \in ColumnNames
       /\ agg.func = "count" \/
            \E k \in DOMAIN schema :
              /\ schema[k].name = agg.column
              /\ getType(schema[k].data_type) \in Whole \cup {"SQL_DOUBLE"}

\* final writes a program for each of them, and g++ accepts its declarations.
SaneQueriesCompile == pc \in {"thrown", "refused"} => ~Sane
=============================================================================
