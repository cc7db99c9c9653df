------------------------------ MODULE Clauses -------------------------------
(***************************************************************************)
(* How parse_query reads the names and clauses of a query: Aggregate,      *)
(* Condition and Conditions cut them apart, Condition::toCpp and           *)
(* parse_having classify what they find and write the C++ expressions of   *)
(* the generated program.                                                  *)
(*                                                                         *)
(* A text is a sequence of lexical tokens: words, numbers, and one token   *)
(* for each character the code looks for.  No word contains another one    *)
(* (Declarations is about names that do).                                  *)
(***************************************************************************)
EXTENDS Str, SequencesExt, Functions

CONSTANTS
  Token,              \* words, numbers and characters
  Columns,            \* the names of the table's columns, texts
  TextColumns,        \* those of C++ type string
  Number,             \* the number tokens and their values
  Inputs              \* sets of queries [n, emf, F, S, sigma, G], cut as explode leaves them

VARIABLES
  pc, k,              \* the loop, and its index
  input,
  all_aggregates, select_columns, select_aggregates,   \* [group, func, column]
  select_conditions,  \* of each such-that line: [conditions, ops]
  clauses,            \* what get_selection_cond wrote for variables 1, 2, ...
  having              \* what parse_having wrote

Texts == Seq(Token)

vars == <<pc, k, input, all_aggregates, select_columns, select_aggregates,
          select_conditions, clauses, having>>

Init ==
  /\ pc = "aggregates" /\ k = 1 /\ \E queries \in Range(Inputs) : input \in queries
  /\ all_aggregates = <<>> /\ select_columns = <<>> /\ select_aggregates = <<>>
  /\ select_conditions = <<>> /\ clauses = <<>> /\ having = <<>>

-----------------------------------------------------------------------------
(***************************************************************************)
(* Names.                                                                  *)
(***************************************************************************)
isColumn(t) == t \in Columns

\* Some column's name is part of the text.
hasColumn(t) ==
  \E c \in Columns : \E p \in 1 .. Len(t) - Len(c) + 1 : SubSeq(t, p, p + Len(c) - 1) = c

isAggregate(t) == Holds(t, "_")

\* stoi and atoi skip blanks and read digits; without digits stoi throws and
\* atoi returns 0.
StartsWithNumber(t) == LET s == Stripped(t) IN s # <<>> /\ s[1] \in DOMAIN Number

atoi(t) == IF StartsWithNumber(t) THEN Number[Stripped(t)[1]] ELSE 0

NameParts(t) == Exploded(<<"_">>, t)

\* data->at(1) of the constructor, or c_explode itself.
AggregateThrows(t) == NameParts(t).how = "thrown" \/ Len(NameParts(t).parts) < 2

GroupForgotten_Mutant(t) ==
  LET data == NameParts(t).parts
  IN  [group |-> 0, func |-> data[Len(data) - 1], column |-> data[Len(data)]]

Aggregate(t) ==
  LET data == NameParts(t).parts
  IN  IF Len(data) = 3
      THEN [group |-> atoi(data[1]), func |-> data[2], column |-> data[3]]
      ELSE [group |-> 0, func |-> data[1], column |-> data[2]]

toVar(a) == a.func \o <<"_">> \o a.column

-----------------------------------------------------------------------------
(***************************************************************************)
(* Condition(cond): an optional variable and ".", a column, an operator, a *)
(* value.  The variable is kept in group and not used any further.         *)
(***************************************************************************)
OperatorChars == {"=", "<", ">", "!"}
LongOperators == {<<"<", "=">>, <<">", "=">>, <<"!", "=">>, <<"<", ">">>}

Prefixed(cond) == Holds(cond, ".")

Body(cond) == IF Prefixed(cond) THEN After(cond, First(cond, {"."})) ELSE cond

ConditionThrows(cond) ==
  \/ Prefixed(cond) /\ ~StartsWithNumber(Before(cond, First(cond, {"."})))
  \/ Range(Body(cond)) \cap OperatorChars = {}

OneCharOperators_Mutant(tmp, index) == <<tmp[index]>>

\* The operator that starts at the first operator character.
OperatorAt(tmp, index) ==
  IF index < Len(tmp) /\ SubSeq(tmp, index, index + 1) \in LongOperators
  THEN SubSeq(tmp, index, index + 1) ELSE <<tmp[index]>>

\* str_replace("'", "\"", t)
QuotesReplaced(t) == [p \in DOMAIN t |-> IF t[p] = "'" THEN "\"" ELSE t[p]]

Condition(cond) ==
  LET tmp   == Body(cond)
      index == First(tmp, OperatorChars)
      exp   == OperatorAt(tmp, index)
  IN  [group  |-> IF Prefixed(cond) THEN atoi(Before(cond, First(cond, {"."}))) ELSE 0,
       column |-> Before(tmp, index),
       exp    |-> IF exp = <<"<", ">">> THEN <<"!", "=">> ELSE exp,
       value  |-> QuotesReplaced(After(tmp, index + Len(exp) - 1))]

(***************************************************************************)
(* Conditions(conds): at single blanks; every second part is a connective. *)
(***************************************************************************)
LineParts(conds) ==
  IF Holds(conds, " ") THEN Exploded(<<" ">>, conds).parts ELSE <<conds>>

ConditionTexts(conds) ==
  [j \in 1 .. (Len(LineParts(conds)) + 1) \div 2 |-> LineParts(conds)[2 * j - 1]]

Ops(conds) == [j \in 1 .. Len(LineParts(conds)) \div 2 |-> LineParts(conds)[2 * j]]

ConditionsThrow(conds) == \E c \in Range(ConditionTexts(conds)) : ConditionThrows(c)

Conditions(conds) ==
  [conditions |-> [j \in DOMAIN ConditionTexts(conds) |-> Condition(ConditionTexts(conds)[j])],
   ops |-> Ops(conds)]

-----------------------------------------------------------------------------
(***************************************************************************)
(* Condition::toCpp.  The value is a column, else a name with an           *)
(* underscore, else something with a column in it, else copied.  A value   *)
(* with a quote is compared with compare() == 0, whatever the operator.    *)
(***************************************************************************)
Kind(value) ==
  CASE isColumn(value) -> "column"
    [] ~isColumn(value) /\ isAggregate(value) -> "aggregate"
    [] ~isColumn(value) /\ ~isAggregate(value) /\ hasColumn(value) -> "expr"
    [] OTHER -> "literal"

ToCppThrows(c) == Kind(c.value) = "aggregate" /\ AggregateThrows(c.value)

EqualityOnly_Mutant(c) ==
  [column |-> c.column,
   test   |-> IF Holds(c.value, "\"") THEN "compare" ELSE "operator",
   exp    |-> <<"=">>,
   kind   |-> Kind(c.value),
   value  |-> c.value,
   call   |-> Holds(c.value, "avg"),
   column_call |-> Holds(c.column, "avg")]

toCpp(c) ==
  [column |-> c.column,
   test   |-> IF Holds(c.value, "\"") THEN "compare" ELSE "operator",
   exp    |-> c.exp,                    \* with == for =
   kind   |-> Kind(c.value),
   value  |-> c.value,
   call   |-> Holds(c.value, "avg"),         \* .value() on an aggregate
   column_call |-> Holds(c.column, "avg")]   \* .value() on the column

LastOpKept_Mutant(cs) ==
  [conditions |-> [j \in DOMAIN cs.conditions |-> toCpp(cs.conditions[j])],
   ops |-> cs.ops]

\* Conditions::toCpp: the connectives between the conditions, no others.
ClauseToCpp(cs) ==
  [conditions |-> [j \in DOMAIN cs.conditions |-> toCpp(cs.conditions[j])],
   ops |-> SubSeq(cs.ops, 1, Len(cs.conditions) - 1)]

(***************************************************************************)
(* parse_having: each part becomes a field at pos, data->column, or itself.*)
(***************************************************************************)
HavingParts == Exploded(<<" ">>, input.G).parts

HavingThrows == \E t \in Range(HavingParts) : isAggregate(t) /\ AggregateThrows(t)

AlwaysVariableZero_Mutant(t) ==
  IF isAggregate(t)
  THEN [kind |-> "aggregate", group |-> 0, text |-> toVar(Aggregate(t)),
        call |-> Aggregate(t).func \in {<<"avg">>, <<"AVG">>}]
  ELSE [kind |-> IF isColumn(t) THEN "column" ELSE "copied", group |-> 0, text |-> t,
        call |-> FALSE]

HavingItem(t) ==
  IF isAggregate(t)
  THEN [kind |-> "aggregate", group |-> Aggregate(t).group, text |-> toVar(Aggregate(t)),
        call |-> Aggregate(t).func \in {<<"avg">>, <<"AVG">>}]
  ELSE [kind |-> IF isColumn(t) THEN "column" ELSE "copied", group |-> 0, text |-> t,
        call |-> FALSE]

-----------------------------------------------------------------------------
(***************************************************************************)
(* parse_query and Scan_Generator::generate, in the order of their calls.  *)
(***************************************************************************)
GetAggregate ==
  /\ pc = "aggregates" /\ k <= Len(input.F)
  /\ ~AggregateThrows(input.F[k])
  /\ all_aggregates' = Append(all_aggregates, Aggregate(input.F[k]))
  /\ k' = k + 1
  /\ UNCHANGED <<pc, input, select_columns, select_aggregates, select_conditions, clauses, having>>

SelectAttribute ==
  /\ pc = "attributes" /\ k <= Len(input.S)
  /\ IF isAggregate(input.S[k])
     THEN /\ ~AggregateThrows(input.S[k])
          /\ select_aggregates' = Append(select_aggregates, Aggregate(input.S[k]))
          /\ UNCHANGED select_columns
     ELSE /\ select_columns' = Append(select_columns, input.S[k])
          /\ UNCHANGED select_aggregates
  /\ k' = k + 1
  /\ UNCHANGED <<pc, input, all_aggregates, select_conditions, clauses, having>>

GetConditions ==
  /\ pc = "conditions" /\ k <= Len(input.sigma)
  /\ ~ConditionsThrow(input.sigma[k])
  /\ select_conditions' = Append(select_conditions, Conditions(input.sigma[k]))
  /\ k' = k + 1
  /\ UNCHANGED <<pc, input, all_aggregates, select_columns, select_aggregates, clauses, having>>

\* group_aggregates throws for a variable beyond n.
GroupsFit == \A a \in Range(all_aggregates) : a.group <= input.n

\* select_conditions->at(k - 1), conditions->at(0).
ClauseExists ==
  k <= Len(select_conditions) /\ select_conditions[k].conditions # <<>>

GetSelectionCond ==
  /\ pc = "scans" /\ k <= input.n
  /\ GroupsFit /\ ClauseExists
  /\ \A c \in Range(select_conditions[k].conditions) : ~ToCppThrows(c)
  /\ clauses' = Append(clauses, ClauseToCpp(select_conditions[k]))
  /\ k' = k + 1
  /\ UNCHANGED <<pc, input, all_aggregates, select_columns, select_aggregates,
                 select_conditions, having>>

LoopEnd ==
  /\ \/ pc = "aggregates" /\ k > Len(input.F)     /\ pc' = "attributes"
     \/ pc = "attributes" /\ k > Len(input.S)     /\ pc' = "conditions"
     \/ pc = "conditions" /\ k > Len(input.sigma) /\ pc' = "scans"
     \/ pc = "scans" /\ k > input.n /\ GroupsFit  /\ pc' = "having"
  /\ k' = 1
  /\ UNCHANGED <<input, all_aggregates, select_columns, select_aggregates,
                 select_conditions, clauses, having>>

ParseHaving ==
  /\ pc = "having"
  /\ ~HavingThrows
  /\ having' = IF input.G = <<>> THEN <<>>
               ELSE [j \in DOMAIN HavingParts |-> HavingItem(HavingParts[j])]
  /\ pc' = "generated"
  /\ UNCHANGED <<k, input, all_aggregates, select_columns, select_aggregates,
                 select_conditions, clauses>>

\* An exception nobody catches, or the null vector of a query with n > 0 and
\* no line.  No file has been written yet.
Abort ==
  /\ \/ pc = "aggregates" /\ k <= Len(input.F) /\ AggregateThrows(input.F[k])
     \/ pc = "attributes" /\ k <= Len(input.S)
          /\ isAggregate(input.S[k]) /\ AggregateThrows(input.S[k])
     \/ pc = "conditions" /\ k <= Len(input.sigma) /\ ConditionsThrow(input.sigma[k])
     \/ pc = "scans" /\ ~GroupsFit
     \/ pc = "scans" /\ k <= input.n /\ ~ClauseExists
     \/ pc = "scans" /\ k <= input.n /\ ClauseExists
          /\ \E c \in Range(select_conditions[k].conditions) : ToCppThrows(c)
     \/ pc = "having" /\ HavingThrows
  /\ pc' = "aborted"
  /\ UNCHANGED <<k, input, all_aggregates, select_columns, select_aggregates,
                 select_conditions, clauses, having>>

-----------------------------------------------------------------------------
(***************************************************************************)
(* What g++ does with the result.  It also accepts values with parentheses *)
(* or with other names that are in scope, and copied HAVING words of that  *)
(* kind; these count as refused, so nothing is said of them.  Types are    *)
(* left to Declarations.                                                   *)
(***************************************************************************)
Punctuation == OperatorChars \cup BlankChars \cup {".", "'", "\"", "+", "-", "*", "/"}

Identifier(t) ==
  LET s == Stripped(t)
  IN  s # <<>> /\ s[1] \notin DOMAIN Number /\ Range(s) \cap Punctuation = {}

Field(a) == [group |-> a.group, name |-> Stripped(toVar(a))]

HavingField(x) == [group |-> x.group, name |-> Stripped(x.text)]

\* `.value()` is a member of Average and of nothing else.
FieldCompiles(field, call) ==
  \E b \in Range(all_aggregates) :
    Field(b) = field /\ call = (b.func \in {<<"avg">>, <<"AVG">>})

\* An operator and a number, any number of times.
Arithmetic(t) ==
  \A p \in DOMAIN t : t[p] \in IF p % 2 = 0 THEN DOMAIN Number
                                ELSE {"+", "-", "*", "/", "."} \cup OperatorChars

NumberCompiles(v) ==
  LET u == IF v # <<>> /\ v[1] \in {"+", "-"} THEN Tail(v) ELSE v
  IN  Len(u) % 2 = 1 /\ u[1] \in DOMAIN Number /\ Arithmetic(Tail(u))

TextCompiles(v) ==
  /\ Len(v) >= 2 /\ v[1] = "\"" /\ v[Len(v)] = "\""
  /\ \A p \in 2 .. Len(v) - 1 : v[p] # "\""

ConditionCompiles(c) ==
  LET v == Stripped(c.value)
      text == Stripped(c.column) \in TextColumns
  IN  /\ Stripped(c.column) \in Columns
      /\ c.exp # <<"!">>
      /\ ~c.column_call                                  \* no column is an Average
      /\ c.kind \in {"column", "expr"} => input.emf      \* (*xt) is declared
      /\ CASE c.kind = "column"    -> (v \in TextColumns) = text
           [] c.kind = "aggregate" -> /\ c.test = "operator" /\ ~text
                                      /\ FieldCompiles(Field(Aggregate(c.value)), c.call)
           [] c.kind = "expr"      -> /\ c.test = "operator"
                                      /\ \E p \in 1 .. Len(v) :
                                           /\ SubSeq(v, 1, p) \in Columns
                                           /\ (SubSeq(v, 1, p) \in TextColumns) = text
                                           /\ Len(v) > p => ~text /\ v[p + 1] # "."
                                           /\ (Len(v) - p) % 2 = 0
                                           /\ Arithmetic(SubSeq(v, p + 1, Len(v)))
           [] c.kind = "literal"   -> IF c.test = "compare" THEN text /\ TextCompiles(v)
                                      ELSE ~text /\ NumberCompiles(v)

Connectives == {<<"and">>, <<"or">>, <<"xor">>}

ClauseCompiles(clause) ==
  /\ \A c \in Range(clause.conditions) : ConditionCompiles(c)
  /\ \A op \in Range(clause.ops) : Stripped(op) \in Connectives

HavingOperators ==
  Connectives \cup {<<"=">>, <<"=", "=">>, <<"<">>, <<">">>, <<"<", "=">>, <<">", "=">>, <<"!", "=">>,
                    <<"+">>, <<"-">>, <<"*">>, <<"/">>}

\* `=` is the assignment of C++ and binds weakest: before it is one field, that is
\* not a call, and nothing else but more of these assignments.
AssignmentCompiles(seen, j) ==
  /\ seen[j - 1].kind = "aggregate" /\ ~seen[j - 1].call
  /\ j > 2 => Stripped(seen[j - 2].text) = <<"=">>

\* The r-th number of a finite set.
Nth(S, r) == CHOOSE p \in S : Cardinality({q \in S : q <= p}) = r

\* The parts with something in them; an empty part adds nothing.
SeenParts == {j \in DOMAIN having : Stripped(having[j].text) # <<>>}

Seen == [r \in 1 .. Cardinality(SeenParts) |-> having[Nth(SeenParts, r)]]

\* Operands and operators take turns.
HavingCompiles ==
  LET seen == Seen
  IN  /\ input.G = <<>> \/ Len(seen) % 2 = 1
      /\ \A j \in DOMAIN seen :
           IF j % 2 = 0
           THEN /\ seen[j].kind = "copied" /\ Stripped(seen[j].text) \in HavingOperators
                /\ Stripped(seen[j].text) = <<"=">> => AssignmentCompiles(seen, j)
           ELSE \/ seen[j].kind = "copied" /\ NumberCompiles(Stripped(seen[j].text))
                \/ seen[j].kind = "aggregate"
                     /\ FieldCompiles(HavingField(seen[j]), seen[j].call)

NamesCompile ==
  /\ \A a \in Range(all_aggregates) :
       Identifier(toVar(a)) /\ (a.func = <<"count">> \/ hasColumn(a.column))
  /\ \A a \in Range(select_aggregates) :
       \E b \in Range(all_aggregates) : Field(b) = Field(a)
  /\ \A c \in Range(select_columns) : Stripped(c) \in Columns

Compile ==
  /\ pc = "generated"
  /\ pc' = IF NamesCompile /\ HavingCompiles /\ \A i \in DOMAIN clauses : ClauseCompiles(clauses[i])
           THEN "accepted" ELSE "refused"
  /\ UNCHANGED <<k, input, all_aggregates, select_columns, select_aggregates,
                 select_conditions, clauses, having>>

Next ==
  \/ GetAggregate \/ SelectAttribute \/ GetConditions \/ GetSelectionCond
  \/ LoopEnd \/ ParseHaving \/ Abort \/ Compile

Spec == Init /\ [][Next]_vars

-----------------------------------------------------------------------------
AggregateObjects == [group : Nat, func : Texts, column : Texts]

TypeOK ==
  /\ pc \in {"aggregates", "attributes", "conditions", "scans", "having", "generated",
             "aborted", "accepted", "refused"}
  /\ k \in Nat
  /\ all_aggregates \in Seq(AggregateObjects) /\ select_aggregates \in Seq(AggregateObjects)
  /\ select_columns \in Seq(Texts)
  /\ \A cs \in Range(select_conditions) :
       /\ cs.ops \in Seq(Texts)
       /\ Len(cs.conditions) - Len(cs.ops) \in {0, 1}
       /\ cs.conditions \in Seq([group : Nat, column : Texts, exp : Texts, value : Texts])
  /\ Len(clauses) <= input.n
  /\ \A clause \in Range(clauses) : Len(clause.ops) = Len(clause.conditions) - 1

(***************************************************************************)
(* What the proofs need of the constants: the texts are texts, trim's      *)
(* blanks, numbers are tokens of their own, and the columns are            *)
(* identifiers, which `and`, `or` and `xor` are not in C++.                *)
(***************************************************************************)
Funcs == {"avg", "sum", "count", "min", "max"}

ASSUME BlankAssumption == " " \in BlankChars /\ BlankChars \subseteq {" ", "\n", "\r"}

ASSUME TokenAssumption == Punctuation \cup Funcs \cup {"_"} \subseteq Token

ASSUME NumberAssumption ==
  /\ DOMAIN Number \subseteq Token \ (Punctuation \cup Funcs \cup {"_"})
  /\ Number \in [DOMAIN Number -> Nat]

ASSUME ColumnAssumption ==
  /\ TextColumns \subseteq Columns /\ Columns \subseteq Texts
  /\ \A c \in Columns : /\ c # <<>> /\ c[1] \notin DOMAIN Number /\ c \notin Connectives
                        /\ Range(c) \cap Punctuation = {}

ASSUME InputAssumption ==
  \A queries \in Range(Inputs) :
    queries \subseteq [n : Nat, emf : BOOLEAN, F : Seq(Texts), S : Seq(Texts),
                      sigma : Seq(Texts), G : Texts]

-----------------------------------------------------------------------------
(***************************************************************************)
(* How the test queries write names and clauses, as a grammar: the         *)
(* reference the parsing is compared with.                                 *)
(***************************************************************************)
\* The aggregates that t names: group_func_column, or func_column for variable 0.
Objects == [group : {0} \cup Range(Number), func : {<<f>> : f \in Funcs},
            column : {c \in Columns : ~isAggregate(c)}]

Named(t) ==
  {a \in Objects : \/ a.group = 0 /\ t = toVar(a)
                   \/ \E d \in DOMAIN Number :
                        Number[d] = a.group /\ t = <<d, "_">> \o toVar(a)}

\* The kinds of value a condition may have, each with how it is written.
WrittenAs(kind, v) ==
  CASE kind = "column"    -> v \in Columns
    [] kind = "aggregate" -> Named(v) # {}
    [] kind = "expr"      -> \E p \in 1 .. Len(v) - 1 :
                               /\ SubSeq(v, 1, p) \in Columns \ TextColumns
                               /\ v[p + 1] # "." /\ (Len(v) - p) % 2 = 0
                               /\ Arithmetic(SubSeq(v, p + 1, Len(v)))
                               /\ Range(v) \cap OperatorChars = {}
    [] kind = "number"    -> NumberCompiles(v) /\ Range(v) \cap OperatorChars = {}
    [] kind = "text"      -> /\ Len(v) >= 2 /\ v[1] = "'" /\ v[Len(v)] = "'"
                             /\ \A p \in 2 .. Len(v) - 1 : v[p] # "'"

Kinds == {"column", "aggregate", "expr", "number", "text"}

\* The ways to read a condition: [prefix,] column, operator, value.
Readings(t) ==
  LET prefixes == {<<>>} \cup {<<d, ".">> : d \in DOMAIN Number}
      exps == LongOperators \cup {<<"=">>, <<"<">>, <<">">>}
      heads == {r \in [prefix : prefixes, column : Columns, exp : exps] :
                  IsPrefix(r.prefix \o r.column \o r.exp, t)}
      Rest(r) == SubSeq(t, Len(r.prefix \o r.column \o r.exp) + 1, Len(t))
  IN  {[prefix |-> hk[1].prefix, column |-> hk[1].column, exp |-> hk[1].exp,
        kind |-> hk[2], value |-> Rest(hk[1])] :
         hk \in {h \in heads \X Kinds : WrittenAs(h[2], Rest(h[1]))}}

\* The words between blanks.
Starts(t) == {p \in DOMAIN t : t[p] \notin BlankChars /\ (p > 1 => t[p - 1] \in BlankChars)}

Stop(t, p) == Max({q \in p .. Len(t) : \A r \in p .. q : t[r] \notin BlankChars})

Words(t) ==
  [r \in 1 .. Cardinality(Starts(t)) |->
     LET p == Nth(Starts(t), r) IN SubSeq(t, p, Stop(t, p))]

\* One condition of the generated clause says what the reading r says.
Says(c, r) ==
  /\ Stripped(c.column) = r.column
  /\ Stripped(c.value) = QuotesReplaced(r.value)
  /\ IF r.kind = "text" THEN c.test = "compare" /\ r.exp = <<"=">>
     ELSE c.test = "operator" /\ c.exp = IF r.exp = <<"<", ">">> THEN <<"!", "=">> ELSE r.exp
  /\ CASE r.kind = "column"    -> c.kind \in {"column", "expr"}
       [] r.kind = "expr"      -> c.kind = "expr"
       [] r.kind = "aggregate" -> /\ c.kind = "aggregate"
                                  /\ \E a \in Named(r.value) : Field(Aggregate(c.value)) = Field(a)
       [] OTHER                -> c.kind = "literal"

(***************************************************************************)
(* Where the code departs from the grammar and g++ does not notice.        *)
(***************************************************************************)
\* a<b<c is an expression of C++.
Chained(w) ==
  \E p, q \in DOMAIN w : /\ p < q /\ {w[p], w[q]} \subseteq OperatorChars
                         /\ q = p + 1 => SubSeq(w, p, q) \notin LongOperators

\* A text is compared for equality, whatever the operator; a text in the
\* quotes of C++ is copied.
OtherThanEqual(w) ==
  \/ Holds(w, "\"")
  \/ /\ Holds(w, "'") /\ Range(w) \cap OperatorChars # {}
     /\ OperatorAt(w, First(w, OperatorChars)) # <<"=">>

\* The variable of the prefix, or what stoi reads of it, is ignored: the clause
\* is the line's.
OfAnother(w, i) ==
  Prefixed(w) /\ Before(w, First(w, {"."})) \notin {<<d>> : d \in {e \in DOMAIN Number : Number[e] = i}}

\* One underscore, or two and a number before the first.
Regular(t) ==
  LET underscores == {p \in DOMAIN t : t[p] = "_"}
  IN  /\ Range(t) \cap BlankChars = {}
      /\ \E p \in DOMAIN t : \/ underscores = {p}
                             \/ underscores = {2, p} /\ t[1] \in DOMAIN Number

\* Of other names, some parts are not read: a variable that is not a number is
\* variable 0, a fourth part is left out.  And a name that F declares with a
\* function the code does not know is a field all the same.
Misnamed(t) ==
  isAggregate(t) /\ ~(Regular(t) /\ \A f \in Range(input.F) : Named(f) # {})

ValueText(w) == SubSeq(w, Max({0} \cup {p \in DOMAIN w : w[p] \in OperatorChars}) + 1, Len(w))

Departs(w, i) == Chained(w) \/ OtherThanEqual(w) \/ OfAnother(w, i) \/ Misnamed(ValueText(w))

\* No line break but at the end: the code cuts at spaces only.
OneLine(t) ==
  \A p \in DOMAIN t : t[p] \in BlankChars \ {" "} => Blank(SubSeq(t, p, Len(t)))

-----------------------------------------------------------------------------
\* A program that compiles tests the conditions of the such-that lines as they
\* are written, all of them, in their order and with their connectives: what
\* Condition or toCpp misread is thrown out or refused by g++.  A connective
\* with nothing after it is dropped.
ClausesAsWritten ==
  pc = "accepted" =>
    \A i \in 1 .. input.n :
      LET w == Words(input.sigma[i])
          m == (Len(w) + 1) \div 2
      IN  OneLine(input.sigma[i]) /\ (\A j \in DOMAIN w : ~Departs(w[j], i)) =>
            /\ Len(clauses[i].conditions) = m
            /\ \A j \in 1 .. m :
                 \E r \in Readings(w[2 * j - 1]) : Says(clauses[i].conditions[j], r)
            /\ \A j \in 1 .. m - 1 : Stripped(clauses[i].ops[j]) = w[2 * j]

\* A program that compiles prints the columns and aggregates of S, each with
\* the variable, the function and the column its name says; the name of a
\* column with an underscore, which is taken for an aggregate, never compiles.
NamesAsWritten ==
  pc = "accepted" =>
    LET names == {j \in DOMAIN input.S : isAggregate(input.S[j])}
        columns == DOMAIN input.S \ names
    IN  /\ Len(select_aggregates) = Cardinality(names)
        /\ Len(select_columns) = Cardinality(columns)
        /\ \A r \in DOMAIN select_aggregates :
             LET t == Stripped(input.S[Nth(names, r)])
             IN  ~Misnamed(t) => \E a \in Named(t) : Field(select_aggregates[r]) = Field(a)
        /\ \A r \in DOMAIN select_columns :
             /\ select_columns[r] = input.S[Nth(columns, r)]
             /\ Stripped(select_columns[r]) \in Columns

\* A program that compiles evaluates HAVING word by word: an aggregate's name
\* stands for that aggregate, with value() for an average, and everything else
\* for itself in C++.  So `=` never compares: it sets the aggregate before it,
\* and g++ lets it pass only at the front and when that is no average.
HavingAsWritten ==
  pc = "accepted" /\ OneLine(input.G) =>
    LET w == Words(input.G)
    IN  /\ Len(Seen) = Len(w)
        /\ \A j \in DOMAIN w :
             /\ ~isAggregate(w[j]) => Seen[j].kind = "copied" /\ Stripped(Seen[j].text) = w[j]
             /\ isAggregate(w[j]) /\ ~Misnamed(w[j]) =>
                  /\ Seen[j].kind = "aggregate"
                  /\ \E a \in Named(w[j]) : /\ HavingField(Seen[j]) = Field(a)
                                            /\ Seen[j].call = (a.func = <<"avg">>)
             /\ w[j] = <<"=">> =>
                  /\ j > 1 /\ isAggregate(w[j - 1]) /\ (j > 2 => w[j - 2] = <<"=">>)
                  /\ ~Misnamed(w[j - 1]) => \E a \in Named(w[j - 1]) : a.func # <<"avg">>

(***************************************************************************)
(* Queries in the style of the test files.                                 *)
(***************************************************************************)
InF(t) == \E f \in Range(input.F) : Named(t) \cap Named(f) # {}

SaneCondition(w, i) ==
  \E r \in Readings(w) :
    /\ ~Holds(r.column, "avg")
    /\ r.prefix # <<>> => Number[r.prefix[1]] = i
    /\ r.prefix = <<>> => ~Holds(w, ".")
    /\ r.kind \in {"column", "expr"} => input.emf
    /\ CASE r.kind = "column"    -> (r.value \in TextColumns) = (r.column \in TextColumns)
         [] r.kind = "aggregate" -> /\ InF(r.value) /\ r.column \notin TextColumns
                                    /\ r.value \notin Columns
                                    /\ \A a \in Named(r.value) : ~Holds(a.column, "avg")
         [] r.kind = "text"      -> /\ r.column \in TextColumns
                                    /\ ~hasColumn(r.value) /\ ~isAggregate(r.value)
                                    /\ ~Holds(r.value, ".") /\ ~Holds(r.value, "\"")
         [] r.kind = "number"    -> r.column \notin TextColumns
         [] r.kind = "expr"      -> r.column \notin TextColumns /\ ~isAggregate(r.value)

\* Words separated by single spaces.
Tidy(t) ==
  \A p \in DOMAIN t : t[p] \in BlankChars =>
    t[p] = " " /\ p > 1 /\ t[p - 1] \notin BlankChars /\ p < Len(t)

\* Conditions and connectives in turn.
SaneLine(t, i) ==
  LET w == Words(t)
  IN  /\ Tidy(t) /\ Len(w) % 2 = 1
      /\ \A j \in DOMAIN w : IF j % 2 = 1 THEN SaneCondition(w[j], i) ELSE w[j] \in Connectives

\* As in test/example5: 2_count_prod = 1_count_prod / 2.
SaneAssignment(w, j) ==
  /\ InF(w[j - 1]) /\ \A a \in Named(w[j - 1]) : a.func # <<"avg">>
  /\ j > 2 => w[j - 2] = <<"=">>

\* Operands and operators in turn; the line may still have its end.
SaneHaving(t) ==
  LET w == Words(t)
  IN  t # <<>> =>
      /\ \/ Tidy(t)
         \/ Tidy(SubSeq(t, 1, Len(t) - 1)) /\ t[Len(t)] \in BlankChars \ {" "}
      /\ Len(w) % 2 = 1
      /\ \A j \in DOMAIN w :
           IF j % 2 = 0
           THEN w[j] \in HavingOperators /\ (w[j] = <<"=">> => SaneAssignment(w, j))
           ELSE InF(w[j]) \/ w[j] \in {<<d>> : d \in DOMAIN Number}

SaneInput ==
  /\ \A t \in Range(input.F) : \E a \in Named(t) : a.group <= input.n
  /\ \A t \in Range(input.S) : IF isAggregate(t) THEN InF(t) ELSE t \in Columns
  /\ Len(input.sigma) = input.n
  /\ \A i \in DOMAIN input.sigma : SaneLine(input.sigma[i], i)
  /\ SaneHaving(input.G)

\* A query written like the test queries is neither thrown out nor refused
\* for the way its names and clauses are read.
SaneQueriesRead == pc \in {"aborted", "refused"} => ~SaneInput

\* condition.h:27, "Converts this condition into a C++ expression": a condition
\* on a text column tests what its operator says.
StringsAsWritten ==
  pc = "accepted" =>
    \A i \in DOMAIN clauses : \A c \in Range(clauses[i].conditions) :
      c.test = "compare" => c.exp = <<"=">>
=============================================================================
