----------------------------- MODULE MCClauses ------------------------------
(***************************************************************************)
(* Texts for TLC: every short token sequence as a such-that line, lines    *)
(* put together from conditions, connectives and blanks, and lists of      *)
(* names and HAVING clauses with right and wrong names.                    *)
(***************************************************************************)
EXTENDS Clauses

CONSTANTS
  MaxTokens,          \* bound: tokens of an arbitrary condition
  MaxPieces,          \* bound: pieces of a such-that line
  MaxWords            \* bound: words of HAVING

Blanks == {" ", "\n"}
Digits == [one |-> 1, two |-> 2, zero |-> 0]
Table == {<<"month">>, <<"state">>, <<"ship", "_", "date">>, <<"avg", "ship">>}
TextNames == {<<"state">>}

AllTokens ==
  Punctuation \cup Funcs \cup DOMAIN Number \cup UNION {Range(c) : c \in Columns}
    \cup {"_", "and", "or", "total"}

Tokens == {"month", "state", "one", "avg", "_", ".", "=", "<", "'", "+"}

\* The names every input declares.
Declared == << <<"avg", "_", "month">>, <<"one", "_", "avg", "_", "month">> >>
Plain == << <<"state">> >>

Query(n, emf, F, S, sigma, G) ==
  [n |-> n, emf |-> emf, F |-> F, S |-> S, sigma |-> sigma, G |-> G]

AnyCondition ==
  {Query(1, TRUE, Declared, Plain, <<t>>, <<>>) : t \in SeqOf(Tokens, MaxTokens)}

\* Longer conditions: prefixes, two-character operators, aggregates, texts.
Prefixes2 == {<<>>, <<"one", ".">>, <<"two", ".">>, <<"avg", ".">>, <<"one", "month", ".">>}
Heads == Columns
Exps == LongOperators \cup {<<"=">>, <<">">>, <<"!">>, <<"=", "<">>}
Values ==
  {<<"month">>, <<"state">>, <<"ship", "_", "date">>, <<"month", "-", "one">>,
   <<"ship", "_", "date", "+", "one">>, <<"one", "_", "avg", "_", "month">>,
   <<"two", "_", "avg", "_", "month">>, <<"state", "_", "avg", "_", "month">>,
   <<"zero", "_", "avg", "_", "month">>, <<"one", "_", "sum", "_", "ship", "_", "date">>,
   <<"two">>, <<"one", "*", "two">>, <<"one", ".", "two">>, <<"'", "two", "'">>, <<"'", "state", "'">>,
   <<"'", "avg", "_", "month", "'">>, <<"'", "one", ".", "two", "'">>, <<"avg", "_">>,
   <<"month", "+", "one", "-", "two">>, <<"month", ".", "one">>, <<"\"", "two", "\"">>,
   <<"avg", "_", "month", "_", "one", "_", "two">>}
BuiltCondition ==
  {Query(1, emf, Declared, Plain, <<p \o h \o e \o v>>, <<>>) :
     p \in Prefixes2, h \in Heads, e \in Exps, v \in Values, emf \in BOOLEAN}

\* Lines: pieces in any order.
Pieces == {<<"one", ".", "month", ">", "two">>, <<"state", "=", "'", "two", "'">>,
           <<" ", "and", " ">>, <<" ", "or", " ">>, <<"and">>, <<" ">>}
AnyLine ==
  {Query(1, FALSE, Declared, Plain, <<FlattenSeq(ps)>>, <<>>) : ps \in SeqOf(Pieces, MaxPieces)}

\* Names in S and F, in the right and in wrong forms, and too few lines.
SomeNames ==
  {<<"month">>, <<"ship", "_", "date">>, <<"avg", "_", "month">>, <<"avg">>, <<"avg", "_">>,
   <<"one", "_", "avg", "_", "month">>, <<"two", "_", "avg", "_", "month">>,
   <<"one", "_", "count", "_", "state">>, <<"avg", "_", "ship", "_", "date">>,
   <<"one", "_", "avg", "_", "ship", "_", "date">>, <<"state", "_", "avg", "_", "month">>,
   <<" ", "avg", "_", "month">>, <<"one", "_", " ", "avg", "_", "month">>,
   <<"avg", "_", "month", "_">>, <<"total", "_", "month">>}
AnyNames ==
  {Query(n, FALSE, <<f, <<"one", "_", "avg", "_", "month">>>>, <<s, t>>, <<<<"month", ">", "one">>>>, <<>>) :
     n \in 0 .. 2, f, s, t \in SomeNames}

\* HAVING: operands and operators with their blanks, in any order, and longer
\* ones that take turns.
Operands ==
  {<<"one", "_", "avg", "_", "month">>, <<"avg", "_", "month">>, <<"two", "_", "avg", "_", "month">>,
   <<"one", "_", "count", "_", "month">>, <<"month">>, <<"two">>}
Operators == {<<" ", ">", " ">>, <<" ", "=", " ">>, <<" ", "and", " ">>}
HavingWords == Operands \cup Operators \cup {<<" ">>, <<"\n">>, <<"avg", "_">>}
HavingTexts ==
  {FlattenSeq(ws) : ws \in SeqOf(HavingWords, MaxWords)}
    \cup {a \o o \o b \o q \o c : a, b, c \in Operands, o, q \in Operators}
AnyHaving ==
  {Query(1, FALSE, Declared \o << <<"one", "_", "count", "_", "month">> >>, Plain,
         <<<<"month", ">", "one">>>>, t \o end) :
     t \in HavingTexts, end \in {<<>>, <<"\n">>}}

MCInputs == <<AnyCondition, BuiltCondition, AnyLine, AnyNames, AnyHaving>>
=============================================================================
