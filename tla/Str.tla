-------------------------------- MODULE Str ---------------------------------
(***************************************************************************)
(* The string functions of lib/str.cpp that the parsing of a query uses.   *)
(* A string is a sequence: of characters in Explode, of lexical tokens in  *)
(* Clauses, where what is searched for is always a token of its own.       *)
(***************************************************************************)
EXTENDS Integers, Sequences, FiniteSetsExt

CONSTANTS
  BlankChars          \* '\n', '\r' and ' '

\* trim(s).size() > 0
Blank(s) == \A k \in DOMAIN s : s[k] \in BlankChars

Holds(s, c) == \E k \in DOMAIN s : s[k] = c

\* s.find(c): the first position, counted from 1.
First(s, cs) == Min({k \in DOMAIN s : s[k] \in cs})

Before(s, p) == SubSeq(s, 1, p - 1)
After(s, p) == SubSeq(s, p + 1, Len(s))

\* The text without the blanks at its ends, which C++ does not see.
Stripped(s) ==
  IF Blank(s) THEN <<>>
  ELSE LET seen == {k \in DOMAIN s : s[k] \notin BlankChars}
       IN  SubSeq(s, Min(seen), Max(seen))

(***************************************************************************)
(* What explode(q, s) and c_explode(q, s) return for a non-empty q: after  *)
(* a cut the search starts at the second character of the rest, a          *)
(* delimiter at the very end is not found, and a rest shorter than the     *)
(* delimiter wraps the loop bound around, so that substr or at throws.     *)
(***************************************************************************)
Exploded(q, s) ==
  LET from[k \in 1 .. Len(s) + 1] ==
        LET start == IF k = 1 THEN 1 ELSE k + 1
            hits == {h \in start .. Len(s) - Len(q) : SubSeq(s, h, h + Len(q) - 1) = q}
            rest == SubSeq(s, k, Len(s))
        IN  IF hits # {}
            THEN LET tail == from[Min(hits) + Len(q)]
                 IN  [tail EXCEPT !.parts = <<SubSeq(s, k, Min(hits) - 1)>> \o @]
            ELSE IF Len(rest) < Len(q) THEN [how |-> "thrown", parts |-> <<>>]
            ELSE [how |-> "returned", parts |-> IF Blank(rest) THEN <<>> ELSE <<rest>>]
  IN  from[1]
=============================================================================
