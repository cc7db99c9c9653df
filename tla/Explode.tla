------------------------------ MODULE Explode -------------------------------
(***************************************************************************)
(* explode and c_explode of lib/str.cpp, which cut every operand of a      *)
(* query into its parts: S, V and F at ", ", the such-that lines at "\n",  *)
(* conditions and HAVING at ' ', aggregate names at '_'.  One action per   *)
(* loop iteration.  A string is a sequence of characters; i counts from 0, *)
(* as in the code, and size_t arithmetic is modulo SizeMod.                *)
(***************************************************************************)
EXTENDS Str

CONSTANTS
  Char,               \* the characters
  Subjects,           \* the strings that may be passed
  Delimiters,         \* the delimiters explode may be given
  SizeMod             \* 2^w, the range of size_t

\* A string is shorter than the address space (max_size); callers pass a delimiter.
ASSUME SizeAssumption ==
  /\ SizeMod \in Nat
  /\ Subjects \subseteq Seq(Char) /\ Delimiters \subseteq Seq(Char)
  /\ \A s \in Subjects : Len(s) < SizeMod
  /\ \A q \in Delimiters : 0 < Len(q) /\ Len(q) + 1 < SizeMod

VARIABLES
  fn,                 \* which of the two functions runs
  quan, subject,      \* its arguments
  subj,               \* what is left of the subject
  slength,            \* its length, as the loop condition sees it
  i,                  \* the loop index
  out,                \* the parts so far
  pc                  \* "loop", "returned", "null" (a null pointer), "thrown"

vars == <<fn, quan, subject, subj, slength, i, out, pc>>

Init ==
  /\ fn \in {"explode", "c_explode"}
  /\ quan \in Delimiters /\ (fn = "c_explode" => Len(quan) = 1)
  /\ subject \in Subjects
  /\ subj = subject /\ slength = Len(subject)
  /\ i = 0 /\ out = <<>>
  /\ pc = IF fn = "explode" /\ subject = <<>> THEN "null" ELSE "loop"

\* slength - qlength, both size_t.
LoopBound == (slength - Len(quan)) % SizeMod

\* subj.substr(i, qlength) needs i <= size, subj.at(i) needs i < size.
InRange == IF fn = "explode" THEN i <= Len(subj) ELSE i < Len(subj)

\* substr stops at the end of the string.
Matches == SubSeq(subj, i + 1, i + Len(quan)) = quan

Throw ==
  /\ pc = "loop" /\ i < LoopBound
  /\ ~InRange
  /\ pc' = "thrown"
  /\ UNCHANGED <<fn, quan, subject, subj, slength, i, out>>

NoIncrement_Mutant ==
  /\ pc = "loop" /\ i < LoopBound
  /\ InRange /\ (i + Len(quan) <= Len(subj) => ~Matches)
  /\ UNCHANGED vars

Skip ==
  /\ pc = "loop" /\ i < LoopBound
  /\ InRange /\ (i + Len(quan) <= Len(subj) => ~Matches)
  /\ i' = i + 1
  /\ UNCHANGED <<fn, quan, subject, subj, slength, out, pc>>

StaleLength_Mutant ==
  /\ pc = "loop" /\ i < LoopBound
  /\ i + Len(quan) <= Len(subj) /\ Matches
  /\ out' = Append(out, SubSeq(subj, 1, i))
  /\ subj' = SubSeq(subj, i + Len(quan) + 1, Len(subj))
  /\ i' = 1
  /\ UNCHANGED <<fn, quan, subject, slength, pc>>

IndexKept_Mutant ==
  /\ pc = "loop" /\ i < LoopBound
  /\ i + Len(quan) <= Len(subj) /\ Matches
  /\ out' = Append(out, SubSeq(subj, 1, i))
  /\ subj' = SubSeq(subj, i + Len(quan) + 1, Len(subj))
  /\ slength' = Len(subj')
  /\ i' = i + 1
  /\ UNCHANGED <<fn, quan, subject, pc>>

DelimiterKept_Mutant ==
  /\ pc = "loop" /\ i < LoopBound
  /\ i + Len(quan) <= Len(subj) /\ Matches
  /\ out' = Append(out, SubSeq(subj, 1, i + 1))
  /\ subj' = SubSeq(subj, i + Len(quan) + 1, Len(subj))
  /\ slength' = Len(subj')
  /\ i' = 1
  /\ UNCHANGED <<fn, quan, subject, pc>>

\* i = 0, and then the i++ of the loop: position 0 of the rest is not tried.
Cut ==
  /\ pc = "loop" /\ i < LoopBound
  /\ i + Len(quan) <= Len(subj) /\ Matches
  /\ out' = Append(out, SubSeq(subj, 1, i))
  /\ subj' = SubSeq(subj, i + Len(quan) + 1, Len(subj))
  /\ slength' = Len(subj')
  /\ i' = 1
  /\ UNCHANGED <<fn, quan, subject, pc>>

Return ==
  /\ pc = "loop" /\ i >= LoopBound
  /\ out' = IF Blank(subj) THEN out ELSE Append(out, subj)
  /\ pc' = "returned"
  /\ UNCHANGED <<fn, quan, subject, subj, slength, i>>

Next == Throw \/ Skip \/ Cut \/ Return

Spec == Init /\ [][Next]_vars
FairSpec == Spec /\ WF_vars(Next)

-----------------------------------------------------------------------------
\* Types of all variables; i never passes the end of what is left by more
\* than the one position at which substr or at throws.
TypeOK ==
  /\ fn \in {"explode", "c_explode"}
  /\ quan \in Delimiters /\ subject \in Subjects
  /\ subj \in Seq(Char) /\ slength = Len(subj)
  /\ i \in 0 .. Len(subj) + 1
  /\ out \in Seq(Seq(Char))
  /\ pc \in {"loop", "returned", "null", "thrown"}

-----------------------------------------------------------------------------
(***************************************************************************)
(* The reference: PHP's explode.  Every occurrence of the delimiter, from  *)
(* the left and not overlapping, separates two parts.                      *)
(***************************************************************************)
Split(q, s) ==
  LET parts[k \in 1 .. Len(s) + 1] ==
        LET hits == {h \in k .. Len(s) - Len(q) + 1 : SubSeq(s, h, h + Len(q) - 1) = q}
        IN  IF hits = {} THEN <<SubSeq(s, k, Len(s))>>
            ELSE <<SubSeq(s, k, Min(hits) - 1)>> \o parts[Min(hits) + Len(q)]
  IN  parts[1]

Join(q, parts) ==
  LET upTo[k \in DOMAIN parts] ==
        IF k = 1 THEN parts[1] ELSE upTo[k - 1] \o q \o parts[k]
  IN  IF parts = <<>> THEN <<>> ELSE upTo[Len(parts)]

\* A list as the test queries write them: nothing empty after the first
\* delimiter, and a last part at least as long as the delimiter.
Clean(q, parts) ==
  /\ \A k \in 2 .. Len(parts) : parts[k] # <<>>
  /\ Len(parts[Len(parts)]) >= Len(q)
  /\ ~Blank(parts[Len(parts)])

\* A clean list is cut into exactly its parts, and never throws.
CleanListsSplit ==
  Clean(quan, Split(quan, subject)) =>
    pc # "thrown" /\ (pc = "returned" => out = Split(quan, subject))

\* The rest and the parts always make up the whole subject: a cut removes one
\* delimiter and nothing else, and only a blank rest is dropped at the end.
NothingLost ==
  /\ pc \in {"loop", "thrown"} => Join(quan, Append(out, subj)) = subject
  /\ pc = "returned" =>
       \/ Join(quan, out) = subject
       \/ Blank(subj) /\ Join(quan, Append(out, subj)) = subject

\* The only way to read outside the string: the rest is shorter than the
\* delimiter, and slength - qlength wraps around.
ThrowsOnlyOnShortRest == pc = "thrown" => Len(subj) < Len(quan)

\* The loop computes the function Exploded, which the parsing of clauses and
\* names uses: both agree on the parts, on the null pointer and on throwing.
ComputesExploded ==
  pc # "loop" =>
    LET e == Exploded(quan, subject)
    IN  IF fn = "explode" /\ subject = <<>> THEN pc = "null"
        ELSE pc = e.how /\ (pc = "returned" => out = e.parts)

\* Every call ends, the ones whose loop bound wrapped around too.
Termination == <>(pc # "loop")
=============================================================================
