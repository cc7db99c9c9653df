------------------------------- MODULE Final --------------------------------
(***************************************************************************)
(* The program `final`: main() picks the input route, user.cpp reads the   *)
(* seven operands from the terminal or from a file, parse_query generates  *)
(* both texts and only then writes result.h and result.cpp, one after the  *)
(* other.  The operands' texts are opaque; what the control depends on is  *)
(* kept: whether a text is empty, whether a such-that line fits the        *)
(* 500-byte buffer, the number of grouping variables, the highest variable *)
(* F mentions.                                                             *)
(***************************************************************************)
EXTENDS Integers, Sequences, SequencesExt

CONSTANTS
  Queries,            \* what users ask: [s, w, n, v, f, sigma, g]
  Empty,              \* the empty text
  LongTexts,          \* texts of 500 characters and more
  HighestGroup,       \* the highest grouping variable each F mentions
  Forms,              \* the argument lists final is started with
  IOErrors,           \* BOOLEAN: reading, unlinking, opening or writing a file may fail
  Absent, Partial,    \* no such file; created but not fully written
  None

LastArgumentIgnored_Mutant ==
  [none     |-> [route |-> "terminal", emf |-> FALSE],
   emf      |-> [route |-> "terminal", emf |-> TRUE],
   file     |-> [route |-> "file", emf |-> FALSE],
   emf_file |-> [route |-> "file", emf |-> TRUE],
   file_emf |-> [route |-> "file", emf |-> FALSE],
   other    |-> [route |-> "invalid", emf |-> FALSE]]

\* The argument lists main() tells apart, [route, emf].
ArgumentForm ==
  [none     |-> [route |-> "terminal", emf |-> FALSE],   \* ./final
   emf      |-> [route |-> "terminal", emf |-> TRUE],    \* ./final -emf
   file     |-> [route |-> "file", emf |-> FALSE],       \* ./final FILE
   emf_file |-> [route |-> "file", emf |-> TRUE],        \* ./final -emf FILE
   file_emf |-> [route |-> "file", emf |-> TRUE],        \* ./final FILE -emf
   other    |-> [route |-> "invalid", emf |-> FALSE]]    \* ./final FILE FILE

\* How the query file is laid out: an empty operand as a blank line or as no
\* line at all, and a newline at the end of the file or none.
Layouts == [blank_lines : BOOLEAN, final_newline : BOOLEAN]

ASSUME QueriesAssumption ==
  /\ \A q \in Queries : /\ q.n \in Nat
                        /\ q.sigma \in Seq(Range(q.sigma)) /\ Len(q.sigma) = q.n
  /\ Forms \subseteq DOMAIN ArgumentForm
  /\ IOErrors \in BOOLEAN

VARIABLES
  pc,                 \* where final is, or how it ended
  query,              \* what its user asks
  form, layout,       \* how
  stream,             \* state of cin, or of the query file
  lines,              \* the lines read from the terminal so far
  operands,           \* the arguments of parse_query
  header, source,     \* result.h and result.cpp
  unnoticed           \* history: what went wrong in this run without failing it

finalvars == <<pc, query, form, layout, stream, lines, operands, header, source, unnoticed>>

FinalInit ==
  /\ pc = "idle" /\ query = None /\ form = None /\ layout = None
  /\ stream = "good" /\ lines = <<>> /\ operands = None
  /\ header = Absent /\ source = Absent /\ unnoticed = {}

\* The query as parse_query should receive it.
Asked == [s |-> query.s, w |-> query.w, n |-> query.n, v |-> query.v, f |-> query.f,
          sigma |-> query.sigma, g |-> query.g, emf |-> form \in {"emf", "emf_file", "file_emf"}]

-----------------------------------------------------------------------------
Start ==
  /\ pc = "idle"
  /\ \E q \in Queries, f \in Forms :
       /\ query' = q /\ form' = f
       /\ layout' \in IF ArgumentForm[f].route = "file" THEN Layouts ELSE {None}
       /\ pc' = ArgumentForm[f].route
  /\ stream' = "good" /\ lines' = <<>> /\ operands' = None /\ unnoticed' = {}
  /\ UNCHANGED <<header, source>>

\* main() prints "Invalid input" and returns EXIT_SUCCESS.
InvalidInput ==
  /\ pc = "invalid"
  /\ pc' = "exit_success"
  /\ unnoticed' = {"arguments"}
  /\ UNCHANGED <<query, form, layout, stream, lines, operands, header, source>>

-----------------------------------------------------------------------------
(***************************************************************************)
(* parse_user_input: S, W, n, V, F with std::getline, then n such-that     *)
(* lines with cin.getline(buffer, 500), then G with std::getline.          *)
(***************************************************************************)
Typed == <<query.s, query.w, query.n, query.v, query.f>> \o query.sigma \o <<query.g>>

IsCondition(j) == 5 < j /\ j <= 5 + query.n

Truncated(t) == <<"first 499 characters of", t>>

RetriesOnFail_Mutant ==
  /\ pc = "terminal" /\ stream = "good"
  /\ Len(lines) < 6 + query.n
  /\ LET j == Len(lines) + 1
         t == Typed[j]
         overflows == IsCondition(j) /\ t \in LongTexts
     IN  /\ lines' = Append(lines, IF overflows THEN Truncated(t) ELSE t)
         /\ stream' = IF overflows THEN "fail" ELSE stream
         /\ unnoticed' = IF overflows THEN {"cut line"} ELSE unnoticed
  /\ UNCHANGED <<pc, query, form, layout, operands, header, source>>

\* With failbit set both getlines leave an empty text; a line that does not
\* fit the buffer sets failbit.
ReadLine ==
  /\ pc = "terminal"
  /\ Len(lines) < 6 + query.n
  /\ LET j == Len(lines) + 1
         t == Typed[j]
         overflows == IsCondition(j) /\ t \in LongTexts
     IN  /\ lines' = Append(lines, IF stream = "fail" THEN Empty
                                   ELSE IF overflows THEN Truncated(t) ELSE t)
         /\ stream' = IF overflows THEN "fail" ELSE stream
         /\ unnoticed' = IF overflows THEN {"cut line"} ELSE unnoticed
  /\ UNCHANGED <<pc, query, form, layout, operands, header, source>>

FlagDropped_Mutant ==
  /\ pc = "terminal"
  /\ Len(lines) = 6 + query.n
  /\ operands' = [s |-> lines[1], w |-> lines[2], n |-> lines[3], v |-> lines[4],
                  f |-> lines[5], sigma |-> SubSeq(lines, 6, 5 + lines[3]),
                  g |-> lines[6 + lines[3]]]
  /\ pc' = "columns"
  /\ UNCHANGED <<query, form, layout, stream, lines, header, source, unnoticed>>

TerminalDone ==
  /\ pc = "terminal"
  /\ Len(lines) = 6 + query.n
  /\ operands' = [s |-> lines[1], w |-> lines[2], n |-> lines[3], v |-> lines[4],
                  f |-> lines[5], sigma |-> SubSeq(lines, 6, 5 + lines[3]),
                  g |-> lines[6 + lines[3]], emf |-> ArgumentForm[form].emf]
  /\ pc' = "columns"
  /\ UNCHANGED <<query, form, layout, stream, lines, header, source, unnoticed>>

(***************************************************************************)
(* parse_file_input.  The text of a section runs from the line after its   *)
(* heading to the newline before the next heading.  Without a line in      *)
(* between the length is -1 as a size_t and the section is all the rest of *)
(* the file; G is the rest of the file, newlines included.                 *)
(***************************************************************************)
RestOfFile(section) == <<"rest of the file from", section>>
NewlineOnly == "newline"

Section(name, text) ==
  IF text = Empty /\ ~layout.blank_lines THEN RestOfFile(name) ELSE text

GSection ==
  IF query.g = Empty /\ (layout.blank_lines \/ layout.final_newline)
  THEN NewlineOnly ELSE query.g

\* read_from_file throws when there is no such file.
FileMissing ==
  /\ pc = "file"
  /\ pc' = "exit_failure"
  /\ UNCHANGED <<query, form, layout, stream, lines, operands, header, source, unnoticed>>

\* A directory can be opened as well.
OpenFile ==
  /\ pc = "file"
  /\ pc' = "reading"
  /\ UNCHANGED <<query, form, layout, stream, lines, operands, header, source, unnoticed>>

\* The loop `while(!file.eof()) getline(file,tmp)`: the getline that meets the
\* end of the file, or the first one whose read fails (a directory, a disk
\* error).  It sets badbit and never eofbit, so from then on every iteration
\* appends an empty line and nothing else changes.
GetLine ==
  /\ pc = "reading" /\ stream = "good"
  /\ stream' \in {"eof"} \cup (IF IOErrors THEN {"bad"} ELSE {})
  /\ UNCHANGED <<pc, query, form, layout, lines, operands, header, source, unnoticed>>

ReadFile ==
  /\ pc = "reading" /\ stream = "eof"
  /\ operands' = [s |-> Section("S", query.s), w |-> Section("W", query.w), n |-> query.n,
                  v |-> Section("V", query.v), f |-> Section("F", query.f),
                  sigma |-> query.sigma, g |-> GSection, emf |-> ArgumentForm[form].emf]
  /\ pc' = "columns"
  /\ UNCHANGED <<query, form, layout, stream, lines, header, source, unnoticed>>

-----------------------------------------------------------------------------
(***************************************************************************)
(* parse_query.  Everything that can throw or fault comes before the first *)
(* write_to_file.                                                          *)
(***************************************************************************)
GetColumns ==
  /\ pc = "columns"
  /\ pc' \in {"generate", "exit_failure"}      \* or an SQLException
  /\ UNCHANGED <<query, form, layout, stream, lines, operands, header, source, unnoticed>>

\* A null vector from explode("") is dereferenced; an empty such-that line is
\* an invalid condition; at() throws for a variable beyond n.
Aborts(o) ==
  \/ Empty \in {o.s, o.v, o.f}
  \/ Empty \in Range(o.sigma)
  \/ o.f \in DOMAIN HighestGroup /\ HighestGroup[o.f] > o.n

\* Any text may also turn out wrong: a condition without an operator, a DATE
\* attribute in V, a name that is no aggregate.
GenerateAborts ==
  /\ pc = "generate"
  /\ pc' = "exit_failure"
  /\ UNCHANGED <<query, form, layout, stream, lines, operands, header, source, unnoticed>>

Generate ==
  /\ pc = "generate"
  /\ ~Aborts(operands)
  /\ pc' = "unlink_header"
  /\ UNCHANGED <<query, form, layout, stream, lines, operands, header, source, unnoticed>>

(***************************************************************************)
(* write_to_file twice: unlink, open, write; no result is checked.         *)
(***************************************************************************)
KeepsOldHeader_Mutant ==
  /\ pc = "unlink_header"
  /\ UNCHANGED <<header, unnoticed>>
  /\ pc' = IF header = Absent THEN "open_header" ELSE "unlink_source"
  /\ UNCHANGED <<query, form, layout, stream, lines, operands, source>>

UnlinkHeader ==
  /\ pc = "unlink_header"
  /\ \/ header' = Absent /\ UNCHANGED unnoticed
     \/ IOErrors /\ header' = header /\ unnoticed' = unnoticed \cup {"i/o"}
  /\ pc' = "open_header"
  /\ UNCHANGED <<query, form, layout, stream, lines, operands, source>>

OpenHeader ==
  /\ pc = "open_header"
  /\ \/ header' = Partial /\ pc' = "write_header" /\ UNCHANGED unnoticed
     \/ IOErrors /\ header' = header /\ pc' = "unlink_source" /\ unnoticed' = unnoticed \cup {"i/o"}
  /\ UNCHANGED <<query, form, layout, stream, lines, operands, source>>

WriteHeader ==
  /\ pc = "write_header"
  /\ \/ header' = operands /\ UNCHANGED unnoticed
     \/ IOErrors /\ header' = Partial /\ unnoticed' = unnoticed \cup {"i/o"}
  /\ pc' = "unlink_source"
  /\ UNCHANGED <<query, form, layout, stream, lines, operands, source>>

UnlinkSource ==
  /\ pc = "unlink_source"
  /\ \/ source' = Absent /\ UNCHANGED unnoticed
     \/ IOErrors /\ source' = source /\ unnoticed' = unnoticed \cup {"i/o"}
  /\ pc' = "open_source"
  /\ UNCHANGED <<query, form, layout, stream, lines, operands, header>>

OpenSource ==
  /\ pc = "open_source"
  /\ \/ source' = Partial /\ pc' = "write_source" /\ UNCHANGED unnoticed
     \/ IOErrors /\ source' = source /\ pc' = "exit_success" /\ unnoticed' = unnoticed \cup {"i/o"}
  /\ UNCHANGED <<query, form, layout, stream, lines, operands, header>>

WriteSource ==
  /\ pc = "write_source"
  /\ \/ source' = operands /\ UNCHANGED unnoticed
     \/ IOErrors /\ source' = Partial /\ unnoticed' = unnoticed \cup {"i/o"}
  /\ pc' = "exit_success"
  /\ UNCHANGED <<query, form, layout, stream, lines, operands, header>>

Active == {"terminal", "file", "reading", "invalid", "columns", "generate", "unlink_header",
           "open_header", "write_header", "unlink_source", "open_source", "write_source"}

\* The user interrupts final, or the machine goes down.
Killed ==
  /\ pc \in Active
  /\ pc' = "exit_failure"
  /\ UNCHANGED <<query, form, layout, stream, lines, operands, header, source, unnoticed>>

FinalStep ==
  \/ InvalidInput \/ ReadLine \/ TerminalDone
  \/ FileMissing \/ OpenFile \/ GetLine \/ ReadFile
  \/ GetColumns \/ GenerateAborts \/ Generate
  \/ UnlinkHeader \/ OpenHeader \/ WriteHeader
  \/ UnlinkSource \/ OpenSource \/ WriteSource
=============================================================================
