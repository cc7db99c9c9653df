------------------------------ MODULE Workflow ------------------------------
(***************************************************************************)
(* A user's session in one directory, as README and the makefile's test    *)
(* recipe describe it: ./final, then, if it succeeds, make output, then    *)
(* ./result.  A step that fails ends the request; files and the old binary *)
(* stay behind for the next one.                                           *)
(***************************************************************************)
EXTENDS Final

CONSTANTS MaxRequests \* bound: requests in a session

ASSUME SessionAssumption == MaxRequests \in Nat

VARIABLES
  binary,             \* the operands ./result was compiled from
  printed,            \* what the last completed request printed
  requests            \* requests begun

vars == <<finalvars, binary, printed, requests>>

Init == FinalInit /\ binary = Absent /\ printed = None /\ requests = 0

Request ==
  /\ requests < MaxRequests
  /\ Start
  /\ requests' = requests + 1
  /\ printed' = None
  /\ UNCHANGED binary

\* Headings among the names, a newline inside the string literal of `where`,
\* or `if(!())` for HAVING: g++ refuses them.
Malformed(o) ==
  \/ \E x \in {"S", "W", "V", "F"} : RestOfFile(x) \in {o.s, o.w, o.v, o.f}
  \/ o.g = NewlineOnly

Whole(content) == content \notin {Absent, Partial}

\* make output succeeds.  A source with another query's header may compile
\* when the structures happen to agree.
Compile ==
  /\ pc = "exit_success"
  /\ Whole(header) /\ Whole(source) /\ ~Malformed(source)
  /\ binary' = source
  /\ pc' = "compiled"
  /\ UNCHANGED <<query, form, layout, stream, lines, operands, header, source, unnoticed,
                 printed, requests>>

\* make output fails, and the old binary is still there.
CompileFails ==
  /\ pc = "exit_success"
  /\ pc' = "exit_failure"
  /\ UNCHANGED <<query, form, layout, stream, lines, operands, header, source, unnoticed,
                 binary, printed, requests>>

\* The SELECT ends in "WHERE " and W: without a W MySQL refuses it.
Run ==
  /\ pc = "compiled"
  /\ binary.w # Empty
  /\ printed' = [asked |-> Asked, answered |-> binary]
  /\ pc' = "idle"
  /\ UNCHANGED <<query, form, layout, stream, lines, operands, header, source, unnoticed,
                 binary, requests>>

RunFails ==
  /\ pc = "compiled"
  /\ pc' = "exit_failure"
  /\ UNCHANGED <<query, form, layout, stream, lines, operands, header, source, unnoticed,
                 binary, printed, requests>>

GiveUp ==
  /\ pc = "exit_failure"
  /\ pc' = "idle"
  /\ UNCHANGED <<query, form, layout, stream, lines, operands, header, source, unnoticed,
                 binary, printed, requests>>

Step ==
  \/ FinalStep /\ UNCHANGED <<binary, printed, requests>>
  \/ Compile \/ CompileFails \/ Run \/ RunFails \/ GiveUp

Kill == Killed /\ UNCHANGED <<binary, printed, requests>>

Next == Request \/ Step \/ Kill

Spec == Init /\ [][Next]_vars

\* The programs run on, and the user answers the prompts; nothing makes the
\* user ask again or kill final.
FairSpec == Spec /\ WF_vars(Step)

-----------------------------------------------------------------------------
Fields == {"s", "w", "n", "v", "f", "sigma", "g", "emf"}

\* Types of all variables.
TypeOK ==
  /\ pc \in Active \cup {"idle", "exit_success", "exit_failure", "compiled"}
  /\ stream \in {"good", "fail", "eof", "bad"}
  /\ requests \in 0 .. MaxRequests
  /\ requests > 0 => query \in Queries /\ form \in Forms
  /\ pc = "terminal" => Len(lines) <= 6 + query.n
  /\ operands = None \/ DOMAIN operands = Fields
  /\ \A content \in {header, source, binary} : Whole(content) => DOMAIN content = Fields
  /\ unnoticed \subseteq {"arguments", "cut line", "i/o"}

(***************************************************************************)
(* Properties.                                                             *)
(***************************************************************************)

\* Whatever earlier requests left behind, aborted or killed half-way: what a
\* request prints is the answer of that request, unless final itself lost the
\* query without saying so (parse_query writes both files anew, after
\* everything that can throw).
AnswersTheRequest ==
  printed # None /\ unnoticed = {} => printed.answered = printed.asked

\* final ends with success only with both files written from its operands.
PairOfThisQuery ==
  pc = "exit_success" /\ unnoticed = {} => header = operands /\ source = operands

\* README:8, "Upon success, it will create the files result.cpp and result.h".
UponSuccess == pc = "exit_success" => header = operands /\ source = operands

\* final reads a file it cannot read: the loop of read_from_file goes on.
ReadsForever == pc = "reading" /\ stream = "bad"

\* Every request comes to an end, or waits in one place for somebody to kill
\* it: the loop that reads a file which cannot be read.
EveryRequestEnds == pc # "idle" ~> pc = "idle" \/ ReadsForever
=============================================================================
