--------------------------- MODULE WorkflowProofs ---------------------------
(***************************************************************************)
(* Proofs about final's output files, for all queries, argument forms and  *)
(* any number of requests, with I/O errors and kills at every step.        *)
(***************************************************************************)
EXTENDS Workflow, SequenceTheorems, TLAPS

\* From the moment result.h is closed it is the one of these operands, and so
\* is result.cpp at the end, unless an operation failed unnoticed.
WrittenSoFar ==
  /\ pc \in {"unlink_source", "open_source", "write_source", "exit_success"} /\ unnoticed = {} =>
       header = operands
  /\ pc = "exit_success" /\ unnoticed = {} => source = operands

\* A session starts in the invariant.
LEMMA InitWritten == Init => WrittenSoFar
BY DEF Init, FinalInit, WrittenSoFar

\* Every argument list main() may be given takes one of its three routes.
LEMMA Routes ==
  ASSUME NEW f \in Forms
  PROVE  ArgumentForm[f].route \in {"terminal", "file", "invalid"}
<1>1. f \in {"none", "emf", "file", "emf_file", "file_emf", "other"}
  BY QueriesAssumption DEF ArgumentForm
<1>2. QED
  BY <1>1 DEF ArgumentForm

\* Each step of final, of the build and of the session keeps it.
LEMMA NextWritten == WrittenSoFar /\ [Next]_vars => WrittenSoFar'
<1> SUFFICES ASSUME WrittenSoFar, [Next]_vars
             PROVE  WrittenSoFar'
  OBVIOUS
<1>1. CASE Request
  <2>1. pc' \in {"terminal", "file", "invalid"}
    BY <1>1, Routes DEF Request, Start
  <2> QED
    BY <2>1 DEF WrittenSoFar
<1>2. CASE InvalidInput
  BY <1>2 DEF InvalidInput, WrittenSoFar
<1>3. CASE ReadLine \/ TerminalDone \/ FileMissing \/ OpenFile \/ GetLine \/ ReadFile
  <2>1. pc' \in {"terminal", "reading", "columns", "exit_failure"}
    BY <1>3 DEF ReadLine, TerminalDone, FileMissing, OpenFile, GetLine, ReadFile
  <2> QED
    BY <2>1 DEF WrittenSoFar
<1>4. CASE GetColumns \/ GenerateAborts \/ Generate
  <2>1. pc' \in {"generate", "exit_failure", "unlink_header"}
    BY <1>4 DEF GetColumns, GenerateAborts, Generate
  <2> QED
    BY <2>1 DEF WrittenSoFar
<1>5. CASE UnlinkHeader
  BY <1>5 DEF UnlinkHeader, WrittenSoFar
<1>6. CASE OpenHeader
  BY <1>6 DEF OpenHeader, WrittenSoFar
<1>7. CASE WriteHeader
  BY <1>7 DEF WriteHeader, WrittenSoFar
<1>8. CASE UnlinkSource
  BY <1>8 DEF UnlinkSource, WrittenSoFar
<1>9. CASE OpenSource
  BY <1>9 DEF OpenSource, WrittenSoFar
<1>10. CASE WriteSource
  BY <1>10 DEF WriteSource, WrittenSoFar
<1>11. CASE Compile \/ CompileFails \/ Run \/ RunFails \/ GiveUp \/ Kill
  <2>1. pc' \in {"compiled", "exit_failure", "idle"}
    BY <1>11 DEF Compile, CompileFails, Run, RunFails, GiveUp, Kill, Killed
  <2> QED
    BY <2>1 DEF WrittenSoFar
<1>12. CASE UNCHANGED vars
  BY <1>12 DEF vars, finalvars, WrittenSoFar
<1>13. QED
  BY <1>1, <1>2, <1>3, <1>4, <1>5, <1>6, <1>7, <1>8, <1>9, <1>10, <1>11, <1>12
     DEF Next, Step, FinalStep

\* final ends with success only with both files written from its operands,
\* whatever an earlier run left behind, unless it failed to notice an error.
THEOREM PairWritten == Spec => []PairOfThisQuery
<1>1. WrittenSoFar => PairOfThisQuery
  BY DEF WrittenSoFar, PairOfThisQuery
<1>2. QED
  BY <1>1, InitWritten, NextWritten, PTL DEF Spec

-----------------------------------------------------------------------------
(***************************************************************************)
(* The operands reach parse_query as they were asked, or so that g++ will  *)
(* refuse the program.                                                     *)
(***************************************************************************)
Answers == {query.s, query.w, query.n, query.v, query.f, query.g} \cup Range(query.sigma)

\* The lines typed so far are those of the query.
LinesAsTyped ==
  /\ lines \in Seq(Answers)
  /\ Len(lines) <= 6 + query.n
  /\ \A j \in 1 .. Len(lines) : lines[j] = Typed[j]

Asking == pc # "idle" => query \in Queries /\ form \in Forms

ReadSoFar == pc = "terminal" /\ unnoticed = {} => stream = "good" /\ LinesAsTyped

\* What the program compiled, or about to be, was written from.
OperandsAsAsked ==
  /\ pc \in (Active \ {"terminal", "file", "reading", "invalid"}) \cup {"exit_success"} /\ unnoticed = {} =>
       operands = Asked \/ Malformed(operands)
  /\ pc = "compiled" /\ unnoticed = {} => binary = Asked

IInv == WrittenSoFar /\ Asking /\ ReadSoFar /\ OperandsAsAsked /\ AnswersTheRequest

\* The lines of the terminal dialogue.
LEMMA TypedLines ==
  ASSUME query \in Queries
  PROVE  /\ query.n \in Nat
         /\ query.sigma \in Seq(Answers) /\ Len(query.sigma) = query.n
         /\ Typed \in Seq(Answers) /\ Len(Typed) = 6 + query.n
         /\ Typed[1] = query.s /\ Typed[2] = query.w /\ Typed[3] = query.n
         /\ Typed[4] = query.v /\ Typed[5] = query.f
         /\ \A k \in 1 .. query.n : Typed[5 + k] = query.sigma[k]
         /\ Typed[6 + query.n] = query.g
<1> DEFINE A == Answers
           head == <<query.s, query.w, query.n, query.v, query.f>>
           front == head \o query.sigma
           tail == <<query.g>>
<1>1. query.n \in Nat /\ query.sigma \in Seq(A) /\ Len(query.sigma) = query.n
  <2>1. query.n \in Nat /\ query.sigma \in Seq(Range(query.sigma)) /\ Len(query.sigma) = query.n
    BY QueriesAssumption
  <2>2. Range(query.sigma) \subseteq A
    BY DEF Answers
  <2>3. query.sigma \in Seq(A)
    BY ONLY <2>1, <2>2, SeqMonotonic
  <2> QED
    BY <2>1, <2>3
<1>2. /\ head \in Seq(A) /\ Len(head) = 5
      /\ head[1] = query.s /\ head[2] = query.w /\ head[3] = query.n
      /\ head[4] = query.v /\ head[5] = query.f
  BY DEF Answers
<1>3. tail \in Seq(A) /\ Len(tail) = 1 /\ tail[1] = query.g
  BY DEF Answers
<1>4. Typed = front \o tail
  BY DEF Typed
<1> HIDE DEF A, head, tail
<1>5. /\ front \in Seq(A) /\ Len(front) = Len(head) + Len(query.sigma)
      /\ \A i \in 1 .. Len(head) + Len(query.sigma) :
           front[i] = IF i <= Len(head) THEN head[i] ELSE query.sigma[i - Len(head)]
  <2>1. head \in Seq(A) /\ query.sigma \in Seq(A)
    BY <1>1, <1>2
  <2> QED
    BY ONLY <2>1, ConcatProperties
<1>6. /\ front \o tail \in Seq(A) /\ Len(front \o tail) = Len(front) + Len(tail)
      /\ \A i \in 1 .. Len(front) + Len(tail) :
           (front \o tail)[i] = IF i <= Len(front) THEN front[i] ELSE tail[i - Len(front)]
  <2>1. front \in Seq(A) /\ tail \in Seq(A)
    BY <1>3, <1>5
  <2> HIDE DEF front
  <2> QED
    BY ONLY <2>1, ConcatProperties
<1> HIDE DEF front
<1>7. Len(front) = 5 + query.n /\ Len(Typed) = 6 + query.n
  BY <1>1, <1>2, <1>3, <1>4, <1>5, <1>6
<1>8. \A i \in 1 .. 5 + query.n : Typed[i] = front[i]
  BY <1>1, <1>3, <1>4, <1>6, <1>7
<1>9. \A i \in 1 .. 5 : front[i] = head[i]
  BY <1>1, <1>2, <1>5
<1>10. \A k \in 1 .. query.n : front[5 + k] = query.sigma[k]
  <2> SUFFICES ASSUME NEW k \in 1 .. query.n
               PROVE  front[5 + k] = query.sigma[k]
    OBVIOUS
  <2>1. 5 + k \in 1 .. Len(head) + Len(query.sigma) /\ ~(5 + k <= Len(head))
    BY <1>1, <1>2
  <2>2. (5 + k) - Len(head) = k
    BY <1>1, <1>2
  <2> QED
    BY <1>5, <2>1, <2>2
<1>11. Typed[6 + query.n] = query.g
  <2>1. 6 + query.n \in 1 .. Len(front) + Len(tail) /\ ~(6 + query.n <= Len(front))
    BY <1>1, <1>3, <1>7
  <2>2. (6 + query.n) - Len(front) = 1
    BY <1>1, <1>7
  <2> QED
    BY <1>3, <1>4, <1>6, <2>1, <2>2
<1>12. Typed[1] = query.s /\ Typed[2] = query.w /\ Typed[3] = query.n /\ Typed[4] = query.v
       /\ Typed[5] = query.f
  BY <1>1, <1>2, <1>8, <1>9
<1>13. \A k \in 1 .. query.n : Typed[5 + k] = query.sigma[k]
  BY <1>1, <1>8, <1>10
<1>14. QED
  BY <1>1, <1>4, <1>6, <1>7, <1>11, <1>12, <1>13 DEF A

\* A line that fits is appended as typed.
LEMMA NextLine ==
  ASSUME query \in Queries, LinesAsTyped, Len(lines) < 6 + query.n
  PROVE  LET l == Append(lines, Typed[Len(lines) + 1])
         IN  /\ l \in Seq(Answers)
             /\ Len(l) <= 6 + query.n
             /\ \A j \in 1 .. Len(l) : l[j] = Typed[j]
<1>1. lines \in Seq(Answers) /\ Len(lines) \in Nat
  BY DEF LinesAsTyped
<1>2. query.n \in Nat /\ Typed \in Seq(Answers) /\ Len(Typed) = 6 + query.n
  BY TypedLines
<1>3. Len(lines) + 1 \in 1 .. Len(Typed)
  BY <1>1, <1>2
<1>4. Typed[Len(lines) + 1] \in Answers
  BY ONLY <1>2, <1>3, ElementOfSeq
<1> DEFINE a == Typed[Len(lines) + 1]
<1>5. a = Typed[Len(lines) + 1] /\ a \in Answers
  BY <1>4
<1> HIDE DEF a
<1>6. /\ Append(lines, a) \in Seq(Answers)
      /\ Len(Append(lines, a)) = Len(lines) + 1
      /\ \A j \in 1 .. Len(lines) : Append(lines, a)[j] = lines[j]
      /\ Append(lines, a)[Len(lines) + 1] = a
  BY <1>1, <1>5
<1>7. QED
  BY <1>1, <1>2, <1>5, <1>6 DEF LinesAsTyped

\* main() takes the EMF flag from every argument list that has it.
LEMMA Flags ==
  ASSUME form \in Forms
  PROVE  ArgumentForm[form].emf = (form \in {"emf", "emf_file", "file_emf"})
<1>1. form \in {"none", "emf", "file", "emf_file", "file_emf", "other"}
  BY QueriesAssumption DEF ArgumentForm
<1>2. CASE form \in {"emf", "emf_file", "file_emf"}
  <2>1. ArgumentForm[form].emf = TRUE
    BY <1>2 DEF ArgumentForm
  <2> QED
    BY <1>2, <2>1
<1>3. CASE form \notin {"emf", "emf_file", "file_emf"}
  <2>1. ArgumentForm[form].emf = FALSE
    BY <1>1, <1>3 DEF ArgumentForm
  <2>2. (form \in {"emf", "emf_file", "file_emf"}) = FALSE
    BY <1>3
  <2> QED
    BY <2>1, <2>2
<1>4. QED
  BY <1>2, <1>3

\* Once all lines are read unharmed, the operands are those of the query.
LEMMA TerminalOperands ==
  ASSUME query \in Queries, form \in Forms, LinesAsTyped, Len(lines) = 6 + query.n
  PROVE  [s |-> lines[1], w |-> lines[2], n |-> lines[3], v |-> lines[4],
          f |-> lines[5], sigma |-> SubSeq(lines, 6, 5 + lines[3]),
          g |-> lines[6 + lines[3]], emf |-> ArgumentForm[form].emf] = Asked
<1>1. \A j \in 1 .. 6 + query.n : lines[j] = Typed[j]
  BY DEF LinesAsTyped
<1>2. query.n \in Nat
  BY TypedLines
<1>3. /\ lines[1] = query.s /\ lines[2] = query.w /\ lines[3] = query.n
      /\ lines[4] = query.v /\ lines[5] = query.f
  <2>1. \A j \in {1, 2, 3, 4, 5} : j \in 1 .. 6 + query.n
    BY <1>2
  <2>2. \A j \in {1, 2, 3, 4, 5} : lines[j] = Typed[j]
    BY <1>1, <2>1
  <2> QED
    BY <2>2, TypedLines
<1>4. lines[6 + query.n] = query.g
  <2>1. 6 + query.n \in 1 .. 6 + query.n
    BY <1>2
  <2> QED
    BY <1>1, <2>1, TypedLines
<1>5. \A k \in 1 .. query.n : lines[5 + k] = query.sigma[k]
  BY <1>1, <1>2, TypedLines
<1>6. SubSeq(lines, 6, 5 + query.n) = query.sigma
  <2> DEFINE t == SubSeq(lines, 6, 5 + query.n)
  <2>1. query.sigma \in Seq(Answers) /\ Len(query.sigma) = query.n
    BY TypedLines
  <2>2. lines \in Seq(Answers)
    BY DEF LinesAsTyped
  <2>3. \A i \in 6 .. 5 + query.n : i \in 1 .. Len(lines)
    BY <1>2
  <2>4. \A i \in 6 .. 5 + query.n : lines[i] \in Answers
    BY <2>2, <2>3, ElementOfSeq
  <2>5. 6 \in Int /\ 5 + query.n \in Int
    BY <1>2
  <2>6. /\ t \in Seq(Answers)
        /\ Len(t) = IF 6 <= 5 + query.n THEN (5 + query.n) - 6 + 1 ELSE 0
        /\ \A i \in 1 .. (5 + query.n) - 6 + 1 : t[i] = lines[6 + i - 1]
    BY ONLY <2>4, <2>5, SubSeqProperties
  <2> HIDE DEF t
  <2>7. Len(t) = query.n
    BY <1>2, <2>6
  <2>8. ASSUME NEW k \in 1 .. query.n
        PROVE  t[k] = query.sigma[k]
    <3>1. k \in 1 .. (5 + query.n) - 6 + 1 /\ 6 + k - 1 = 5 + k
      BY <1>2
    <3> QED
      BY <1>5, <2>6, <3>1
  <2>9. t = query.sigma
    BY <2>1, <2>6, <2>7, <2>8, SeqEqual
  <2> QED
    BY <2>9 DEF t
<1>7. QED
  BY <1>3, <1>4, <1>6, Flags DEF Asked

\* The file route loses an operand only so that g++ refuses the program.
LEMMA FileOperands ==
  ASSUME form \in Forms, ReadFile
  PROVE  operands' = Asked \/ Malformed(operands')
<1> DEFINE o == operands'
<1>1. o = [s |-> Section("S", query.s), w |-> Section("W", query.w), n |-> query.n,
           v |-> Section("V", query.v), f |-> Section("F", query.f),
           sigma |-> query.sigma, g |-> GSection, emf |-> ArgumentForm[form].emf]
  BY DEF ReadFile
<1> HIDE DEF o
<1>2. CASE /\ o.s = query.s /\ o.w = query.w /\ o.v = query.v /\ o.f = query.f
           /\ o.g = query.g
  <2>1. o = Asked
    BY <1>1, <1>2, Flags DEF Asked
  <2> QED
    BY <2>1 DEF o
<1>3. CASE o.g # query.g
  <2>1. o.g = NewlineOnly
    BY <1>1, <1>3 DEF GSection
  <2> QED
    BY <2>1 DEF Malformed, o
<1>4. CASE o.s # query.s \/ o.w # query.w \/ o.v # query.v \/ o.f # query.f
  <2>1. \/ o.s = RestOfFile("S") \/ o.w = RestOfFile("W")
        \/ o.v = RestOfFile("V") \/ o.f = RestOfFile("F")
    BY <1>1, <1>4 DEF Section
  <2> QED
    BY <2>1 DEF Malformed, o
<1>5. QED
  BY <1>2, <1>3, <1>4

\* A session starts in the invariant.
LEMMA InitIInv == Init => IInv
BY InitWritten
   DEF Init, FinalInit, IInv, Asking, ReadSoFar, OperandsAsAsked, AnswersTheRequest, Active

\* A step of parse_query that leaves its arguments alone keeps them as asked.
LEMMA GivenKeeps ==
  ASSUME IInv, UNCHANGED <<query, form, operands, binary, printed>>,
         pc \in {"columns", "generate", "unlink_header", "open_header", "write_header",
                 "unlink_source", "open_source", "write_source"},
         pc' \in {"generate", "unlink_header", "open_header", "write_header",
                  "unlink_source", "open_source", "write_source", "exit_success"},
         unnoticed' = {} => unnoticed = {}
  PROVE  Asking' /\ ReadSoFar' /\ OperandsAsAsked' /\ AnswersTheRequest'
<1>1. Asking'
  BY DEF IInv, Asking
<1>2. ReadSoFar'
  BY DEF ReadSoFar
<1>3. Asked' = Asked
  BY DEF Asked
<1>4. OperandsAsAsked'
  BY <1>3 DEF IInv, OperandsAsAsked, Active, Malformed
<1>5. AnswersTheRequest'
  BY DEF IInv, AnswersTheRequest
<1>6. QED
  BY <1>1, <1>2, <1>4, <1>5

\* A request that fails says nothing more.
LEMMA FailureKeeps ==
  ASSUME IInv, UNCHANGED <<query, form, unnoticed, printed>>, pc # "idle",
         pc' \in {"exit_failure", "idle"}
  PROVE  Asking' /\ ReadSoFar' /\ OperandsAsAsked' /\ AnswersTheRequest'
BY DEF IInv, Asking, ReadSoFar, OperandsAsAsked, AnswersTheRequest, Active

\* Every step keeps the invariant.
LEMMA NextIInv == IInv /\ [Next]_vars => IInv'
<1> SUFFICES ASSUME IInv, [Next]_vars
             PROVE  Asking' /\ ReadSoFar' /\ OperandsAsAsked' /\ AnswersTheRequest'
  BY NextWritten DEF IInv
<1>1. CASE Request
  <2>1. pc' \in {"terminal", "file", "invalid"} /\ query' \in Queries /\ form' \in Forms
    BY <1>1, Routes DEF Request, Start
  <2>2. stream' = "good" /\ lines' = <<>> /\ printed' = None
    BY <1>1 DEF Request, Start
  <2>3. query'.n \in Nat
    BY <2>1, QueriesAssumption
  <2>4. LinesAsTyped'
    BY <2>2, <2>3 DEF LinesAsTyped
  <2> QED
    BY <2>1, <2>2, <2>4 DEF Asking, ReadSoFar, OperandsAsAsked, AnswersTheRequest, Active
<1>2. CASE FinalStep /\ UNCHANGED <<binary, printed, requests>>
  <2>1. CASE InvalidInput
    BY <1>2, <2>1
       DEF InvalidInput, IInv, Asking, ReadSoFar, OperandsAsAsked, AnswersTheRequest, Active
  <2>2. CASE ReadLine
    <3>1. pc = "terminal" /\ pc' = "terminal" /\ UNCHANGED <<query, form, printed>>
      BY <1>2, <2>2 DEF ReadLine
    <3>2. unnoticed' = {} => unnoticed = {}
      BY <2>2 DEF ReadLine
    <3>3. ASSUME unnoticed' = {}
          PROVE  stream' = "good" /\ LinesAsTyped'
      <4>1. stream = "good" /\ LinesAsTyped /\ query \in Queries /\ Len(lines) < 6 + query.n
        BY <2>2, <3>1, <3>2, <3>3 DEF ReadLine, IInv, ReadSoFar, Asking
      <4>2. stream' = "good" /\ lines' = Append(lines, Typed[Len(lines) + 1])
        BY <2>2, <3>3, <4>1 DEF ReadLine
      <4>3. Typed' = Typed /\ Answers' = Answers
        BY <3>1 DEF Typed, Answers
      <4>4. LinesAsTyped'
        BY <3>1, <4>1, <4>2, <4>3, NextLine DEF LinesAsTyped
      <4> QED
        BY <4>2, <4>4
    <3> QED
      BY <3>1, <3>2, <3>3
         DEF IInv, Asking, ReadSoFar, OperandsAsAsked, AnswersTheRequest, Active
  <2>3. CASE TerminalDone
    <3>1. /\ pc = "terminal" /\ pc' = "columns"
          /\ UNCHANGED <<query, form, unnoticed, printed>>
      BY <1>2, <2>3 DEF TerminalDone
    <3>2. query \in Queries /\ form \in Forms
      BY <3>1 DEF IInv, Asking
    <3>3. unnoticed = {} => operands' = Asked
      BY <2>3, <3>1, <3>2, TerminalOperands DEF TerminalDone, IInv, ReadSoFar
    <3>4. Asked' = Asked
      BY <3>1 DEF Asked
    <3> QED
      BY <3>1, <3>2, <3>3, <3>4
         DEF IInv, Asking, ReadSoFar, OperandsAsAsked, AnswersTheRequest
  <2>4. CASE ReadFile
    <3>1. /\ pc = "reading" /\ pc' = "columns"
          /\ UNCHANGED <<query, form, unnoticed, printed>>
      BY <1>2, <2>4 DEF ReadFile
    <3>2. query \in Queries /\ form \in Forms
      BY <3>1 DEF IInv, Asking
    <3>3. operands' = Asked \/ Malformed(operands')
      BY <2>4, <3>2, FileOperands
    <3>4. Asked' = Asked
      BY <3>1 DEF Asked
    <3>5. OperandsAsAsked'
      BY <3>1, <3>3, <3>4 DEF OperandsAsAsked, Malformed
    <3> QED
      BY <3>1, <3>2, <3>5 DEF IInv, Asking, ReadSoFar, AnswersTheRequest
  <2>5. CASE FileMissing
    BY <1>2, <2>5, FailureKeeps DEF FileMissing
  <2>6. CASE GetColumns
    <3>1. pc' = "generate" \/ pc' = "exit_failure"
      BY <2>6 DEF GetColumns
    <3>2. CASE pc' = "generate"
      BY <1>2, <2>6, <3>2, GivenKeeps DEF GetColumns
    <3>3. CASE pc' = "exit_failure"
      BY <1>2, <2>6, <3>3, FailureKeeps DEF GetColumns
    <3> QED
      BY <3>1, <3>2, <3>3
  <2>7. CASE GenerateAborts
    BY <1>2, <2>7, FailureKeeps DEF GenerateAborts
  <2>8. CASE Generate
    BY <1>2, <2>8, GivenKeeps DEF Generate
  <2>9. CASE UnlinkHeader
    BY <1>2, <2>9, GivenKeeps DEF UnlinkHeader
  <2>10. CASE OpenHeader
    BY <1>2, <2>10, GivenKeeps DEF OpenHeader
  <2>11. CASE WriteHeader
    BY <1>2, <2>11, GivenKeeps DEF WriteHeader
  <2>12. CASE UnlinkSource
    BY <1>2, <2>12, GivenKeeps DEF UnlinkSource
  <2>13. CASE OpenSource
    BY <1>2, <2>13, GivenKeeps DEF OpenSource
  <2>14. CASE WriteSource
    BY <1>2, <2>14, GivenKeeps DEF WriteSource
  <2>15. CASE OpenFile \/ GetLine
    <3>1. /\ pc \in {"file", "reading"} /\ pc' = "reading"
          /\ UNCHANGED <<query, form, unnoticed, printed>>
      BY <1>2, <2>15 DEF OpenFile, GetLine
    <3>2. Asked' = Asked
      BY <3>1 DEF Asked
    <3> QED
      BY <3>1, <3>2 DEF IInv, Asking, ReadSoFar, OperandsAsAsked, AnswersTheRequest
  <2> QED
    BY <1>2, <2>1, <2>2, <2>3, <2>4, <2>5, <2>6, <2>7, <2>8, <2>9, <2>10, <2>11, <2>12,
       <2>13, <2>14, <2>15 DEF FinalStep
<1>3. CASE Compile
  <2>1. /\ pc = "exit_success" /\ pc' = "compiled" /\ binary' = source /\ ~Malformed(source)
        /\ UNCHANGED <<query, form, unnoticed, printed>>
    BY <1>3 DEF Compile
  <2>2. unnoticed = {} => binary' = Asked
    BY <2>1 DEF IInv, WrittenSoFar, OperandsAsAsked
  <2>3. Asked' = Asked
    BY <2>1 DEF Asked
  <2> QED
    BY <2>1, <2>2, <2>3
       DEF IInv, Asking, ReadSoFar, OperandsAsAsked, AnswersTheRequest, Active
<1>4. CASE Run
  <2>1. /\ pc = "compiled" /\ pc' = "idle" /\ UNCHANGED <<query, form, unnoticed, binary>>
        /\ printed' = [asked |-> Asked, answered |-> binary]
    BY <1>4 DEF Run
  <2>2. unnoticed = {} => printed'.answered = printed'.asked
    BY <2>1 DEF IInv, OperandsAsAsked
  <2> QED
    BY <2>1, <2>2 DEF Asking, ReadSoFar, OperandsAsAsked, AnswersTheRequest, Active
<1>5. CASE CompileFails \/ RunFails \/ GiveUp
  BY <1>5, FailureKeeps DEF CompileFails, RunFails, GiveUp
<1>6. CASE Kill
  BY <1>6, FailureKeeps DEF Kill, Killed, Active
<1>7. CASE UNCHANGED vars
  <2>1. Asked' = Asked /\ Typed' = Typed /\ Answers' = Answers
    BY <1>7 DEF vars, finalvars, Asked, Typed, Answers
  <2> QED
    BY <1>7, <2>1 DEF vars, finalvars, IInv, Asking, ReadSoFar, LinesAsTyped,
       OperandsAsAsked, Malformed, AnswersTheRequest
<1>8. QED
  BY <1>1, <1>2, <1>3, <1>4, <1>5, <1>6, <1>7 DEF Next, Step

\* Whatever earlier requests left in the directory, failed or killed half-way,
\* what a request prints is the answer of that request, unless final lost the
\* query without saying so.
THEOREM PrintsTheAnswer == Spec => []AnswersTheRequest
<1>1. IInv => AnswersTheRequest
  BY DEF IInv
<1>2. QED
  BY <1>1, InitIInv, NextIInv, PTL DEF Spec

-----------------------------------------------------------------------------
(***************************************************************************)
(* Types.                                                                  *)
(***************************************************************************)

\* parse_query has its arguments from here on.
Given == {"columns", "generate", "unlink_header", "open_header", "write_header",
          "unlink_source", "open_source", "write_source"}

\* TypeOK is not inductive: a line is appended to a sequence, a step after the
\* first has a request behind it, and parse_query writes what it was given.
TypeInv ==
  /\ TypeOK
  /\ lines = [j \in 1 .. Len(lines) |-> lines[j]] /\ Len(lines) \in Nat
  /\ pc # "idle" => requests > 0
  /\ pc \in Given => DOMAIN operands = Fields

\* A sequence with one element more is a sequence.
LEMMA OneLineMore ==
  ASSUME NEW l, NEW e, l = [j \in 1 .. Len(l) |-> l[j]], Len(l) \in Nat
  PROVE  LET m == Append(l, e)
         IN  m = [j \in 1 .. Len(m) |-> m[j]] /\ Len(m) = Len(l) + 1
<1> DEFINE S == {l[j] : j \in 1 .. Len(l)} \cup {e}
<1>1. l \in Seq(S)
  <2>1. [j \in 1 .. Len(l) |-> l[j]] \in Seq(S)
    OBVIOUS
  <2> QED
    BY <2>1
<1>2. e \in S
  OBVIOUS
<1> HIDE DEF S
<1>3. Append(l, e) \in Seq(S) /\ Len(Append(l, e)) = Len(l) + 1
  BY <1>1, <1>2
<1>4. \A m \in Seq(S) : m = [j \in 1 .. Len(m) |-> m[j]]
  OBVIOUS
<1>5. QED
  BY <1>3, <1>4

\* A session starts with these types.
LEMMA InitTypes == Init => TypeInv
BY SessionAssumption DEF Init, FinalInit, TypeInv, TypeOK, Whole, Given, Active

\* A step that reads nothing and takes no request: it moves on to a place where
\* parse_query has its arguments, or ends.
MovesOn ==
  /\ UNCHANGED <<query, form, stream, lines, operands, requests>>
  /\ pc # "idle"
  /\ pc' \in Given \cup {"idle", "exit_success", "exit_failure", "compiled"}
  /\ pc' \in Given => pc \in Given
  /\ header' \in {header, Absent, Partial} \/ (pc \in Given /\ header' = operands)
  /\ source' \in {source, Absent, Partial} \/ (pc \in Given /\ source' = operands)
  /\ binary' \in {binary, source}
  /\ unnoticed' \in {unnoticed, unnoticed \cup {"i/o"}, {"arguments"}}

\* Such a step keeps the types.
LEMMA MovingKeeps ==
  ASSUME TypeInv, MovesOn
  PROVE  TypeInv'
<1>1. pc' \in Active \cup {"idle", "exit_success", "exit_failure", "compiled"} /\ pc' # "terminal"
  BY DEF MovesOn, Given, Active
<1>2. /\ header' \notin {Absent, Partial} => DOMAIN header' = Fields
      /\ source' \notin {Absent, Partial} => DOMAIN source' = Fields
      /\ binary' \notin {Absent, Partial} => DOMAIN binary' = Fields
  BY DEF MovesOn, TypeInv, TypeOK, Whole
<1>3. unnoticed' \subseteq {"arguments", "cut line", "i/o"}
  BY DEF MovesOn, TypeInv, TypeOK
<1>4. TypeOK'
  BY <1>1, <1>2, <1>3 DEF MovesOn, TypeInv, TypeOK, Whole
<1>5. QED
  BY <1>4 DEF MovesOn, TypeInv

\* Every step keeps the types.
LEMMA NextTypes == TypeInv /\ [Next]_vars => TypeInv'
<1> SUFFICES ASSUME TypeInv, [Next]_vars
             PROVE  TypeInv'
  OBVIOUS
<1>1. CASE Request
  <2>1. pc' \in {"terminal", "file", "invalid"} /\ query' \in Queries /\ form' \in Forms
    BY <1>1, Routes DEF Request, Start
  <2>2. /\ stream' = "good" /\ lines' = <<>> /\ operands' = None /\ unnoticed' = {}
        /\ UNCHANGED <<header, source, binary>>
    BY <1>1 DEF Request, Start
  <2>3. requests' \in 0 .. MaxRequests /\ requests' > 0
    <3>1. requests \in 0 .. MaxRequests
      BY DEF TypeInv, TypeOK
    <3>2. requests < MaxRequests /\ requests' = requests + 1
      BY <1>1 DEF Request
    <3> QED
      BY ONLY <3>1, <3>2, SessionAssumption
  <2>4. query'.n \in Nat
    BY <2>1, QueriesAssumption
  <2>5. Len(lines') <= 6 + query'.n
    BY <2>2, <2>4
  <2>6. TypeOK'
    BY <2>1, <2>2, <2>3, <2>5 DEF TypeInv, TypeOK, Whole, Active
  <2> QED
    BY <2>1, <2>2, <2>3, <2>6 DEF TypeInv, Given
<1>2. CASE FinalStep /\ UNCHANGED <<binary, printed, requests>>
  <2>1. CASE ReadLine
    <3>1. /\ pc = "terminal" /\ pc' = "terminal" /\ Len(lines) < 6 + query.n
          /\ UNCHANGED <<query, form, operands, header, source, binary, requests>>
      BY <1>2, <2>1 DEF ReadLine
    <3>2. PICK e : lines' = Append(lines, e)
      BY <2>1 DEF ReadLine
    <3>3. stream' \in {"good", "fail", "eof", "bad"} /\ unnoticed' \subseteq {"arguments", "cut line", "i/o"}
      BY <2>1 DEF ReadLine, TypeInv, TypeOK
    <3>4. lines = [j \in 1 .. Len(lines) |-> lines[j]] /\ Len(lines) \in Nat
      BY DEF TypeInv
    <3>5. lines' = [j \in 1 .. Len(lines') |-> lines'[j]] /\ Len(lines') = Len(lines) + 1
      BY ONLY <3>2, <3>4, OneLineMore
    <3>6. query \in Queries
      BY <3>1 DEF TypeInv, TypeOK
    <3>7. query.n \in Nat
      BY <3>6, QueriesAssumption
    <3>8. Len(lines') <= 6 + query.n /\ Len(lines') \in Nat
      BY <3>1, <3>4, <3>5, <3>7
    <3>9. TypeOK'
      BY <3>1, <3>3, <3>8 DEF TypeInv, TypeOK, Whole
    <3> QED
      BY <3>1, <3>5, <3>8, <3>9 DEF TypeInv, Given
  <2>2. CASE TerminalDone \/ ReadFile
    <3>1. /\ pc # "idle" /\ pc' = "columns"
          /\ UNCHANGED <<query, form, stream, lines, header, source, binary, requests, unnoticed>>
      BY <1>2, <2>2 DEF TerminalDone, ReadFile
    <3>2. DOMAIN operands' = Fields
      BY <2>2 DEF TerminalDone, ReadFile, Fields
    <3>3. TypeOK'
      BY <3>1, <3>2 DEF TypeInv, TypeOK, Whole, Active
    <3> QED
      BY <3>1, <3>2, <3>3 DEF TypeInv
  <2>3. CASE InvalidInput
    <3>1. MovesOn
      BY <1>2, <2>3 DEF MovesOn, InvalidInput, Given
    <3> QED
      BY <3>1, MovingKeeps
  <2>4. CASE FileMissing
    <3>1. MovesOn
      BY <1>2, <2>4 DEF MovesOn, FileMissing, Given
    <3> QED
      BY <3>1, MovingKeeps
  <2>5. CASE GetColumns
    <3>1. MovesOn
      BY <1>2, <2>5 DEF MovesOn, GetColumns, Given
    <3> QED
      BY <3>1, MovingKeeps
  <2>6. CASE GenerateAborts \/ Generate
    <3>1. MovesOn
      BY <1>2, <2>6 DEF MovesOn, GenerateAborts, Generate, Given
    <3> QED
      BY <3>1, MovingKeeps
  <2>7. CASE UnlinkHeader
    <3>1. MovesOn
      BY <1>2, <2>7 DEF MovesOn, UnlinkHeader, Given
    <3> QED
      BY <3>1, MovingKeeps
  <2>8. CASE OpenHeader
    <3>1. MovesOn
      BY <1>2, <2>8 DEF MovesOn, OpenHeader, Given
    <3> QED
      BY <3>1, MovingKeeps
  <2>9. CASE WriteHeader
    <3>1. MovesOn
      BY <1>2, <2>9 DEF MovesOn, WriteHeader, Given
    <3> QED
      BY <3>1, MovingKeeps
  <2>10. CASE UnlinkSource
    <3>1. MovesOn
      BY <1>2, <2>10 DEF MovesOn, UnlinkSource, Given
    <3> QED
      BY <3>1, MovingKeeps
  <2>11. CASE OpenSource
    <3>1. MovesOn
      BY <1>2, <2>11 DEF MovesOn, OpenSource, Given
    <3> QED
      BY <3>1, MovingKeeps
  <2>12. CASE WriteSource
    <3>1. MovesOn
      BY <1>2, <2>12 DEF MovesOn, WriteSource, Given
    <3> QED
      BY <3>1, MovingKeeps
  <2>13. CASE OpenFile \/ GetLine
    <3>1. /\ pc \in {"file", "reading"} /\ pc' = "reading"
          /\ UNCHANGED <<query, form, lines, operands, header, source, binary, requests, unnoticed>>
      BY <1>2, <2>13 DEF OpenFile, GetLine
    <3>2. stream' \in {"good", "fail", "eof", "bad"}
      BY <2>13 DEF OpenFile, GetLine, TypeInv, TypeOK
    <3>3. TypeOK'
      BY <3>1, <3>2 DEF TypeInv, TypeOK, Whole, Active
    <3> QED
      BY <3>1, <3>3 DEF TypeInv, Given
  <2> QED
    BY <1>2, <2>1, <2>2, <2>3, <2>4, <2>5, <2>6, <2>7, <2>8, <2>9, <2>10, <2>11, <2>12, <2>13
       DEF FinalStep
<1>3. CASE Compile
  <2>1. MovesOn
    BY <1>3 DEF MovesOn, Compile, Given
  <2> QED
    BY <2>1, MovingKeeps
<1>4. CASE CompileFails \/ Run \/ RunFails \/ GiveUp
  <2>1. MovesOn
    BY <1>4 DEF MovesOn, CompileFails, Run, RunFails, GiveUp, Given
  <2> QED
    BY <2>1, MovingKeeps
<1>5. CASE Kill
  <2>1. MovesOn
    BY <1>5 DEF MovesOn, Kill, Killed, Active, Given
  <2> QED
    BY <2>1, MovingKeeps
<1>6. CASE UNCHANGED vars
  BY <1>6 DEF vars, finalvars, TypeInv, TypeOK, Whole
<1>7. QED
  BY <1>1, <1>2, <1>3, <1>4, <1>5, <1>6 DEF Next, Step

\* Whatever is asked and whatever fails, the session keeps its types: no more
\* lines are read than the prompts ask for, and a file that is whole holds a
\* whole query.
THEOREM SessionTypes == Spec => []TypeOK
<1>1. TypeInv => TypeOK
  BY DEF TypeInv
<1>2. QED
  BY <1>1, InitTypes, NextTypes, PTL DEF Spec
=============================================================================
