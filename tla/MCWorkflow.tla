----------------------------- MODULE MCWorkflow -----------------------------
(***************************************************************************)
(* Sessions over a few queries: with and without grouping variables,       *)
(* HAVING and WHERE, with a such-that line that does not fit the buffer,   *)
(* and with operands that make final abort.                                *)
(***************************************************************************)
EXTENDS Workflow

CONSTANTS
  Select, Where, Attributes, Having,   \* texts of S, W, V, G
  F0, F1, F2,                          \* F up to variable 0, 1, 2
  Cond, LongCond                       \* such-that lines

Q(w, f, sigma, g) ==
  [s |-> Select, w |-> w, n |-> Len(sigma), v |-> Attributes, f |-> f, sigma |-> sigma, g |-> g]

Highest == [t \in {F0, F1, F2} |-> IF t = F0 THEN 0 ELSE IF t = F1 THEN 1 ELSE 2]

Plain == Q(Where, F0, <<>>, Empty)
OneVariable == Q(Where, F1, <<Cond>>, Having)
TwoVariables == Q(Where, F2, <<Cond, Cond>>, Empty)
LongLast == Q(Where, F1, <<LongCond>>, Having)
LongFirst == Q(Where, F2, <<LongCond, Cond>>, Having)
NoWhere == Q(Empty, F0, <<>>, Empty)
EmptyCondition == Q(Where, F1, <<Empty>>, Having)
BeyondN == Q(Where, F2, <<Cond>>, Empty)

SomeQueries ==
  {Plain, OneVariable, TwoVariables, LongLast, LongFirst, NoWhere, EmptyCondition, BeyondN}
ShortQueries == SomeQueries \ {LongLast, LongFirst}
AllForms == {"none", "emf", "file", "emf_file", "file_emf", "other"}
ValidForms == AllForms \ {"other"}
=============================================================================
