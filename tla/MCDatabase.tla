----------------------------- MODULE MCDatabase -----------------------------
(***************************************************************************)
(* Two generators, a table with an integer and a text column, a schema     *)
(* without the integer one and one with a third, for TLC.                  *)
(***************************************************************************)
EXTENDS Database

Quant == [name |-> "quant", type |-> "int"]
State == [name |-> "state", type |-> "text"]
Note  == [name |-> "note", type |-> "text"]

MCSchemas == {<<Quant, State>>, <<State>>, <<State, Quant, Note>>}
MCGeneratedRows == {[quant |-> 9, state |-> "NY"], [quant |-> 3, state |-> "NJ"]}
MCWhere == {[state |-> "NY"]}
Ints == {Null, 3, 9}
Texts == {Null, "NY", "NJ"}
MCRows ==
  [COLUMN_NAME : {"quant", "state", "note"}, DATA_TYPE : {"int", "text"}]
    \cup [quant : Ints, state : Texts] \cup [state : Texts]
    \cup [state : Texts, quant : Ints, note : {Null}]
MCEntryCounts == {-1, 2}
=============================================================================
