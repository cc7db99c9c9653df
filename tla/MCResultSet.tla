---------------------------- MODULE MCResultSet -----------------------------
(***************************************************************************)
(* Results of up to three different rows for TLC, with a NULL, an integer  *)
(* that getInt does not hold, and one result that lacks a column.          *)
(***************************************************************************)
EXTENDS ResultSet

MCRows ==
  {[quant |-> 1, state |-> "NY"], [quant |-> 9, state |-> Null],
   [quant |-> Null, state |-> "NJ"], [state |-> "CT"]}

MCResults ==
  {<<>>, <<[quant |-> 9, state |-> Null]>>, <<[state |-> "CT"]>>,
   <<[quant |-> 1, state |-> "NY"], [quant |-> Null, state |-> "NJ"]>>,
   <<[quant |-> 1, state |-> "NY"], [quant |-> Null, state |-> "NJ"],
     [quant |-> 9, state |-> Null]>>}

MCOffsets == -4 .. 4
=============================================================================
