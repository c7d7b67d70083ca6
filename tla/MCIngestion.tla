---------------------------- MODULE MCIngestion ----------------------------
(***************************************************************************)
(* Values for Ingestion's constants: workbooks that differ in what the     *)
(* parser and the validator look at, and two workers in two processes.     *)
(***************************************************************************)
EXTENDS Ingestion, TLC

CONSTANTS w1, w2, p1, p2

Columns == <<"student_id", "subject", "class", "semester", "grade">>
Full    == <<"ok", "ok", "ok", "ok", "ok">>
Short   == <<"ok", "ok", "ok", "ok">>
Noted   == <<"ok", "ok", "ok", "ok", "", "ok">>

Book(columns, rows) == [opens |-> TRUE, header |-> columns, rows |-> rows]

\* Every kind of workbook the checks tell apart. In "gap" an empty grade is
\* followed by a note; in "twice" the column grade occurs twice.
MCContent ==
  [good    |-> Book(Columns, <<Full, Short, Full>>),
   gap     |-> Book(Columns \o <<"other">>, <<Full, Noted>>),
   twice   |-> Book(Columns \o <<"grade">>, <<Noted>>),
   shorts  |-> Book(Columns, <<Short>>),
   damaged |-> [opens |-> FALSE, header |-> <<>>, rows |-> <<>>],
   bare    |-> Book(Columns, <<>>),
   lacking |-> Book(Tail(Columns), <<Full>>),
   text    |-> Book(Columns, <<<<"ok", "ok", "ok", "ok", "text">>>>),
   range   |-> Book(Columns, <<Full, <<"ok", "ok", "ok", "ok", "bad">>>>),
   nan     |-> Book(Columns, <<<<"ok", "ok", "ok", "ok", "nan">>>>)]

MCProcOf == [w \in Workers |-> IF w = w1 THEN p1 ELSE p2]
=============================================================================
