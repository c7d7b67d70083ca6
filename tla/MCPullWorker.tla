---------------------------- MODULE MCPullWorker ----------------------------
(***************************************************************************)
(* Values for PullWorker's constants: the teachers 1 and 2, whose address  *)
(* or (empty) user name may be the other's or have been it, and one table  *)
(* without UNIQUE columns for the students and the classes.                *)
(***************************************************************************)
EXTENDS PullWorker

CONSTANTS a, b, empty

Rec(id, keys) == [id |-> id, keys |-> keys]

MCRosters ==
  <<{<<>>, <<Rec(1, {a})>>, <<Rec(2, {a})>>,
     <<Rec(1, {b}), Rec(2, {a})>>, <<Rec(2, {a}), Rec(1, {b})>>,
     <<Rec(1, {a, empty}), Rec(2, {b, empty})>>},
    {<<>>, <<Rec(1, {})>>, <<Rec(2, {}), Rec(1, {})>>}>>
=============================================================================
