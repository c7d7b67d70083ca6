---------------------------- MODULE MCAuthManager ----------------------------
(***************************************************************************)
(* Values for AuthManager's constants. One tick of the clock is 15 s: the  *)
(* margin and the login timeout are 2 ticks.                               *)
(***************************************************************************)
EXTENDS AuthManager, TLC

CONSTANTS c1, c2
=============================================================================
