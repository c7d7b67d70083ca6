--------------------------- MODULE MCSyncService ---------------------------
(***************************************************************************)
(* Values for SyncService's constants: rows r1 and r2 belong to student    *)
(* s1, r3 to s2; every job selects every row; each worker is a process of  *)
(* its own, so that one can restart while the other goes on.               *)
(***************************************************************************)
EXTENDS SyncService

CONSTANTS r1, r2, r3, s1, s2, w1, w2, p1, p2

MCStudentOf == [r \in Rows |-> IF r = r3 THEN s2 ELSE s1]
MCTarget == [j \in Jobs |-> Rows]
MCProcOf == [w \in Workers |-> IF w = w1 THEN p1 ELSE p2]
=============================================================================
