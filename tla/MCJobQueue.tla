----------------------------- MODULE MCJobQueue -----------------------------
(***************************************************************************)
(* Values for JobQueue's constants: m1, m2 and m3 carry jobs, bad cannot be *)
(* unmarshalled.                                                           *)
(***************************************************************************)
EXTENDS JobQueue, TLC

CONSTANTS m1, m2, m3, bad, p1, p2

\* The messages that carry a job may be exchanged, and so may the processes.
MCSymmetry ==
  {f @@ g : f \in Permutations(Msgs \ Malformed), g \in Permutations(Processes)}
=============================================================================
