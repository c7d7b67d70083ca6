--------------------------- MODULE MCGradeSystem ---------------------------
(***************************************************************************)
(* Values for GradeSystem's constants: one file with one row of student s1 *)
(* and one of s2, two users who ask for its only class and subject, and    *)
(* two sync workers, each in a process of its own.                         *)
(***************************************************************************)
EXTENDS GradeSystem, TLC

CONSTANTS r1, r2, s1, s2, w1, w2, p1, p2, f1, t1, t2, j1

MCStudentOf == [r \in Rows |-> IF r = r1 THEN s1 ELSE s2]
MCTarget == [j \in Jobs |-> Rows]
MCProcOf == [w \in Workers |-> IF w = w1 THEN p1 ELSE p2]
MCFileOf == [r \in Rows |-> f1]
MCFileAsked == [t \in Requests |-> f1]
MCJobOf == [t \in Requests |-> j1]

\* Allowed outright; refused without a schedule; refused in spite of one.
MCAnswers ==
  {[isAllowed |-> b, schedule |-> {}] : b \in BOOLEAN}
  \cup {[isAllowed |-> FALSE,
         schedule |-> {[active |-> a, locked |-> l, start |-> 1, end |-> 3]}] :
          a, l \in BOOLEAN}

\* Workers may be exchanged together with their processes, rows together with
\* their students, and requests for the same job.
SwapWorkers ==
  {p \in Permutations(Workers \cup Processes) :
     \A w \in Workers : p[w] \in Workers /\ ProcOf[p[w]] = p[ProcOf[w]]}
SwapRows ==
  {p \in Permutations(Rows \cup Students) :
     \A r \in Rows : p[r] \in Rows /\ StudentOf[p[r]] = p[StudentOf[r]]}
MCSymmetry ==
  {p @@ q @@ t : p \in SwapWorkers, q \in SwapRows, t \in Permutations(Requests)}
=============================================================================
