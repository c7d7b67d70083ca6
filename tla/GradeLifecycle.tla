--------------------------- MODULE GradeLifecycle ---------------------------
(***************************************************************************)
(* What the push of grades promises, without goroutines, batches, retries  *)
(* or processes: the life of one staged grade, and the only two reasons    *)
(* for which it may go another way. The status of a grade is the column    *)
(* the rest of the system reads (internal/model/grade.go); whether the     *)
(* department holds it is known to the department alone.                   *)
(***************************************************************************)
CONSTANT Grades

VARIABLES
  status, \* per grade: ABSENT, READY, SYNCED or FAILED
  held,   \* the grades the department holds
  again,  \* the grades the department received although it held them
  excused \* grades two jobs had in hand at once, or an answer about which
          \* was lost: from then on the department and the table may differ

vars == <<status, held, again, excused>>

Settled == {"SYNCED", "FAILED"}

Init ==
  /\ status = [g \in Grades |-> "ABSENT"]
  /\ held = {}
  /\ again = {}
  /\ excused = {}

\* The file of grade g is staged.
Stage(g) ==
  /\ status[g] = "ABSENT" /\ status'[g] = "READY"
  /\ g \notin held'
  /\ g \notin again'

\* The department receives grade g and keeps it.
Submit(g) ==
  /\ status[g] = "READY" /\ status'[g] = "READY"
  /\ g \notin held /\ g \in held'
  /\ g \notin again'

\* What the department did with g is written down.
Settle(g) ==
  /\ status[g] = "READY"
  /\ status'[g] = IF g \in held THEN "SYNCED" ELSE "FAILED"
  /\ g \in held <=> g \in held'
  /\ g \notin again'

\* An excused grade may be sent again and its verdict may change or be wrong
\* in one way: FAILED although the department holds it. It is never put back
\* to READY, never forgotten by the department, and SYNCED only if held.
Stray(g) ==
  /\ g \in excused'
  /\ status[g] # "ABSENT"
  /\ status'[g] \in Settled \cup ({status[g]} \cap {"READY"})
  /\ status'[g] = "SYNCED" => g \in held'

Same(g) ==
  /\ status'[g] = status[g]
  /\ g \in held <=> g \in held'
  /\ g \in again <=> g \in again'

Next ==
  /\ status' \in [Grades -> {"ABSENT", "READY"} \cup Settled]
  /\ held \subseteq held' /\ again \subseteq again' /\ excused \subseteq excused'
  /\ \A g \in Grades :
       Same(g) \/ Stage(g) \/ Submit(g) \/ Settle(g) \/ Stray(g)

Spec == Init /\ [][Next]_vars
=============================================================================
