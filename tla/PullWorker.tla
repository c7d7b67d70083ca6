----------------------------- MODULE PullWorker -----------------------------
(***************************************************************************)
(* The daily copy of the department's teachers, students and classes into  *)
(* the local tables: PullWorker (internal/worker/pull.go), with its timer, *)
(* over pull.Service (internal/pull/service.go), over the three upserts of *)
(* internal/db/repository.go.                                              *)
(*                                                                         *)
(* One atomic step is one call that leaves the process together with the   *)
(* local code up to the next such call; any call can fail, and a call whose *)
(* answer is lost may have had its effect. Time is a day and a tick of it. *)
(* The timer goes off after 23:59:59 by the clock, not at that instant.    *)
(***************************************************************************)
EXTENDS Naturals, Sequences, FiniteSets

CONSTANTS
  Kinds,      \* how many tables pullAll fills: teachers, students, classes
  Ids,        \* ids of the department's records
  Keys,       \* values of the columns that are UNIQUE (email, username)
  Rosters,    \* per kind: the lists the department may answer with
  RunOnStart, \* workers.pull.run_on_start
  EndTick,    \* the tick that ends with 23:59:59.000
  LastTick,   \* the tick before midnight
  LastDay     \* bound on the clock

Records == [id : Ids, keys : SUBSET Keys]

ASSUME PullAssumption ==
  /\ Kinds \in Nat \ {0}
  /\ \A k \in 1 .. Kinds : \A list \in Rosters[k] : list \in Seq(Records)
  /\ RunOnStart \in BOOLEAN
  /\ EndTick \in Nat /\ LastTick \in Nat /\ EndTick < LastTick
  /\ LastDay \in Nat

VARIABLES
  day, tick,  \* the clock
  phase,      \* what Start does: pull on start, wait for the timer, pull
  nextRun,    \* the day at whose end the timer goes off
  kind,       \* the table pullAll fills, or 0
  answer,     \* the list the department sent for it
  todo,       \* the part of it that is not upserted yet
  count,      \* records of it upserted without an error
  local       \* per kind: the rows of the table

\* History variables: only the properties read them.
VARIABLES
  first,      \* the day the process was first due to pull at the end of
  fired,      \* the days for whose end the timer has gone off
  busy,       \* the days whose end came during a pull
  collided    \* an upsert of this answer has rewritten a row of another id

clock   == <<day, tick>>
pulling == <<kind, answer, todo, count, collided>>
vars    == <<day, tick, phase, nextRun, kind, answer, todo, count, local,
             first, fired, busy, collided>>

\* A row under some id, with the data of the department's record of.
Rows == [id : Ids, of : Ids, keys : SUBSET Keys]
RowOf(id, rec) == [id |-> id, of |-> rec.id, keys |-> rec.keys]

\* The PRIMARY KEY and the UNIQUE keys of a table hold.
IsTable(T) ==
  /\ T \subseteq Rows
  /\ \A a, b \in T : a # b => a.id # b.id /\ a.keys \cap b.keys = {}

KindIndex == 1 .. Kinds
Days == 0 .. LastDay + 1

TypeOK ==
  /\ day \in 0 .. LastDay /\ tick \in 0 .. LastTick
  /\ phase \in {"down", "initial", "wait", "pull"}
  /\ nextRun \in Days /\ first \in Days
  /\ kind \in KindIndex \cup {0}
  /\ answer \in Seq(Records) /\ todo \in Seq(Records)
  /\ count \in Nat /\ count + Len(todo) <= Len(answer)
  /\ local \in [KindIndex -> SUBSET Rows]
  /\ \A k \in KindIndex : IsTable(local[k])
  /\ fired \subseteq Days /\ busy \subseteq Days
  /\ collided \in BOOLEAN

Init ==
  /\ day = 0 /\ tick = 0
  /\ phase = "down"
  /\ nextRun = 0 /\ first = 0
  /\ kind = 0 /\ answer = <<>> /\ todo = <<>> /\ count = 0
  /\ local = [k \in KindIndex |-> {}]
  /\ fired = {} /\ busy = {}
  /\ collided = FALSE

-----------------------------------------------------------------------------
\* The clock reads later than the end of day d.
After(d) == d < day \/ (d = day /\ EndTick < tick)

\* Mutant of NextRun: the end of this day, past or not.
NextRunThisDay == day

\* Mutant of NextRun: always the end of the next day.
NextRunNextDay == day + 1

\* getNextRunTime: the end of this day, or of the next one once it is past. The
\* code adds 24 hours: days are as long as that, the zone has no daylight saving.
NextRun == IF After(day) THEN day + 1 ELSE day

InPull == phase \in {"initial", "pull"}

(* Time passes. Nothing holds a timer back that is due while Start waits.  *)
Tick ==
  /\ ~(phase = "wait" /\ After(nextRun))
  /\ \/ /\ tick < LastTick
        /\ tick' = tick + 1
        /\ UNCHANGED day
     \/ /\ tick = LastTick /\ day < LastDay
        /\ tick' = 0
        /\ day' = day + 1
  /\ busy' = IF InPull /\ tick = EndTick THEN busy \cup {day} ELSE busy
  /\ UNCHANGED <<phase, nextRun, pulling, local, first, fired>>

(* Start: the first run is computed before the pull on start.              *)
Start ==
  /\ phase = "down"
  /\ nextRun' = NextRun
  /\ first' = NextRun
  /\ phase' = IF RunOnStart THEN "initial" ELSE "wait"
  /\ kind' = IF RunOnStart THEN 1 ELSE 0
  /\ UNCHANGED <<clock, answer, todo, count, collided, local, fired, busy>>

(* The timer goes off.                                                     *)
Fire ==
  /\ phase = "wait"
  /\ After(nextRun)
  /\ phase' = "pull"
  /\ kind' = 1
  /\ fired' = fired \cup {nextRun}
  /\ UNCHANGED <<clock, nextRun, answer, todo, count, collided, local, first,
                 busy>>

\* Nothing of the last table is left in hand.
Forget ==
  /\ answer' = <<>> /\ todo' = <<>>
  /\ count' = 0
  /\ collided' = FALSE

\* pullAll goes on to the next table. After the last one a pull of the timer
\* sets it again; the pull on start leaves it as it is.
NextKind ==
  /\ Forget
  /\ \/ /\ kind < Kinds
        /\ kind' = kind + 1
        /\ UNCHANGED <<phase, nextRun>>
     \/ /\ kind = Kinds
        /\ kind' = 0
        /\ phase' = "wait"
        /\ nextRun' = IF phase = "pull" THEN NextRun ELSE nextRun

\* Mutant of FetchFails: the pull starts all over again.
FetchFailsAgain ==
  /\ InPull /\ answer = <<>>
  /\ kind' = 1
  /\ Forget
  /\ UNCHANGED <<clock, phase, nextRun, local, first, fired, busy>>

(* The GET fails, its status is not 200 or its body is no list: the error  *)
(* is logged and pullAll goes on.                                          *)
FetchFails ==
  /\ InPull /\ answer = <<>>
  /\ NextKind
  /\ UNCHANGED <<clock, local, first, fired, busy>>

(* The department answers with a list, which may be empty.                 *)
Fetch ==
  /\ InPull /\ answer = <<>>
  /\ \E list \in Rosters[kind] :
       \/ list = <<>> /\ NextKind
       \/ /\ list # <<>>
          /\ answer' = list /\ todo' = list
          /\ UNCHANGED <<phase, nextRun, kind, count, collided>>
  /\ UNCHANGED <<clock, local, first, fired, busy>>

-----------------------------------------------------------------------------
\* The rows ON DUPLICATE KEY UPDATE may choose from: the one with this id,
\* or else any that has a unique value in common with the record.
Sharing(T, rec) == {row \in T : row.keys \cap rec.keys # {}}
Duplicates(T, rec) ==
  LET own == {row \in T : row.id = rec.id}
  IN  IF own # {} THEN own ELSE Sharing(T, rec)

\* Mutant of Upserted: REPLACE INTO deletes what is in the way.
Replaced(T, rec) ==
  {(T \ (Sharing(T, rec) \cup Duplicates(T, rec))) \cup {RowOf(rec.id, rec)}}

\* The tables UpsertTeacher, UpsertStudent or UpsertClass may leave when it
\* is executed. The row updated keeps its id; the update is refused if some
\* third row has a unique value of the record. classes.id is AUTO_INCREMENT:
\* the department's ids are taken not to be 0, which MySQL would renumber.
Upserted(T, rec) ==
  IF Duplicates(T, rec) = {}
  THEN {T \cup {RowOf(rec.id, rec)}}
  ELSE {(T \ {row}) \cup {RowOf(row.id, rec)} :
          row \in {d \in Duplicates(T, rec) : Sharing(T, rec) \ {d} = {}}}

\* Some row of another id is what the upsert has to go through.
Collides(T, rec) ==
  \E row \in Duplicates(T, rec) \cup Sharing(T, rec) : row.id # rec.id

\* Mutant of Counted: failed upserts are counted as well.
CountedAll(ok) == count' = count + 1

\* Mutant of Counted: a record is counted twice.
CountedTwice(ok) == count' = IF ok THEN count + 2 ELSE count

\* Only an upsert that returned nil is counted.
Counted(ok) == count' = IF ok THEN count + 1 ELSE count

(* One record of the answer is upserted. An error is logged and the record *)
(* skipped; the statement may have been executed all the same.             *)
Upsert ==
  LET rec == Head(todo)
  IN  /\ InPull /\ todo # <<>>
      /\ todo' = Tail(todo)
      /\ \/ \E T \in Upserted(local[kind], rec), ok \in BOOLEAN :
              /\ local' = [local EXCEPT ![kind] = T]
              /\ Counted(ok)
         \/ Counted(FALSE) /\ UNCHANGED local
      /\ collided' = (collided \/ Collides(local[kind], rec))
      /\ UNCHANGED <<clock, phase, nextRun, kind, answer, first, fired, busy>>

(* The whole list is done.                                                 *)
KindDone ==
  /\ InPull /\ answer # <<>> /\ todo = <<>>
  /\ NextKind
  /\ UNCHANGED <<clock, local, first, fired, busy>>

(* A signal, a crash: the process is gone, in the middle of a pull or not. *)
(* (Between cancel() and the exit calls fail, as any call may.)            *)
Stop ==
  /\ phase # "down"
  /\ phase' = "down"
  /\ kind' = 0
  /\ Forget
  /\ UNCHANGED <<clock, nextRun, local, first, fired, busy>>

PullAll == Fetch \/ FetchFails \/ Upsert \/ KindDone

Next == Tick \/ Start \/ Fire \/ PullAll \/ Stop

\* Every call of a pull returns: the HTTP client has a timeout of a minute.
Fairness == WF_vars(PullAll)

Spec == Init /\ [][Next]_vars /\ Fairness

-----------------------------------------------------------------------------
(* A list of which every record was upserted without an error is in the    *)
(* table, each record under its own id, unless some record had to go       *)
(* through a row of another id: then one of the two may be missing, with   *)
(* the count as full as ever (service.go:67-80, repository.go:176-205).    *)
MirrorsAnswer ==
  answer # <<>> /\ todo = <<>> /\ count = Len(answer) /\ ~collided
    => \A i \in DOMAIN answer : RowOf(answer[i].id, answer[i]) \in local[kind]

(* No upsert ever takes an id out of a table: the scores and assignments   *)
(* that refer to it are deleted with it (ON DELETE CASCADE), and they are  *)
(* nowhere else (repository.go:175-260).                                   *)
IdsOf(T) == {row.id : row \in T}
RowsAreKept ==
  [][\A k \in KindIndex : IdsOf(local[k]) \subseteq IdsOf(local'[k])]_vars

(* The end of a day sets off at most one pull, also when the pull ends     *)
(* within the last second of the day, or lasts past midnight, or the       *)
(* process is restarted (pull.go:71-97).                                   *)
ServedOnce ==
  [][phase = "wait" /\ phase' = "pull" => nextRun \notin fired]_vars

(* While the process is up no end of day goes by without a pull: it sets   *)
(* one off, or one is going on (pull.go:42-97).                            *)
NoDayMissed ==
  phase # "down" =>
    \A d \in first .. LastDay : After(d) => d \in fired \cup busy \cup {nextRun}

(* A pull ends, however many of its calls fail (pull.go:99-146).           *)
PullEnds == InPull ~> ~InPull
=============================================================================
