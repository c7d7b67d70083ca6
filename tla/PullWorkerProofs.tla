-------------------------- MODULE PullWorkerProofs --------------------------
(***************************************************************************)
(* Proofs about PullWorker, for every length of the day, every number of   *)
(* tables and every list the department may answer with.                   *)
(***************************************************************************)
EXTENDS PullWorker, TLAPS

-----------------------------------------------------------------------------
(* What one upsert does to a table.                                        *)

\* It leaves a table, and each id that was in it.
LEMMA UpsertedTable ==
  ASSUME NEW T, IsTable(T), NEW rec \in Records, NEW U \in Upserted(T, rec)
  PROVE  IsTable(U) /\ IdsOf(T) \subseteq IdsOf(U)
<1> USE DEF IsTable, Rows, Records, RowOf, Sharing
<1>1. CASE Duplicates(T, rec) = {}
  <2>1. U = T \cup {RowOf(rec.id, rec)}
    BY <1>1 DEF Upserted
  <2>2. \A row \in T : row.id # rec.id /\ row.keys \cap rec.keys = {}
    BY <1>1 DEF Duplicates
  <2> QED
    BY <2>1, <2>2 DEF IdsOf
<1>2. CASE Duplicates(T, rec) # {}
  <2>1. PICK row \in Duplicates(T, rec) :
          /\ Sharing(T, rec) \ {row} = {}
          /\ U = (T \ {row}) \cup {RowOf(row.id, rec)}
    BY <1>2 DEF Upserted
  <2>2. row \in T
    BY <2>1 DEF Duplicates
  <2>3. \A other \in T \ {row} :
          other.id # row.id /\ other.keys \cap rec.keys = {}
    BY <2>1, <2>2
  <2>4. IsTable(U)
    BY <2>1, <2>2, <2>3
  <2>5. \A r \in T : \E u \in U : u.id = r.id
    <3>1. RowOf(row.id, rec) \in U /\ RowOf(row.id, rec).id = row.id
      BY <2>1
    <3>2. \A r \in T : r = row \/ r \in U
      BY <2>1
    <3> QED
      BY <3>1, <3>2
  <2> QED
    BY <2>4, <2>5 DEF IdsOf
<1> QED
  BY <1>1, <1>2

\* Without a collision the record is there afterwards, and so is every row of
\* another id.
LEMMA UpsertedRows ==
  ASSUME NEW T, IsTable(T), NEW rec \in Records, NEW U \in Upserted(T, rec),
         ~Collides(T, rec)
  PROVE  /\ RowOf(rec.id, rec) \in U
         /\ \A row \in T : row.id # rec.id => row \in U
<1> USE DEF Collides
<1>1. CASE Duplicates(T, rec) = {}
  BY <1>1 DEF Upserted
<1>2. CASE Duplicates(T, rec) # {}
  <2>1. PICK row \in Duplicates(T, rec) :
          U = (T \ {row}) \cup {RowOf(row.id, rec)}
    BY <1>2 DEF Upserted
  <2>2. row.id = rec.id
    BY <2>1
  <2> QED
    BY <2>1, <2>2
<1> QED
  BY <1>1, <1>2

-----------------------------------------------------------------------------
(* Type correctness.                                                       *)

\* A pull is at some table; without one nothing is in hand.
KindInv == InPull <=> kind # 0

LEMMA NextRunDay ==
  ASSUME TypeOK
  PROVE  NextRun \in Days /\ ~After(NextRun)
BY PullAssumption DEF TypeOK, PullAssumption, NextRun, Days, After

\* Nothing is in hand any more.
LEMMA ForgetType ==
  ASSUME TypeOK, Forget, UNCHANGED <<clock, local, first, fired, busy>>,
         phase' \in {"down", "initial", "wait", "pull"}, nextRun' \in Days,
         kind' \in KindIndex \cup {0}
  PROVE  TypeOK'
<1>1. <<>> \in Seq(Records) /\ Len(<<>>) = 0
  OBVIOUS
<1>2. /\ answer' \in Seq(Records) /\ todo' \in Seq(Records)
      /\ count' \in Nat /\ count' + Len(todo') <= Len(answer')
      /\ collided' \in BOOLEAN
  <2>1. /\ answer' = <<>> /\ todo' = <<>> /\ count' = 0
        /\ collided' = FALSE
    BY DEF Forget
  <2>2. Len(answer') = 0 /\ Len(todo') = 0
    BY <1>1, <2>1
  <2>3. count' + Len(todo') <= Len(answer')
    BY <2>1, <2>2
  <2> QED
    BY <1>1, <2>1, <2>3
<1>3. /\ day' \in 0 .. LastDay /\ tick' \in 0 .. LastTick /\ first' \in Days
      /\ fired' \subseteq Days /\ busy' \subseteq Days
      /\ local' \in [KindIndex -> SUBSET Rows]
      /\ \A k \in KindIndex : IsTable(local'[k])
  BY DEF TypeOK, clock
<1> QED
  BY <1>2, <1>3 DEF TypeOK

LEMMA NextKindType ==
  ASSUME TypeOK, KindInv, InPull, NextKind,
         UNCHANGED <<clock, local, first, fired, busy>>
  PROVE  TypeOK' /\ KindInv'
<1> USE PullAssumption DEF PullAssumption
<1>1. /\ phase' \in {"down", "initial", "wait", "pull"} /\ nextRun' \in Days
      /\ kind' \in KindIndex \cup {0}
      /\ KindInv'
  <2>1. CASE kind < Kinds /\ kind' = kind + 1 /\ UNCHANGED <<phase, nextRun>>
    BY <2>1 DEF TypeOK, KindInv, InPull, KindIndex
  <2>2. CASE /\ kind = Kinds /\ kind' = 0 /\ phase' = "wait"
             /\ nextRun' = IF phase = "pull" THEN NextRun ELSE nextRun
    BY <2>2, NextRunDay DEF TypeOK, KindInv, InPull
  <2> QED
    BY <2>1, <2>2 DEF NextKind
<1> QED
  BY <1>1, ForgetType DEF NextKind

LEMMA TypeStep ==
  ASSUME TypeOK, KindInv, [Next]_vars
  PROVE  TypeOK' /\ KindInv'
<1> USE PullAssumption DEF PullAssumption, Days
<1>1. CASE Tick
  <2>1. day' \in 0 .. LastDay /\ tick' \in 0 .. LastTick
    BY <1>1 DEF Tick, TypeOK
  <2>2. day \in Days /\ (busy' = busy \/ busy' = busy \cup {day})
    BY <1>1 DEF Tick, TypeOK
  <2>3. busy' \subseteq Days
    BY <2>2 DEF TypeOK
  <2> QED
    BY <1>1, <2>1, <2>3 DEF Tick, pulling, TypeOK, KindInv, InPull
<1>2. CASE Start
  BY <1>2, NextRunDay DEF Start, clock, TypeOK, KindInv, InPull, KindIndex
<1>3. CASE Fire
  BY <1>3 DEF Fire, clock, TypeOK, KindInv, InPull, KindIndex
<1>4. CASE FetchFails
  BY <1>4, NextKindType DEF FetchFails
<1>5. CASE Fetch
  <2>1. InPull /\ kind \in KindIndex /\ answer = <<>> /\ todo = <<>> /\ count = 0
    BY <1>5 DEF Fetch, TypeOK, KindInv
  <2>2. PICK list \in Rosters[kind] :
          \/ NextKind
          \/ /\ answer' = list /\ todo' = list
             /\ UNCHANGED <<phase, nextRun, kind, count, collided>>
    BY <1>5 DEF Fetch
  <2>3. list \in Seq(Records)
    BY <2>1 DEF KindIndex
  <2>4. CASE NextKind
    BY <1>5, <2>1, <2>4, NextKindType DEF Fetch
  <2>5. CASE /\ answer' = list /\ todo' = list
             /\ UNCHANGED <<phase, nextRun, kind, count, collided>>
    BY <1>5, <2>1, <2>3, <2>5 DEF Fetch, clock, TypeOK, KindInv, InPull
  <2> QED
    BY <2>2, <2>4, <2>5
<1>6. CASE Upsert
  <2>1. /\ kind \in KindIndex /\ Head(todo) \in Records
        /\ todo' \in Seq(Records) /\ Len(todo') = Len(todo) - 1
    BY <1>6 DEF Upsert, TypeOK, KindInv
  <2>2. count' \in Nat /\ count' <= count + 1
    BY <1>6 DEF Upsert, Counted, TypeOK
  <2>3. /\ local' \in [KindIndex -> SUBSET Rows]
        /\ \A k \in KindIndex : IsTable(local'[k])
    <3>1. CASE UNCHANGED local
      BY <3>1 DEF TypeOK
    <3>2. CASE \E T \in Upserted(local[kind], Head(todo)) :
                 local' = [local EXCEPT ![kind] = T]
      <4>1. PICK T \in Upserted(local[kind], Head(todo)) :
              local' = [local EXCEPT ![kind] = T]
        BY <3>2
      <4>2. IsTable(T)
        BY <2>1, <4>1, UpsertedTable DEF TypeOK
      <4>3. T \in SUBSET Rows
        BY <4>2 DEF IsTable
      <4> QED
        BY <2>1, <4>1, <4>2, <4>3 DEF TypeOK
    <3> QED
      BY <1>6, <3>1, <3>2 DEF Upsert
  <2>4. collided' \in BOOLEAN
    BY <1>6 DEF Upsert
  <2> QED
    BY <1>6, <2>1, <2>2, <2>3, <2>4 DEF Upsert, clock, TypeOK, KindInv, InPull
<1>7. CASE KindDone
  BY <1>7, NextKindType DEF KindDone
<1>8. CASE Stop
  <2>1. TypeOK'
    BY <1>8, ForgetType DEF Stop, TypeOK
  <2> QED
    BY <1>8, <2>1 DEF Stop, KindInv, InPull
<1>9. CASE UNCHANGED vars
  BY <1>9 DEF vars, TypeOK, KindInv, InPull
<1> QED
  BY <1>1, <1>2, <1>3, <1>4, <1>5, <1>6, <1>7, <1>8, <1>9 DEF Next, PullAll

LEMMA InitType == Init => TypeOK /\ KindInv
<1> SUFFICES ASSUME Init PROVE TypeOK /\ KindInv
  OBVIOUS
<1>1. answer \in Seq(Records) /\ todo \in Seq(Records)
  BY DEF Init
<1>2. count \in Nat /\ count + Len(todo) <= Len(answer)
  <2>1. Len(answer) = 0 /\ Len(todo) = 0 /\ count = 0
    BY DEF Init
  <2> QED
    BY <2>1
<1>3. /\ local \in [KindIndex -> SUBSET Rows]
      /\ \A k \in KindIndex : IsTable(local[k])
  BY DEF Init, IsTable
<1>4. /\ day \in 0 .. LastDay /\ tick \in 0 .. LastTick
      /\ nextRun \in Days /\ first \in Days /\ fired = {} /\ busy = {}
  BY PullAssumption DEF Init, PullAssumption, Days
<1> QED
  BY <1>1, <1>2, <1>3, <1>4 DEF Init, TypeOK, KindInv, InPull

LEMMA TypeInv == Spec => [](TypeOK /\ KindInv)
BY InitType, TypeStep, PTL DEF Spec

(* Every variable keeps its type, the tables their PRIMARY and UNIQUE keys *)
(* among them.                                                             *)
THEOREM PullTypeCorrect == Spec => []TypeOK
BY TypeInv, PTL

-----------------------------------------------------------------------------
(* No upsert takes an id out of a table, whichever row it lands on.        *)
THEOREM RowsKept == Spec => RowsAreKept
<1>1. TypeOK /\ KindInv /\ [Next]_vars =>
        [\A k \in KindIndex : IdsOf(local[k]) \subseteq IdsOf(local'[k])]_vars
  <2> SUFFICES ASSUME TypeOK, KindInv, Next, NEW k \in KindIndex
               PROVE  IdsOf(local[k]) \subseteq IdsOf(local'[k])
    OBVIOUS
  <2>1. CASE Upsert
    <3>1. kind \in KindIndex /\ Head(todo) \in Records
      BY <2>1 DEF Upsert, TypeOK, KindInv
    <3>2. CASE UNCHANGED local
      BY <3>2
    <3>3. CASE \E T \in Upserted(local[kind], Head(todo)) :
                 local' = [local EXCEPT ![kind] = T]
      BY <3>1, <3>3, UpsertedTable DEF TypeOK
    <3> QED
      BY <2>1, <3>2, <3>3 DEF Upsert
  <2>2. CASE UNCHANGED local
    BY <2>2
  <2> QED
    BY <2>1, <2>2
    DEF Next, PullAll, Tick, Start, Fire, Fetch, FetchFails, KindDone, Stop
<1> QED
  BY <1>1, TypeInv, PTL DEF Spec, RowsAreKept

-----------------------------------------------------------------------------
\* The timer is set for a day that has not been served, and for no day later
\* than the one NextRun would choose now; the days it has gone off for are
\* over.
TimerInv ==
  /\ \A d \in fired : After(d)
  /\ phase \in {"initial", "wait"} => nextRun \notin fired
  /\ phase = "pull" => nextRun \in fired
  /\ phase # "down" => nextRun <= NextRun

\* What each action does to the clock and to the timer.
LEMMA TimerSteps ==
  ASSUME [Next]_vars
  PROVE  \/ Tick
         \/ Start
         \/ Fire
         \/ /\ UNCHANGED <<clock, first, fired, busy>>
            /\ \/ UNCHANGED <<phase, nextRun>>
               \/ phase' = "down"
               \/ /\ InPull /\ phase' = "wait"
                  /\ nextRun' = IF phase = "pull" THEN NextRun ELSE nextRun
<1>1. CASE Fetch \/ FetchFails \/ KindDone
  BY <1>1 DEF Fetch, FetchFails, KindDone, NextKind
<1>2. CASE Upsert \/ Stop
  BY <1>2 DEF Upsert, Stop
<1>3. CASE UNCHANGED vars
  BY <1>3 DEF vars, clock
<1> QED
  BY <1>1, <1>2, <1>3 DEF Next, PullAll

LEMMA TimerInvStep ==
  ASSUME TypeOK, TimerInv, [Next]_vars
  PROVE  TimerInv'
<1> USE PullAssumption
    DEF PullAssumption, TypeOK, TimerInv, After, NextRun, Days, clock
<1>1. CASE Tick
  BY <1>1 DEF Tick
<1>2. CASE Start
  BY <1>2 DEF Start
<1>3. CASE Fire
  BY <1>3 DEF Fire
<1>4. CASE /\ UNCHANGED <<clock, first, fired, busy>>
           /\ \/ UNCHANGED <<phase, nextRun>>
              \/ phase' = "down"
              \/ /\ InPull /\ phase' = "wait"
                 /\ nextRun' = IF phase = "pull" THEN NextRun ELSE nextRun
  BY <1>4 DEF InPull
<1> QED
  BY <1>1, <1>2, <1>3, <1>4, TimerSteps

LEMMA TimerInvariant == Spec => []TimerInv
<1>1. Init => TimerInv
  BY DEF Init, TimerInv
<1> QED
  BY <1>1, TypeInv, TimerInvStep, PTL DEF Spec

(* The end of a day sets off at most one pull, however long pulls take and *)
(* whenever the process is stopped and started.                            *)
THEOREM DayServedOnce == Spec => ServedOnce
<1>1. TimerInv => [phase = "wait" /\ phase' = "pull" => nextRun \notin fired]_vars
  BY DEF TimerInv
<1> QED
  BY <1>1, TimerInvariant, PTL DEF ServedOnce

LEMMA NoDayMissedStep ==
  ASSUME TypeOK, TimerInv, NoDayMissed, [Next]_vars
  PROVE  NoDayMissed'
<1> USE PullAssumption
    DEF PullAssumption, TypeOK, NoDayMissed, After, NextRun, Days, clock
<1>1. CASE Tick
  BY <1>1 DEF Tick, TimerInv, InPull
<1>2. CASE Start
  BY <1>2 DEF Start
<1>3. CASE Fire
  BY <1>3 DEF Fire
<1>4. CASE /\ UNCHANGED <<clock, first, fired, busy>>
           /\ \/ UNCHANGED <<phase, nextRun>>
              \/ phase' = "down"
              \/ /\ InPull /\ phase' = "wait"
                 /\ nextRun' = IF phase = "pull" THEN NextRun ELSE nextRun
  BY <1>4 DEF TimerInv, InPull
<1> QED
  BY <1>1, <1>2, <1>3, <1>4, TimerSteps

(* While the process is up no end of day goes by without a pull.           *)
THEOREM DaysServed == Spec => []NoDayMissed
<1>1. Init => NoDayMissed
  BY DEF Init, NoDayMissed
<1> QED
  BY <1>1, TypeInv, TimerInvariant, NoDayMissedStep, PTL DEF Spec

-----------------------------------------------------------------------------
\* The department lists each id once.
IdsOnce(list) ==
  \A i, j \in DOMAIN list : i # j => list[i].id # list[j].id

\* What is still to do is the end of the answer; and as long as every record
\* so far was counted, the records before it are in the table.
AnswerInv ==
  /\ kind = 0 => answer = <<>>
  /\ Len(todo) <= Len(answer)
  /\ \A i \in 1 .. Len(todo) : todo[i] = answer[Len(answer) - Len(todo) + i]
  /\ answer # <<>> => IdsOnce(answer)
  /\ count + Len(todo) = Len(answer) /\ ~collided =>
       \A i \in 1 .. count : RowOf(answer[i].id, answer[i]) \in local[kind]

LEMMA AnswerUpsert ==
  ASSUME TypeOK, KindInv, AnswerInv, Upsert
  PROVE  AnswerInv'
<1> DEFINE rec == Head(todo)
           n == Len(answer) - Len(todo)
<1>1. /\ Len(todo) \in Nat \ {0} /\ Len(answer) \in Nat
      /\ Len(todo') = Len(todo) - 1
      /\ \A i \in 1 .. Len(todo') : todo'[i] = todo[i + 1]
      /\ rec = todo[1] /\ rec \in Records
  BY DEF Upsert, TypeOK
<1>2. UNCHANGED <<answer, kind>> /\ kind \in KindIndex
  BY DEF Upsert, TypeOK, KindInv
<1>3. n \in Nat /\ count \in Nat /\ count <= n /\ rec = answer[n + 1]
  BY <1>1 DEF AnswerInv, TypeOK
<1>4. \A i \in 1 .. Len(todo') : todo'[i] = answer'[Len(answer') - Len(todo') + i]
  BY <1>1, <1>2 DEF AnswerInv
<1>5. ASSUME count' + Len(todo') = Len(answer'), ~collided',
             NEW i \in 1 .. count'
      PROVE  RowOf(answer'[i].id, answer'[i]) \in local'[kind']
  <2>1. count' \in {count, count + 1}
    BY DEF Upsert, Counted
  <2>2. count' = n + 1
    <3>1. count' + (Len(todo) - 1) = Len(answer) /\ count' \in Nat
      BY <1>1, <1>2, <1>3, <1>5, <2>1
    <3> QED
      BY <1>1, <3>1
  <2>3. count = n /\ count' = count + 1
    BY <1>3, <2>1, <2>2
  <2>4. ~collided /\ ~Collides(local[kind], rec)
    BY <1>5 DEF Upsert
  <2>5. PICK T \in Upserted(local[kind], rec) :
          local' = [local EXCEPT ![kind] = T]
    BY <1>3, <2>3 DEF Upsert, Counted
  <2>6. /\ RowOf(rec.id, rec) \in T
        /\ \A row \in local[kind] : row.id # rec.id => row \in T
    BY <1>1, <1>2, <2>4, UpsertedRows DEF TypeOK
  <2>7. local'[kind'] = T
    BY <1>2, <2>5 DEF TypeOK
  <2>8. CASE i = n + 1
    BY <1>2, <1>3, <2>6, <2>7, <2>8
  <2>9. CASE i # n + 1
    <3>1. i \in 1 .. count /\ i \in DOMAIN answer /\ n + 1 \in DOMAIN answer
      <4>1. n + 1 <= Len(answer)
        BY <1>1
      <4>2. i \in 1 .. (n + 1)
        BY <1>5, <2>2
      <4>3. i \in 1 .. n
        BY <1>3, <2>9, <4>2
      <4>4. DOMAIN answer = 1 .. Len(answer)
        BY DEF TypeOK
      <4> QED
        BY <1>1, <1>3, <2>3, <4>1, <4>3, <4>4
    <3>2. answer[i].id # rec.id
      <4>1. IdsOnce(answer)
        BY <3>1 DEF AnswerInv
      <4> QED
        BY <1>3, <2>9, <3>1, <4>1 DEF IdsOnce
    <3>3. RowOf(answer[i].id, answer[i]) \in local[kind]
      BY <1>1, <2>3, <2>4, <3>1 DEF AnswerInv
    <3>4. RowOf(answer[i].id, answer[i]).id = answer[i].id
      BY DEF RowOf
    <3> QED
      BY <1>2, <2>6, <2>7, <3>2, <3>3, <3>4
  <2> QED
    BY <2>8, <2>9
<1> QED
  BY <1>1, <1>2, <1>4, <1>5 DEF AnswerInv

LEMMA AnswerInvStep ==
  ASSUME \A k \in KindIndex : \A list \in Rosters[k] : IdsOnce(list),
         TypeOK, KindInv, AnswerInv, [Next]_vars
  PROVE  AnswerInv'
<1>1. ASSUME Forget PROVE AnswerInv'
  <2>1. /\ answer' = <<>> /\ todo' = <<>> /\ count' = 0
        /\ Len(answer') = 0 /\ Len(todo') = 0
    BY <1>1 DEF Forget
  <2> QED
    BY <2>1 DEF AnswerInv
<1>2. CASE Fetch
  <2>1. PICK list \in Rosters[kind] :
          NextKind \/ (answer' = list /\ todo' = list /\ UNCHANGED count)
    BY <1>2 DEF Fetch
  <2>2. CASE NextKind
    BY <1>1, <2>2 DEF NextKind
  <2>3. CASE answer' = list /\ todo' = list /\ UNCHANGED count
    <3>1. kind \in KindIndex
      BY <1>2 DEF Fetch, TypeOK, KindInv
    <3>2. list \in Seq(Records) /\ IdsOnce(list) /\ Len(list) \in Nat
      BY <3>1, PullAssumption DEF PullAssumption, KindIndex
    <3>3. count \in Nat /\ count = 0
      <4>1. count + Len(todo) <= 0 /\ count \in Nat /\ Len(todo) \in Nat
        BY <1>2 DEF Fetch, TypeOK
      <4> QED
        BY <4>1
    <3>4. kind' # 0 \/ answer' = <<>>
      BY <1>2, <2>3, <3>1, PullAssumption
      DEF Fetch, NextKind, Forget, KindIndex, PullAssumption
    <3>5. count' = 0 /\ Len(todo') = Len(answer') /\ todo' = answer'
      BY <2>3, <3>3
    <3>6. IdsOnce(answer')
      BY <2>3, <3>2
    <3> QED
      BY <2>3, <3>2, <3>4, <3>5, <3>6 DEF AnswerInv, IdsOnce
  <2> QED
    BY <2>1, <2>2, <2>3
<1>3. CASE FetchFails \/ KindDone \/ Stop
  BY <1>1, <1>3 DEF FetchFails, KindDone, Stop, NextKind
<1>4. CASE Upsert
  BY <1>4, AnswerUpsert
<1>5. CASE Start \/ Fire
  <2>1. answer = <<>> /\ UNCHANGED <<answer, todo, count>>
    BY <1>5 DEF Start, Fire, InPull, KindInv, AnswerInv
  <2>2. /\ Len(answer) = 0 /\ Len(todo) \in Nat /\ count \in Nat
        /\ count + Len(todo) <= 0
    BY <2>1 DEF TypeOK
  <2>3. count = 0 /\ Len(todo) = 0
    BY <2>2
  <2> QED
    BY <2>1, <2>2, <2>3 DEF AnswerInv
<1>6. CASE Tick \/ UNCHANGED vars
  BY <1>6 DEF Tick, vars, pulling, AnswerInv, IdsOnce
<1> QED
  BY <1>2, <1>3, <1>4, <1>5, <1>6 DEF Next, PullAll

(* A list of which every record was upserted without an error and without  *)
(* a collision is in the table, if the department lists each id once.      *)
THEOREM AnswerMirrored ==
  ASSUME \A k \in KindIndex : \A list \in Rosters[k] : IdsOnce(list)
  PROVE  Spec => []MirrorsAnswer
<1>1. Init => AnswerInv
  <2> SUFFICES ASSUME Init PROVE AnswerInv
    OBVIOUS
  <2>1. answer = <<>> /\ todo = <<>> /\ count = 0
    BY DEF Init
  <2>2. Len(answer) = 0 /\ Len(todo) = 0
    BY <2>1
  <2> QED
    BY <2>1, <2>2 DEF AnswerInv
<1>2. TypeOK /\ KindInv /\ AnswerInv /\ [Next]_vars => AnswerInv'
  BY AnswerInvStep
<1>3. TypeOK /\ AnswerInv => MirrorsAnswer
  <2> SUFFICES ASSUME TypeOK, AnswerInv, answer # <<>>, todo = <<>>,
                      count = Len(answer), ~collided, NEW i \in DOMAIN answer
               PROVE  RowOf(answer[i].id, answer[i]) \in local[kind]
    BY DEF MirrorsAnswer
  <2>1. DOMAIN answer = 1 .. count /\ count \in Nat
    BY DEF TypeOK
  <2>2. Len(todo) = 0
    OBVIOUS
  <2>3. count + Len(todo) = Len(answer)
    BY <2>1, <2>2
  <2> QED
    BY <2>1, <2>3 DEF AnswerInv
<1> QED
  BY <1>1, <1>2, <1>3, TypeInv, PTL DEF Spec
=============================================================================
