------------------------- MODULE GradeSystemProofs -------------------------
(***************************************************************************)
(* Proofs about GradeSystem, for every number of files, rows, requests,    *)
(* workers and messages, and for every answer of the department.           *)
(*                                                                         *)
(* The sync service inside it makes only the steps SyncService allows, so  *)
(* what is proved of SyncService holds here too; ClearedInv then follows   *)
(* a request from the status of its file to the rows of a batch,           *)
(* and TicketInv gives each running job the number of a copy that has left *)
(* the list, no two the same.                                              *)
(***************************************************************************)
EXTENDS GradeSystem, SyncRefinementProofs

-----------------------------------------------------------------------------
(* Composition: each action of the system is an action of the sync service *)
(* or leaves its variables alone.                                          *)

LEMMA SysStepIsSyncStep == [SysNext]_sysvars => [Next]_vars
<1> SUFFICES ASSUME [SysNext]_sysvars PROVE [Next]_vars
  OBVIOUS
<1>1. ASSUME NEW f \in Files, StageFile(f) \/ MarkFile(f) \/ GetGradesStatus(f)
      PROVE  [Next]_vars
  <2>1. RowsOf(f) \subseteq Rows
    BY DEF RowsOf
  <2> QED
    BY <1>1, <2>1 DEF StageFile, MarkFile, GetGradesStatus, Next
<1>2. ASSUME NEW t \in Requests, TriggerSync(t) \/ LoseMessage(t)
      PROVE  UNCHANGED vars
  BY <1>2
  DEF TriggerSync, GetFile, CheckSyncPermission, EnqueueSyncJob, LoseMessage
<1>3. ASSUME NEW w \in Workers, BeginJob(w) PROVE Next
  <2>1. PICK t \in Requests : Begin(w, JobOf[t])
    BY <1>3 DEF BeginJob
  <2>2. JobOf[t] \in Jobs
    BY SystemAssumption DEF SystemAssumption
  <2> QED
    BY <2>1, <2>2 DEF Next
<1>4. ASSUME NEW w \in Workers, AskPermission(w) \/ RunJob(w) PROVE Next
  BY <1>4 DEF AskPermission, RunJob, ProcessSyncJob, Next
<1>5. ASSUME NEW p \in Processes, StopWorker(p) PROVE Next
  BY <1>5 DEF StopWorker, Next
<1>6. CASE RestartAPI \/ UNCHANGED sysvars
  BY <1>6 DEF RestartAPI, sysvars
<1> QED
  BY <1>1, <1>2, <1>3, <1>4, <1>5, <1>6 DEF SysNext

(* The sync service, put behind the API, the list and the ingestion, makes *)
(* no step that SyncService does not allow.                                *)
THEOREM Composition == SysSpec => ImplementsSync
BY SysStepIsSyncStep, PTL DEF SysSpec, SysInit, ImplementsSync

\* What SyncService's invariants are built from.
LEMMA SysIInv == SysSpec => []IInv
BY InitIInv, NextIInv, SysStepIsSyncStep, PTL DEF SysSpec, SysInit

(* In the whole system, too, a held row is marked FAILED, and a row is     *)
(* sent again, only for a cause.                                           *)
THEOREM SysCauses == SysSpec => [](FailedStoredHasCause /\ ResentHasCause)
<1>1. IInv => FailedStoredHasCause /\ ResentHasCause
  BY DEF IInv
<1> QED
  BY <1>1, SysIInv, PTL

LEMMA SysRefInv ==
  ASSUME ~RejectsWholeBatch
  PROVE  SysSpec => []RefInv
<1>1. Init => RefInv
  BY InitIInv DEF Init, RefInv, StoredInv, SyncedIsStored
<1>2. RefInv /\ [Next]_vars => RefInv'
  BY RefInvStep
<1> QED
  BY <1>1, <1>2, SysStepIsSyncStep, PTL DEF SysSpec, SysInit

(* The whole system keeps the promise of GradeLifecycle.                   *)
THEOREM SysRefinement ==
  ASSUME ~RejectsWholeBatch
  PROVE  SysSpec => ImplementsLifecycle
<1>1. Init => Lifecycle!Init
  BY DEF Init, Lifecycle!Init
<1>2. RefInv /\ [Next]_vars => [Lifecycle!Next]_(Lifecycle!vars)
  BY LifecycleStep
<1> QED
  BY <1>1, <1>2, SysRefInv, SysStepIsSyncStep, PTL
  DEF SysSpec, SysInit, ImplementsLifecycle, Lifecycle!Spec

-----------------------------------------------------------------------------
(* Type correctness.                                                       *)

LEMMA CopiesNat == Cardinality(Copies) \in Nat
<1>1. IsFiniteSet(1 .. MaxMessages)
  BY FS_Interval, SystemAssumption DEF SystemAssumption
<1>2. IsFiniteSet(Requests \X (1 .. MaxMessages))
  BY <1>1, FS_Product, SystemAssumption DEF SystemAssumption
<1>3. Copies \subseteq Requests \X (1 .. MaxMessages)
  BY DEF Copies
<1> QED
  BY <1>2, <1>3, FS_Subset, FS_CardinalityType

LEMMA SysTypeOKStep == SysTypeOK /\ [SysNext]_sysvars => SysTypeOK'
<1> SUFFICES ASSUME SysTypeOK, [SysNext]_sysvars PROVE SysTypeOK'
  OBVIOUS
<1> USE DEF SysTypeOK, InHandler
<1>1. ASSUME NEW f \in Files, StageFile(f) PROVE SysTypeOK'
  BY <1>1 DEF StageFile, front
<1>2. ASSUME NEW f \in Files, MarkFile(f) PROVE SysTypeOK'
  BY <1>2 DEF MarkFile
<1>3. ASSUME NEW f \in Files, GetGradesStatus(f) PROVE SysTypeOK'
  BY <1>3 DEF GetGradesStatus, Present, RowsOf
<1>4. ASSUME NEW t \in Requests, GetFile(t) \/ CheckSyncPermission(t)
      PROVE  SysTypeOK'
  BY <1>4 DEF GetFile, CheckSyncPermission, Judge, Step
<1>5. ASSUME NEW t \in Requests, EnqueueSyncJob(t) PROVE SysTypeOK'
  <2>1. PICK copies \in 0 .. (MaxMessages - Cardinality(Copies)) :
          /\ messages' = [messages EXCEPT ![t] = copies]
          /\ pushed' = [pushed EXCEPT ![t] = copies]
    BY <1>5 DEF EnqueueSyncJob
  <2>2. copies \in 0 .. MaxMessages
    BY CopiesNat, SystemAssumption DEF SystemAssumption
  <2> QED
    BY <1>5, <2>1, <2>2 DEF EnqueueSyncJob, Step
<1>6. ASSUME NEW t \in Requests, LoseMessage(t) PROVE SysTypeOK'
  <2>1. messages[t] - 1 \in 0 .. MaxMessages
    BY <1>6, SystemAssumption DEF LoseMessage, SystemAssumption
  <2> QED
    BY <1>6, <2>1 DEF LoseMessage, front
<1>7. ASSUME NEW w \in Workers, BeginJob(w) PROVE SysTypeOK'
  <2>1. PICK t \in Requests :
          /\ messages[t] > 0
          /\ messages' = [messages EXCEPT ![t] = @ - 1]
    BY <1>7 DEF BeginJob
  <2>2. messages[t] - 1 \in 0 .. MaxMessages
    BY <2>1, SystemAssumption DEF SystemAssumption
  <2> QED
    BY <1>7, <2>1, <2>2 DEF BeginJob, front
<1>8. ASSUME NEW w \in Workers, AskPermission(w) \/ RunJob(w)
      PROVE  SysTypeOK'
  BY <1>8 DEF AskPermission, RunJob, front
<1>9. ASSUME NEW p \in Processes, StopWorker(p) PROVE SysTypeOK'
  BY <1>9 DEF StopWorker, front
<1>10. CASE RestartAPI
  BY <1>10 DEF RestartAPI
<1>11. CASE UNCHANGED sysvars
  BY <1>11 DEF sysvars
<1> QED
  BY <1>1, <1>2, <1>3, <1>4, <1>5, <1>6, <1>7, <1>8, <1>9, <1>10, <1>11
  DEF SysNext, TriggerSync

(* Every variable the system adds keeps its type; in particular no message *)
(* is taken that was not there.                                            *)
THEOREM SysTypeCorrect == SysSpec => []SysTypeOK
<1>1. SysInit => SysTypeOK
  BY SystemAssumption DEF SysInit, SysTypeOK, SystemAssumption
<1> QED
  BY <1>1, SysTypeOKStep, PTL DEF SysSpec

-----------------------------------------------------------------------------
\* A schedule never grants anything: the times GetActiveSchedule leaves zero
\* are in the past. What is granted the department has allowed outright.
LEMMA GrantIsAllowed ==
  ASSUME NEW a \in Answers, Permits(a)
  PROVE  a.isAllowed
<1>1. ASSUME NEW s \in ActiveSchedule(a) PROVE s.end = 0
  <2>1. PICK u \in a.schedule : s = [u EXCEPT !.start = 0, !.end = 0]
    BY <1>1 DEF ActiveSchedule
  <2>2. u \in Schedules
    BY <2>1, SystemAssumption DEF SystemAssumption, IsAnswer
  <2> QED
    BY <2>1, <2>2 DEF Schedules
<1> QED
  BY <1>1, SystemAssumption DEF Permits, Opens, SystemAssumption

\* A permission the list has received a message for.
Backed(t) == t \in cleared /\ pushed[t] > 0

\* A request on its way to the push is cleared, and has pushed nothing before;
\* a message, and the job of a worker, go back to a cleared request.
ClearedInv ==
  /\ \A t \in Requests :
       /\ request[t] # "answered" => pushed[t] = 0 /\ messages[t] = 0
       /\ request[t] \in InHandler => t \in cleared
       /\ messages[t] <= pushed[t]
       /\ pushed[t] > 0 => t \in cleared
  /\ \A w \in Workers :
       pc[w] # "idle" => \E t \in Requests : Backed(t) /\ JobOf[t] = job[w]

\* A batch is a part of its job.
BatchInv == \A w \in Workers : batch[w] \subseteq Target[job[w]]

\* The requests that are backed, and the workers that have a job, before and
\* after a step.
LEMMA BackedStep ==
  ASSUME SysTypeOK, ClearedInv, [SysNext]_sysvars, NEW u \in Requests, Backed(u)
  PROVE  Backed(u)'
<1> USE DEF Backed, SysTypeOK, ClearedInv
<1>1. ASSUME NEW t \in Requests, EnqueueSyncJob(t) PROVE Backed(u)'
  BY <1>1 DEF EnqueueSyncJob, Step
<1>2. ASSUME NEW t \in Requests, GetFile(t) \/ CheckSyncPermission(t)
      PROVE  Backed(u)'
  BY <1>2 DEF GetFile, CheckSyncPermission, Judge, Step
<1>3. CASE RestartAPI
  BY <1>3 DEF RestartAPI, InHandler
<1>4. CASE UNCHANGED <<cleared, pushed>>
  BY <1>4
<1> QED
  BY <1>1, <1>2, <1>3, <1>4
  DEF SysNext, TriggerSync, StageFile, MarkFile, GetGradesStatus, LoseMessage,
      BeginJob, AskPermission, RunJob, StopWorker, RestartAPI, sysvars

LEMMA JobKept ==
  ASSUME TypeOK, NEW v \in Workers, ProcessSyncJob(v),
         NEW w \in Workers, pc'[w] # "idle"
  PROVE  pc[w] # "idle" /\ job'[w] = job[w]
<1> USE DEF TypeOK
<1>1. CASE CheckPermission(v) \/ BackoffCancelled(v)
  BY <1>1 DEF CheckPermission, BackoffCancelled, Return, local
<1>2. CASE GetReadyGrades(v)
  BY <1>2, FetchEffect DEF Return
<1>3. CASE SendAnswered(v) \/ SendFailed(v) \/ RetriesExhausted(v)
  BY <1>3 DEF SendAnswered, SendFailed, RetriesExhausted, Decide
<1>4. CASE MarkSynced(v) \/ MarkFailed(v)
  BY <1>4 DEF MarkSynced, MarkFailed, UpdateFailed, EndBatch, Return, local
<1> QED
  BY <1>1, <1>2, <1>3, <1>4 DEF ProcessSyncJob

\* A worker that has a job had it before, or has just been called with it.
LEMMA WorkingStep ==
  ASSUME TypeOK, [SysNext]_sysvars, NEW w \in Workers, pc'[w] # "idle"
  PROVE  \/ pc[w] # "idle" /\ job'[w] = job[w]
         \/ \E t \in Requests :
              /\ messages[t] > 0
              /\ job'[w] = JobOf[t]
<1> USE DEF TypeOK
<1>1. ASSUME NEW v \in Workers, BeginJob(v)
      PROVE  \/ pc[w] # "idle" /\ job'[w] = job[w]
             \/ \E t \in Requests :
                  /\ messages[t] > 0
                  /\ job'[w] = JobOf[t]
  <2>1. PICK t \in Requests : messages[t] > 0 /\ Begin(v, JobOf[t])
    BY <1>1 DEF BeginJob
  <2>2. JobOf[t] \in Jobs
    BY SystemAssumption DEF SystemAssumption
  <2>3. CASE v = w
    BY <2>1, <2>2, <2>3 DEF Begin
  <2>4. CASE v # w
    BY <2>1, <2>4 DEF Begin
  <2> QED
    BY <2>3, <2>4
<1>2. ASSUME NEW v \in Workers, AskPermission(v) \/ RunJob(v)
      PROVE  pc[w] # "idle" /\ job'[w] = job[w]
  BY <1>2, JobKept DEF AskPermission, RunJob, ProcessSyncJob
<1>3. ASSUME NEW p \in Processes, StopWorker(p)
      PROVE  pc[w] # "idle" /\ job'[w] = job[w]
  BY <1>3 DEF StopWorker, Cancel, Restart, local
<1>4. CASE UNCHANGED <<pc, job>>
  BY <1>4
<1> QED
  BY <1>1, <1>2, <1>3, <1>4
  DEF SysNext, TriggerSync, StageFile, MarkFile, GetGradesStatus, GetFile,
      CheckSyncPermission, EnqueueSyncJob, LoseMessage, RestartAPI,
      InsertGrades, local, vars, sysvars

LEMMA BatchInvStep ==
  ASSUME TypeOK, LocalsInv, BatchInv, [Next]_vars
  PROVE  BatchInv'
<1> USE DEF TypeOK, BatchInv
<1>1. ASSUME NEW w \in Workers, CheckPermission(w) \/ BackoffCancelled(w)
      PROVE  BatchInv'
  BY <1>1 DEF CheckPermission, BackoffCancelled, Return, local
<1>2. ASSUME NEW w \in Workers, GetReadyGrades(w) PROVE BatchInv'
  BY <1>2, FetchEffect DEF Return, ReadyOf
<1>3. ASSUME NEW w \in Workers,
             SendAnswered(w) \/ SendFailed(w) \/ RetriesExhausted(w)
      PROVE  BatchInv'
  BY <1>3 DEF SendAnswered, SendFailed, RetriesExhausted
<1>4. ASSUME NEW w \in Workers, MarkSynced(w) \/ MarkFailed(w)
      PROVE  BatchInv'
  <2>1. \/ batch' = [batch EXCEPT ![w] = {}]
        \/ UNCHANGED batch
    BY <1>4 DEF MarkSynced, MarkFailed, UpdateFailed, EndBatch, Return, local
  <2>2. \A v \in Workers : v # w => job'[v] = job[v]
    BY <1>4 DEF MarkSynced, MarkFailed, UpdateFailed, EndBatch, Return, local
  <2>3. batch' = [batch EXCEPT ![w] = {}] \/ job'[w] = job[w]
    BY <1>4 DEF MarkSynced, MarkFailed, UpdateFailed, EndBatch, Return, local
  <2> QED
    BY <2>1, <2>2, <2>3
<1>5. ASSUME NEW w \in Workers, NEW j \in Jobs, Begin(w, j) PROVE BatchInv'
  BY <1>5 DEF Begin, LocalsInv
<1>6. ASSUME NEW p \in Processes, Cancel(p) PROVE BatchInv'
  BY <1>6 DEF Cancel, local
<1>7. ASSUME NEW p \in Processes, Restart(p) PROVE BatchInv'
  BY <1>7 DEF Restart
<1>8. ASSUME \/ \E S \in SUBSET Rows : InsertGrades(S)
             \/ UNCHANGED vars
      PROVE  BatchInv'
  BY <1>8 DEF InsertGrades, local, vars
<1> QED
  BY <1>1, <1>2, <1>3, <1>4, <1>5, <1>6, <1>7, <1>8 DEF Next, ProcessSyncJob

LEMMA ClearedInvStep ==
  ASSUME TypeOK, LocalsInv, SysTypeOK, ClearedInv, [SysNext]_sysvars
  PROVE  ClearedInv'
<1> DEFINE Requested ==
      \A t \in Requests :
        /\ request[t] # "answered" => pushed[t] = 0 /\ messages[t] = 0
        /\ request[t] \in InHandler => t \in cleared
        /\ messages[t] <= pushed[t]
        /\ pushed[t] > 0 => t \in cleared
<1>1. Requested'
  <2> USE DEF ClearedInv, SysTypeOK, InHandler
  <2>1. ASSUME NEW t \in Requests, GetFile(t) PROVE Requested'
    BY <2>1 DEF GetFile, Judge, Step
  <2>2. ASSUME NEW t \in Requests, CheckSyncPermission(t) PROVE Requested'
    BY <2>2, GrantIsAllowed DEF CheckSyncPermission, Judge, Step
  <2>3. ASSUME NEW t \in Requests, EnqueueSyncJob(t) PROVE Requested'
    BY <2>3 DEF EnqueueSyncJob, Step
  <2>4. ASSUME NEW t \in Requests, LoseMessage(t) PROVE Requested'
    BY <2>4 DEF LoseMessage, front
  <2>5. ASSUME NEW w \in Workers, BeginJob(w) PROVE Requested'
    BY <2>5 DEF BeginJob, front
  <2>6. CASE RestartAPI
    BY <2>6 DEF RestartAPI
  <2>7. CASE UNCHANGED <<request, messages, cleared, pushed>>
    BY <2>7
  <2> QED
    BY <2>1, <2>2, <2>3, <2>4, <2>5, <2>6, <2>7
    DEF SysNext, TriggerSync, StageFile, MarkFile, GetGradesStatus,
        AskPermission, RunJob, StopWorker, front, sysvars
<1>2. ASSUME NEW w \in Workers, pc'[w] # "idle"
      PROVE  \E t \in Requests : Backed(t)' /\ JobOf[t] = job'[w]
  BY <1>2, WorkingStep, BackedStep DEF ClearedInv, Backed, SysTypeOK
<1> QED
  BY <1>1, <1>2 DEF ClearedInv, Backed

LEMMA TouchedStep ==
  ASSUME IInv, BatchInv, SysTypeOK, ClearedInv, TouchedWasCleared,
         [SysNext]_sysvars
  PROVE  TouchedWasCleared'
<1> DEFINE BackedRow(r) ==
      \E t \in Requests : Backed(t) /\ r \in Target[JobOf[t]]
<1>1. ASSUME NEW r \in Rows, BackedRow(r) PROVE BackedRow(r)'
  BY <1>1, BackedStep
<1>2. ASSUME NEW w \in Workers, NEW r \in batch[w] PROVE BackedRow(r)
  <2>1. pc[w] # "idle"
    BY <1>2 DEF IInv, LocalsInv
  <2> QED
    BY <1>2, <2>1 DEF ClearedInv, BatchInv
<1>3. ASSUME NEW r \in Rows, Touched(r)' PROVE Touched(r) \/ BackedRow(r)'
  <2>1. ASSUME NEW w \in Workers, r \in batch'[w] PROVE BackedRow(r)'
    <3>1. BatchInv' /\ ClearedInv' /\ LocalsInv'
      BY BatchInvStep, ClearedInvStep, LocalsInvStep, SysStepIsSyncStep
      DEF IInv
    <3>2. pc'[w] # "idle"
      BY <2>1, <3>1 DEF LocalsInv
    <3> QED
      BY <2>1, <3>1, <3>2 DEF ClearedInv, BatchInv, Backed
  <2>2. CASE r \in stored' \/ staging'[r] \in {"SYNCED", "FAILED"}
    <3> USE DEF IInv, TypeOK
    <3>1. ASSUME NEW S \in SUBSET Rows, InsertGrades(S) PROVE Touched(r)
      BY <2>2, <3>1 DEF InsertGrades, Touched
    <3>2. ASSUME NEW w \in Workers, NEW S \in SUBSET Rows,
                 S \subseteq batch[w], Store(S), UNCHANGED staging
          PROVE  Touched(r)
      BY <2>2, <3>2 DEF Store, Touched
    <3>3. ASSUME NEW w \in Workers, MarkSynced(w) \/ MarkFailed(w)
          PROVE  Touched(r)
      BY <2>2, <3>3 DEF MarkSynced, MarkFailed, UpdateFailed, Updated,
                        SetStatus, Touched, LocalsInv
    <3>4. CASE UNCHANGED <<staging, stored, resent>>
      BY <2>2, <3>4 DEF Touched
    <3> QED
      BY <3>1, <3>2, <3>3, <3>4, VisibleSteps, SysStepIsSyncStep
  <2> QED
    BY <1>3, <2>1, <2>2 DEF Touched
<1>4. ASSUME NEW r \in Rows, Touched(r) PROVE BackedRow(r)
  BY <1>4, SystemAssumption DEF TouchedWasCleared, Backed, SysTypeOK
<1> QED
  BY <1>1, <1>3, <1>4 DEF TouchedWasCleared, Backed

(* No grade is taken up, sent or settled but for a user who asked for it   *)
(* when its file was PARSED_OK and whose permission was due, whatever is   *)
(* restarted, lost or pushed twice in between.                             *)
THEOREM TouchedCleared == SysSpec => []TouchedWasCleared
<1>1. SysInit => BatchInv /\ ClearedInv /\ TouchedWasCleared
  BY DEF SysInit, Init, InHandler, BatchInv, ClearedInv, TouchedWasCleared,
         Touched
<1>2. /\ IInv /\ SysTypeOK /\ BatchInv /\ ClearedInv /\ TouchedWasCleared
      /\ [SysNext]_sysvars
      => BatchInv' /\ ClearedInv' /\ TouchedWasCleared'
  BY BatchInvStep, ClearedInvStep, TouchedStep, SysStepIsSyncStep DEF IInv
<1> QED
  BY <1>1, <1>2, SysIInv, SysTypeCorrect, PTL DEF SysSpec

-----------------------------------------------------------------------------
LEMMA AllSyncedStep ==
  ASSUME RefInv, AllSyncedIsHeld, SysTypeOK, [SysNext]_sysvars
  PROVE  AllSyncedIsHeld'
<1> USE DEF RefInv, IInv
<1>1. [Next]_vars
  BY SysStepIsSyncStep
<1>2. ASSUME NEW r \in told
      PROVE  r \in stored' /\ (staging'[r] = "SYNCED" \/ r \in shared')
  <2>1. r \in Rows /\ r \in stored /\ (staging[r] = "SYNCED" \/ r \in shared)
    BY DEF AllSyncedIsHeld, SysTypeOK
  <2>2. stored \subseteq stored' /\ shared \subseteq shared'
    BY <1>1, Monotone
  <2>3. staging[r] = "SYNCED" => staging'[r] = "SYNCED" \/ r \in shared
    BY <1>1, <2>1, VerdictStep
  <2> QED
    BY <2>1, <2>2, <2>3
<1>3. ASSUME NEW f \in Files, GetGradesStatus(f), NEW r \in Present(f)
      PROVE  r \in stored' /\ staging'[r] = "SYNCED"
  <2>1. staging[r] = "SYNCED" /\ r \in Rows
    BY <1>3 DEF GetGradesStatus, CountedSynced, Present, RowsOf
  <2> QED
    BY <1>3, <2>1 DEF GetGradesStatus, vars, StoredInv, SyncedIsStored
<1>4. CASE UNCHANGED told
  BY <1>2, <1>4 DEF AllSyncedIsHeld
<1>5. CASE \E f \in Files : GetGradesStatus(f)
  BY <1>2, <1>3, <1>5 DEF GetGradesStatus, AllSyncedIsHeld
<1> QED
  BY <1>4, <1>5
  DEF SysNext, TriggerSync, StageFile, MarkFile, GetFile, CheckSyncPermission,
      EnqueueSyncJob, LoseMessage, RestartAPI, BeginJob, AskPermission, RunJob,
      StopWorker, front, sysvars

(* Who was told that every record of a file is synced was told the truth,  *)
(* and none of those records changes again but by an overlapping job, if   *)
(* the department stores every row it does not name.                       *)
THEOREM AllSyncedHeld ==
  ASSUME ~RejectsWholeBatch
  PROVE  SysSpec => []AllSyncedIsHeld
<1>1. SysInit => AllSyncedIsHeld
  BY DEF SysInit, AllSyncedIsHeld
<1>2. RefInv /\ SysTypeOK /\ AllSyncedIsHeld /\ [SysNext]_sysvars
        => AllSyncedIsHeld'
  BY AllSyncedStep
<1> QED
  BY <1>1, <1>2, SysRefInv, SysTypeCorrect, PTL DEF SysSpec

-----------------------------------------------------------------------------
(* Number the copies of a message in the order in which they leave the     *)
(* list, from the last to the first. Every running job can be given the    *)
(* number of a copy that has left, f[w] naming the message and n[w] the    *)
(* copy, and no two jobs are given the same one.                           *)
Ticketed(f, n) ==
  /\ \A w \in Workers : pc[w] # "idle" =>
       /\ f[w] \in Requests /\ JobOf[f[w]] = job[w]
       /\ messages[f[w]] < n[w] /\ n[w] <= pushed[f[w]]
  /\ \A v, w \in Workers :
       v # w /\ pc[v] # "idle" /\ pc[w] # "idle" /\ f[v] = f[w] => n[v] # n[w]

Tickets == [Workers -> Requests \cup {NoJob}]
Numbers == [Workers -> Nat]
TicketInv == \E f \in Tickets, n \in Numbers : Ticketed(f, n)

LEMMA TicketBegin ==
  ASSUME TypeOK, SysTypeOK, ClearedInv, NEW f \in Tickets, NEW n \in Numbers,
         Ticketed(f, n), NEW v \in Workers, BeginJob(v)
  PROVE  TicketInv'
<1> USE DEF Tickets, Numbers, SysTypeOK
<1>1. PICK t \in Requests :
        /\ messages[t] > 0
        /\ messages' = [messages EXCEPT ![t] = @ - 1]
        /\ Begin(v, JobOf[t])
  BY DEF BeginJob
<1>2. PICK k \in Nat : k = messages[t]
  OBVIOUS
<1> DEFINE g == [f EXCEPT ![v] = t]
           m == [n EXCEPT ![v] = k]
<1>3. /\ g \in Tickets /\ m \in Numbers
      /\ pushed' = pushed /\ JobOf[t] \in Jobs
      /\ pc[v] = "idle" /\ pc' = [pc EXCEPT ![v] = "permission"]
      /\ job' = [job EXCEPT ![v] = JobOf[t]]
  <2>1. JobOf[t] \in Jobs
    BY SystemAssumption DEF SystemAssumption
  <2>2. pushed' = pushed
    BY DEF BeginJob
  <2>3. /\ pc[v] = "idle" /\ pc' = [pc EXCEPT ![v] = "permission"]
        /\ job' = [job EXCEPT ![v] = JobOf[t]]
    BY <1>1 DEF Begin
  <2> QED
    BY <2>1, <2>2, <2>3
<1>4. \A u \in Requests : messages'[u] <= messages[u] /\ messages'[t] < k
  BY <1>1, <1>2
<1>5. k <= pushed[t]
  BY <1>2 DEF ClearedInv
<1>6. ASSUME NEW w \in Workers, pc'[w] # "idle", w # v
      PROVE  /\ pc[w] # "idle" /\ job'[w] = job[w]
             /\ g[w] = f[w] /\ m[w] = n[w]
             /\ f[w] \in Requests /\ n[w] \in Nat
  BY <1>3, <1>6 DEF TypeOK, Ticketed
<1>7. ASSUME NEW w \in Workers, pc'[w] # "idle"
      PROVE  /\ g[w] \in Requests /\ JobOf[g[w]] = job'[w]
             /\ messages'[g[w]] < m[w] /\ m[w] <= pushed'[g[w]]
  <2>1. CASE w = v
    BY <1>3, <1>4, <1>5, <2>1 DEF TypeOK
  <2>2. CASE w # v
    <3>1. /\ f[w] \in Requests /\ JobOf[f[w]] = job[w]
          /\ messages[f[w]] < n[w] /\ n[w] <= pushed[f[w]]
      BY <1>6, <1>7, <2>2 DEF Ticketed
    <3>2. /\ messages'[f[w]] <= messages[f[w]]
          /\ messages'[f[w]] \in Int /\ messages[f[w]] \in Int
      BY <1>1, <1>4, <3>1
    <3>3. messages'[f[w]] < n[w]
      BY <1>6, <1>7, <2>2, <3>1, <3>2
    <3> QED
      BY <1>3, <1>6, <1>7, <2>2, <3>1, <3>3
  <2> QED
    BY <2>1, <2>2
<1>8. ASSUME NEW u \in Workers, NEW w \in Workers, u # w,
             pc'[u] # "idle", pc'[w] # "idle", g[u] = g[w]
      PROVE  m[u] # m[w]
  <2>1. ASSUME NEW x \in Workers, x # v, pc'[x] # "idle", g[x] = t
        PROVE  k < m[x]
    BY <1>2, <1>6, <2>1 DEF Ticketed
  <2>2. g[v] = t /\ m[v] = k
    OBVIOUS
  <2>3. CASE u = v \/ w = v
    BY <1>8, <2>1, <2>2, <2>3
  <2>4. CASE u # v /\ w # v
    BY <1>6, <1>8, <2>4 DEF Ticketed
  <2> QED
    BY <2>3, <2>4
<1>9. Ticketed(g, m)'
  BY <1>7, <1>8 DEF Ticketed
<1> QED
  BY <1>3, <1>9 DEF TicketInv

\* Any other step takes no message to a worker.
LEMMA TicketKept ==
  ASSUME TypeOK, SysTypeOK, ClearedInv,
         NEW f \in Tickets, NEW n \in Numbers, Ticketed(f, n),
         \A w \in Workers :
           pc'[w] # "idle" => pc[w] # "idle" /\ job'[w] = job[w],
         \/ UNCHANGED <<messages, pushed>>
         \/ \E t \in Requests : LoseMessage(t) \/ EnqueueSyncJob(t)
  PROVE  TicketInv'
<1> USE DEF Tickets, Numbers, SysTypeOK
<1>1. ASSUME NEW w \in Workers, pc'[w] # "idle"
      PROVE  messages'[f[w]] < n[w] /\ n[w] <= pushed'[f[w]]
  <2>1. /\ f[w] \in Requests /\ n[w] \in Nat
        /\ messages[f[w]] < n[w] /\ n[w] <= pushed[f[w]]
    BY <1>1 DEF Ticketed
  <2>2. CASE UNCHANGED <<messages, pushed>>
    BY <2>1, <2>2
  <2>3. ASSUME NEW t \in Requests, LoseMessage(t)
        PROVE  messages'[f[w]] < n[w] /\ n[w] <= pushed'[f[w]]
    BY <2>1, <2>3 DEF LoseMessage
  <2>4. ASSUME NEW t \in Requests, EnqueueSyncJob(t)
        PROVE  messages'[f[w]] < n[w] /\ n[w] <= pushed'[f[w]]
    <3>1. pushed[t] = 0
      BY <2>4 DEF EnqueueSyncJob, Step, ClearedInv
    <3>2. f[w] # t
      BY <2>1, <3>1
    <3> QED
      BY <2>1, <2>4, <3>2 DEF EnqueueSyncJob
  <2> QED
    BY <2>2, <2>3, <2>4
<1>2. Ticketed(f, n)'
  BY <1>1 DEF Ticketed
<1> QED
  BY <1>2 DEF TicketInv

LEMMA TicketInvStep ==
  ASSUME TypeOK, SysTypeOK, ClearedInv, TicketInv, [SysNext]_sysvars
  PROVE  TicketInv'
<1>1. PICK f \in Tickets, n \in Numbers : Ticketed(f, n)
  BY DEF TicketInv
<1>2. CASE \E v \in Workers : BeginJob(v)
  BY <1>1, <1>2, TicketBegin
<1>3. CASE ~\E v \in Workers : BeginJob(v)
  <2>1. ASSUME NEW w \in Workers, pc'[w] # "idle"
        PROVE  pc[w] # "idle" /\ job'[w] = job[w]
    <3>1. ASSUME NEW v \in Workers, AskPermission(v) \/ RunJob(v)
          PROVE  pc[w] # "idle" /\ job'[w] = job[w]
      BY <2>1, <3>1, JobKept DEF AskPermission, RunJob, ProcessSyncJob
    <3>2. ASSUME NEW p \in Processes, StopWorker(p)
          PROVE  pc[w] # "idle" /\ job'[w] = job[w]
      BY <2>1, <3>2 DEF StopWorker, Cancel, Restart, local, TypeOK
    <3>3. CASE UNCHANGED <<pc, job>>
      BY <2>1, <3>3
    <3> QED
      BY <1>3, <3>1, <3>2, <3>3
      DEF SysNext, TriggerSync, StageFile, MarkFile, GetGradesStatus, GetFile,
          CheckSyncPermission, EnqueueSyncJob, LoseMessage, RestartAPI,
          InsertGrades, local, vars, sysvars
  <2>2. \/ UNCHANGED <<messages, pushed>>
        \/ \E t \in Requests : LoseMessage(t) \/ EnqueueSyncJob(t)
    BY <1>3
    DEF SysNext, TriggerSync, StageFile, MarkFile, GetGradesStatus, GetFile,
        CheckSyncPermission, AskPermission, RunJob, StopWorker, RestartAPI,
        sysvars
  <2> QED
    BY <1>1, <2>1, <2>2, TicketKept
<1> QED
  BY <1>2, <1>3

\* A row becomes shared when a worker fetches it that another one holds.
LEMMA SharedStep ==
  ASSUME TypeOK, [Next]_vars, NEW r \in shared', r \notin shared
  PROVE  \E v, w \in Workers :
           v # w /\ pc[w] = "fetch" /\ r \in batch[v] /\ r \in Target[job[w]]
<1>1. PICK w \in Workers : GetReadyGrades(w)
  <2>1. ASSUME NEW w \in Workers, ProcessSyncJob(w), ~GetReadyGrades(w)
        PROVE  UNCHANGED shared
    BY <2>1
    DEF ProcessSyncJob, CheckPermission, SendAnswered, SendFailed,
        BackoffCancelled, RetriesExhausted, MarkSynced, MarkFailed, history
  <2> QED
    BY <2>1 DEF Next, InsertGrades, Begin, Cancel, Restart, history, vars
<1>2. pc[w] = "fetch"
  BY <1>1 DEF GetReadyGrades
<1>3. PICK S \in SUBSET ReadyOf(job[w]) : shared' = shared \cup HeldByOthers(w, S)
  BY <1>1 DEF GetReadyGrades
<1>4. r \in HeldByOthers(w, S)
  BY <1>3
<1> QED
  BY <1>2, <1>4 DEF HeldByOthers, ReadyOf

LEMMA OverlapStep ==
  ASSUME IInv, BatchInv, SysTypeOK, ClearedInv, TicketInv, OverlapHasCause,
         [SysNext]_sysvars
  PROVE  OverlapHasCause'
<1> DEFINE HasCause(r) ==
      \E t, u \in Requests :
        /\ Backed(t) /\ Backed(u)
        /\ t = u => pushed[t] > 1
        /\ r \in Target[JobOf[t]] \cap Target[JobOf[u]]
<1>1. ASSUME NEW r, HasCause(r) PROVE HasCause(r)'
  <2>1. \A t \in Requests : pushed[t] > 0 => pushed'[t] = pushed[t]
    <3>1. ASSUME NEW t \in Requests, EnqueueSyncJob(t)
          PROVE  \A u \in Requests : pushed[u] > 0 => pushed'[u] = pushed[u]
      BY <3>1 DEF EnqueueSyncJob, Step, ClearedInv, SysTypeOK
    <3>2. CASE UNCHANGED pushed
      BY <3>2
    <3> QED
      BY <3>1, <3>2
      DEF SysNext, TriggerSync, StageFile, MarkFile, GetGradesStatus, GetFile,
          CheckSyncPermission, LoseMessage, BeginJob, AskPermission, RunJob,
          StopWorker, RestartAPI, sysvars
  <2>2. \A t \in Requests : Backed(t) => Backed(t)'
    BY BackedStep
  <2> QED
    BY <1>1, <2>1, <2>2 DEF Backed
<1>2. ASSUME NEW r \in shared', r \notin shared PROVE HasCause(r)
  <2>1. PICK v \in Workers, w \in Workers :
          v # w /\ pc[w] = "fetch" /\ r \in batch[v] /\ r \in Target[job[w]]
    BY <1>2, SharedStep, SysStepIsSyncStep DEF IInv
  <2>2. pc[v] # "idle" /\ pc[w] # "idle" /\ r \in Target[job[v]]
    BY <2>1 DEF IInv, LocalsInv, BatchInv
  <2>3. PICK f \in Tickets, n \in Numbers : Ticketed(f, n)
    BY DEF TicketInv
  <2>4. /\ f[v] \in Requests /\ JobOf[f[v]] = job[v]
        /\ f[w] \in Requests /\ JobOf[f[w]] = job[w]
        /\ messages[f[v]] < n[v] /\ n[v] <= pushed[f[v]]
        /\ messages[f[w]] < n[w] /\ n[w] <= pushed[f[w]]
        /\ f[v] = f[w] => n[v] # n[w]
    BY <2>1, <2>2, <2>3 DEF Ticketed
  <2>5. /\ messages[f[v]] \in Nat /\ pushed[f[v]] \in Nat /\ n[v] \in Nat
        /\ messages[f[w]] \in Nat /\ pushed[f[w]] \in Nat /\ n[w] \in Nat
    BY <2>4 DEF SysTypeOK, Numbers
  <2>6. pushed[f[v]] > 0 /\ pushed[f[w]] > 0
    BY <2>4, <2>5
  <2>7. f[v] = f[w] => pushed[f[v]] > 1
    BY <2>4, <2>5
  <2>8. Backed(f[v]) /\ Backed(f[w])
    BY <2>4, <2>6 DEF Backed, ClearedInv
  <2> QED
    BY <2>1, <2>2, <2>4, <2>7, <2>8
<1>3. ASSUME NEW r \in shared PROVE HasCause(r)
  <2>1. PICK t \in Requests, u \in Requests :
          /\ pushed[t] > 0 /\ pushed[u] > 0
          /\ t = u => pushed[t] > 1
          /\ r \in Target[JobOf[t]] \cap Target[JobOf[u]]
    BY <1>3 DEF OverlapHasCause
  <2> QED
    BY <2>1 DEF Backed, ClearedInv
<1>4. \A r \in shared' : HasCause(r)'
  BY <1>1, <1>2, <1>3
<1> QED
  BY <1>4 DEF OverlapHasCause, Backed

(* Two jobs have a grade in hand at once only if two users asked for it or *)
(* one message was pushed twice, whatever crashes, restarts and losses.    *)
THEOREM OverlapCause == SysSpec => []OverlapHasCause
<1>1. SysInit => BatchInv /\ ClearedInv /\ TicketInv /\ OverlapHasCause
  <2> SUFFICES ASSUME SysInit
               PROVE  BatchInv /\ ClearedInv /\ TicketInv /\ OverlapHasCause
    OBVIOUS
  <2>1. BatchInv /\ ClearedInv /\ OverlapHasCause
    BY DEF SysInit, Init, InHandler, BatchInv, ClearedInv, OverlapHasCause
  <2>2. Ticketed([w \in Workers |-> NoJob], [w \in Workers |-> 0])
    BY DEF SysInit, Init, Ticketed
  <2> QED
    BY <2>1, <2>2 DEF TicketInv, Tickets, Numbers
<1>2. /\ IInv /\ SysTypeOK /\ BatchInv /\ ClearedInv /\ TicketInv
      /\ OverlapHasCause /\ [SysNext]_sysvars
      => BatchInv' /\ ClearedInv' /\ TicketInv' /\ OverlapHasCause'
  BY BatchInvStep, ClearedInvStep, TicketInvStep, OverlapStep,
     SysStepIsSyncStep DEF IInv
<1> QED
  BY <1>1, <1>2, SysIInv, SysTypeCorrect, PTL DEF SysSpec
=============================================================================
