---------------------------- MODULE SyncService ----------------------------
(***************************************************************************)
(* The push of staged grades to the Education Department: every goroutine  *)
(* that runs Service.ProcessSyncJob (internal/sync/service.go), over the   *)
(* grades_staging table (internal/db/repository.go) and the department's   *)
(* grades endpoint, which is outside the repository.                       *)
(*                                                                         *)
(* One atomic step is one call that leaves the process (a statement, an    *)
(* HTTP request) together with the local code up to the next such call.    *)
(* Any call can fail; a call whose answer is lost may have had its effect. *)
(***************************************************************************)
EXTENDS Naturals, FiniteSets

CONSTANTS
  Rows,            \* rows of grades_staging, by id
  Students,        \* student_id values
  Jobs,            \* the sync jobs, told apart by (file_id, class, subject)
  Workers,         \* pool goroutines of all the sync-worker processes
  Processes,       \* the sync-worker processes
  StudentOf,       \* [Rows -> Students]
  Target,          \* [Jobs -> SUBSET Rows]: rows a job's WHERE clause selects
  ProcOf,          \* [Workers -> Processes]
  BatchSize,       \* external_api.education_dept.batch_size
  RetryAttempts,   \* external_api.education_dept.retry_attempts
  Accepted,        \* the repository statements the database can execute
  RejectsWholeBatch \* TRUE: the department may store nothing of a batch it
                    \* reports as partly failed (summary.md leaves this open)

\* The statements of ProcessSyncJob. The others with placeholders $n (GetFile,
\* UpdateFileStatus, InsertGrades, GetGradesStatus) belong to other parts of the
\* system, where they are taken to be executed.
Statements == {"GetReadyGrades", "UpdateGradesStatus"}

ASSUME ConstantsAssumption ==
  /\ IsFiniteSet(Rows)
  /\ StudentOf \in [Rows -> Students]
  /\ Target \in [Jobs -> SUBSET Rows]
  /\ ProcOf \in [Workers -> Processes]
  /\ BatchSize \in Nat
  /\ RetryAttempts \in Nat
  /\ Accepted \subseteq Statements
  /\ RejectsWholeBatch \in BOOLEAN

VARIABLES
  staging,     \* status column of each row; "ABSENT" before its INSERT commits
  stored,      \* rows the department holds (external)
  cancelled,   \* per process: its context has been cancelled
  pc,          \* per worker: the call it makes next
  job,         \* per worker: the SyncJob it runs
  batch,       \* per worker: ids of the grades GetReadyGrades returned
  attempt,     \* per worker: the loop counter of processBatch
  successIDs,  \* per worker: ids about to be marked SYNCED
  failedIDs,   \* per worker: ids about to be marked FAILED
  result       \* per worker: what its last ProcessSyncJob returned

\* History variables: no action reads them, only the properties do.
VARIABLES
  before,      \* per worker: rows of its job that were READY when it began
  torn,        \* per worker: a result set of this job was cut short
  shared,      \* rows that were in the batches of two workers at once
  doubtful,    \* rows whose sending or marking ended without an answer
  resent       \* rows the department received again after it had stored them

db      == <<staging, stored>>
local   == <<job, batch, attempt, successIDs, failedIDs>>
history == <<before, torn, shared, doubtful, resent>>
vars    == <<staging, stored, cancelled, pc, job, batch, attempt, successIDs,
             failedIDs, result, before, torn, shared, doubtful, resent>>

NoJob == "no job"

Statuses == {"ABSENT", "READY", "SYNCED", "FAILED"}
PCs      == {"idle", "permission", "fetch", "send", "markSynced", "markFailed"}

TypeOK ==
  /\ staging \in [Rows -> Statuses]
  /\ stored \subseteq Rows
  /\ cancelled \in [Processes -> BOOLEAN]
  /\ pc \in [Workers -> PCs]
  /\ job \in [Workers -> Jobs \cup {NoJob}]
  /\ batch \in [Workers -> SUBSET Rows]
  /\ attempt \in [Workers -> 0 .. RetryAttempts]
  /\ successIDs \in [Workers -> SUBSET Rows]
  /\ failedIDs \in [Workers -> SUBSET Rows]
  /\ result \in [Workers -> {"none", "nil", "error"}]
  /\ before \in [Workers -> SUBSET Rows]
  /\ torn \in [Workers -> BOOLEAN]
  /\ shared \subseteq Rows
  /\ doubtful \subseteq Rows
  /\ resent \subseteq Rows

Init ==
  /\ staging = [r \in Rows |-> "ABSENT"]
  /\ stored = {}
  /\ cancelled = [p \in Processes |-> FALSE]
  /\ pc = [w \in Workers |-> "idle"]
  /\ job = [w \in Workers |-> NoJob]
  /\ batch = [w \in Workers |-> {}]
  /\ attempt = [w \in Workers |-> 0]
  /\ successIDs = [w \in Workers |-> {}]
  /\ failedIDs = [w \in Workers |-> {}]
  /\ result = [w \in Workers |-> "none"]
  /\ before = [w \in Workers |-> {}]
  /\ torn = [w \in Workers |-> FALSE]
  /\ shared = {}
  /\ doubtful = {}
  /\ resent = {}

-----------------------------------------------------------------------------
\* A call made with a cancelled context returns an error.
Live(w) == ~cancelled[ProcOf[w]]

\* Mutant of ReadyOf: the WHERE clause forgets status = 'READY'.
ReadyOfAnyStatus(j) == {r \in Rows : r \in Target[j] /\ staging[r] # "ABSENT"}

\* The rows GetReadyGrades selects, before its LIMIT.
ReadyOf(j) == {r \in Rows : r \in Target[j] /\ staging[r] = "READY"}

\* ProcessSyncJob returns: the locals are gone, the pool goroutine is free.
Return(w, res) ==
  /\ pc' = [pc EXCEPT ![w] = "idle"]
  /\ result' = [result EXCEPT ![w] = res]
  /\ job' = [job EXCEPT ![w] = NoJob]
  /\ batch' = [batch EXCEPT ![w] = {}]
  /\ attempt' = [attempt EXCEPT ![w] = 0]
  /\ successIDs' = [successIDs EXCEPT ![w] = {}]
  /\ failedIDs' = [failedIDs EXCEPT ![w] = {}]
  /\ before' = [before EXCEPT ![w] = {}]

\* Mutant of EndBatch: a full batch ends the job too.
EndBatchWhenFull(w) ==
  \/ /\ Cardinality(batch[w]) <= BatchSize
     /\ Return(w, "nil")
  \/ /\ ~(Cardinality(batch[w]) <= BatchSize)
     /\ pc' = [pc EXCEPT ![w] = "fetch"]
     /\ batch' = [batch EXCEPT ![w] = {}]
     /\ attempt' = [attempt EXCEPT ![w] = 0]
     /\ successIDs' = [successIDs EXCEPT ![w] = {}]
     /\ failedIDs' = [failedIDs EXCEPT ![w] = {}]
     /\ UNCHANGED <<job, result, before>>

\* processBatch returned nil: a short batch ends the job, a full one loops.
EndBatch(w) ==
  \/ /\ Cardinality(batch[w]) < BatchSize
     /\ Return(w, "nil")
  \/ /\ ~(Cardinality(batch[w]) < BatchSize)
     /\ pc' = [pc EXCEPT ![w] = "fetch"]
     /\ batch' = [batch EXCEPT ![w] = {}]
     /\ attempt' = [attempt EXCEPT ![w] = 0]
     /\ successIDs' = [successIDs EXCEPT ![w] = {}]
     /\ failedIDs' = [failedIDs EXCEPT ![w] = {}]
     /\ UNCHANGED <<job, result, before>>

\* Mutant of Decide: the test on failedStudents is inverted.
DecideInverted(w, good, bad) ==
  /\ successIDs' = [successIDs EXCEPT ![w] = bad]
  /\ failedIDs' = [failedIDs EXCEPT ![w] = good]
  /\ pc' = [pc EXCEPT ![w] = IF bad # {} THEN "markSynced" ELSE "markFailed"]

\* Mutant of Decide: one failed student fails the whole batch.
DecideAllOrNothing(w, good, bad) ==
  /\ successIDs' = [successIDs EXCEPT ![w] = IF bad = {} THEN good ELSE {}]
  /\ failedIDs' = [failedIDs EXCEPT ![w] = IF bad = {} THEN {} ELSE batch[w]]
  /\ pc' = [pc EXCEPT ![w] = IF bad = {} THEN "markSynced" ELSE "markFailed"]

\* Leave the retry loop with a verdict; handlePartialSuccess marks the
\* successes first and skips an empty set of ids.
Decide(w, good, bad) ==
  /\ successIDs' = [successIDs EXCEPT ![w] = good]
  /\ failedIDs' = [failedIDs EXCEPT ![w] = bad]
  /\ pc' = [pc EXCEPT ![w] = IF good # {} THEN "markSynced" ELSE "markFailed"]

-----------------------------------------------------------------------------
(* InsertGrades: one transaction inserts rows; status defaults to READY.   *)
InsertGrades(S) ==
  /\ S # {}
  /\ \A r \in S : staging[r] = "ABSENT"
  /\ staging' = [r \in Rows |-> IF r \in S THEN "READY" ELSE staging[r]]
  /\ UNCHANGED <<stored, cancelled, pc, local, result, history>>

(* A pool goroutine calls ProcessSyncJob for job j.                        *)
Begin(w, j) ==
  /\ pc[w] = "idle"
  /\ pc' = [pc EXCEPT ![w] = "permission"]
  /\ job' = [job EXCEPT ![w] = j]
  /\ result' = [result EXCEPT ![w] = "none"]
  /\ before' = [before EXCEPT ![w] = ReadyOf(j)]
  /\ torn' = [torn EXCEPT ![w] = FALSE]
  /\ UNCHANGED <<db, cancelled, batch, attempt, successIDs, failedIDs,
                 shared, doubtful, resent>>

(* CheckSyncPermission grants, denies or fails; the last two end the job   *)
(* with an error.                                                          *)
CheckPermission(w) ==
  /\ pc[w] = "permission"
  /\ \/ /\ Live(w)
        /\ pc' = [pc EXCEPT ![w] = "fetch"]
        /\ UNCHANGED <<local, result, before>>
     \/ Return(w, "error")
  /\ UNCHANGED <<db, cancelled, torn, shared, doubtful, resent>>

\* Rows in S that some other worker already holds.
HeldByOthers(w, S) == S \cap UNION {batch[v] : v \in Workers \ {w}}

(* GetReadyGrades fails, or returns any limit-sized choice of the READY    *)
(* rows (no ORDER BY), or fewer when the result set is cut: rows.Err() is  *)
(* never consulted. No rows: the job is over.                              *)
GetReadyGrades(w) ==
  /\ pc[w] = "fetch"
  /\ \/ /\ Return(w, "error")
        /\ UNCHANGED <<torn, shared>>
     \/ \E S \in SUBSET ReadyOf(job[w]) :
          LET ready == Cardinality(ReadyOf(job[w]))
              want  == IF ready < BatchSize THEN ready ELSE BatchSize
          IN  /\ Live(w)
              /\ "GetReadyGrades" \in Accepted
              /\ Cardinality(S) <= want
              /\ torn' = [torn EXCEPT ![w] = torn[w] \/ Cardinality(S) < want]
              /\ shared' = shared \cup HeldByOthers(w, S)
              /\ \/ /\ S = {}
                    /\ Return(w, "nil")
                 \/ /\ S # {}
                    /\ pc' = [pc EXCEPT ![w] = "send"]
                    /\ batch' = [batch EXCEPT ![w] = S]
                    /\ UNCHANGED <<job, attempt, successIDs, failedIDs,
                                   result, before>>
  /\ UNCHANGED <<db, cancelled, doubtful, resent>>

-----------------------------------------------------------------------------
\* The department receives the batch and stores the rows in S of it.
Store(S) ==
  /\ stored' = stored \cup S
  /\ resent' = resent \cup (S \cap stored)

\* Rows of a batch whose student the response names as failed.
Named(w, failed) == {r \in batch[w] : StudentOf[r] \in failed}

(* SendGradeBatch brings an answer (200, 201 or 400 with a JSON body).     *)
(* success: every id is to be SYNCED. Otherwise the rows the response      *)
(* names are to be FAILED and all the others SYNCED, whatever was stored.  *)
SendAnswered(w) ==
  /\ pc[w] = "send"
  /\ attempt[w] < RetryAttempts
  /\ Live(w)
  /\ \/ /\ Store(batch[w])
        /\ Decide(w, batch[w], {})
     \/ \E failed \in SUBSET Students :
          /\ \/ Store(batch[w] \ Named(w, failed))
             \/ RejectsWholeBatch /\ Store({})
          /\ Decide(w, batch[w] \ Named(w, failed), Named(w, failed))
  /\ UNCHANGED <<staging, cancelled, job, batch, attempt, result, before,
                 torn, shared, doubtful>>

\* Mutant of SendFailed: the loop runs once too often.
SendFailedOneMore(w) ==
  /\ pc[w] = "send"
  /\ attempt[w] <= RetryAttempts
  /\ \E S \in SUBSET batch[w] :
       /\ Live(w) \/ S = {}
       /\ Store(S)
       /\ doubtful' = doubtful \cup S
  /\ attempt' = [attempt EXCEPT ![w] = @ + 1]
  /\ UNCHANGED <<staging, cancelled, pc, job, batch, successIDs, failedIDs,
                 result, before, torn, shared>>

(* SendGradeBatch returns an error: no token, no marshalling, no           *)
(* connection, a timeout, a body that is not JSON, 401, 429, 5xx. Rows may *)
(* have been stored all the same. The loop counts the attempt.             *)
SendFailed(w) ==
  /\ pc[w] = "send"
  /\ attempt[w] < RetryAttempts
  /\ \E S \in SUBSET batch[w] :
       /\ Live(w) \/ S = {}
       /\ Store(S)
       /\ doubtful' = doubtful \cup S
  /\ attempt' = [attempt EXCEPT ![w] = @ + 1]
  /\ UNCHANGED <<staging, cancelled, pc, job, batch, successIDs, failedIDs,
                 result, before, torn, shared>>

(* The wait before a retry sees the cancelled context.                     *)
BackoffCancelled(w) ==
  /\ pc[w] = "send"
  /\ attempt[w] \in 1 .. (RetryAttempts - 1)
  /\ ~Live(w)
  /\ Return(w, "error")
  /\ UNCHANGED <<db, cancelled, torn, shared, doubtful, resent>>

\* Mutant of RetriesExhausted: the rows are left READY for the next round.
RetriesExhaustedUnmarked(w) ==
  /\ pc[w] = "send"
  /\ attempt[w] >= RetryAttempts
  /\ pc' = [pc EXCEPT ![w] = "fetch"]
  /\ batch' = [batch EXCEPT ![w] = {}]
  /\ attempt' = [attempt EXCEPT ![w] = 0]
  /\ UNCHANGED <<db, cancelled, job, successIDs, failedIDs, result, history>>

(* All retries exhausted: the whole batch is to be FAILED.                 *)
RetriesExhausted(w) ==
  /\ pc[w] = "send"
  /\ attempt[w] >= RetryAttempts
  /\ Decide(w, {}, batch[w])
  /\ UNCHANGED <<db, cancelled, job, batch, attempt, result, history>>

-----------------------------------------------------------------------------
\* UPDATE grades_staging SET status = st WHERE id in S.
SetStatus(S, st) ==
  staging' = [r \in Rows |-> IF r \in S THEN st ELSE staging[r]]

\* UpdateGradesStatus returned an error, applied or not: the job ends.
UpdateFailed(w, S, st) ==
  /\ \/ UNCHANGED staging
     \/ Live(w) /\ "UpdateGradesStatus" \in Accepted /\ SetStatus(S, st)
  /\ doubtful' = doubtful \cup batch[w]
  /\ Return(w, "error")

\* UpdateGradesStatus returned nil.
Updated(w, S, st) ==
  /\ Live(w)
  /\ "UpdateGradesStatus" \in Accepted
  /\ SetStatus(S, st)
  /\ UNCHANGED doubtful

(* Mark the successes. An error leaves the failures unmarked.              *)
MarkSynced(w) ==
  /\ pc[w] = "markSynced"
  /\ \/ UpdateFailed(w, successIDs[w], "SYNCED")
     \/ /\ Updated(w, successIDs[w], "SYNCED")
        /\ failedIDs[w] = {}
        /\ EndBatch(w)
     \/ /\ Updated(w, successIDs[w], "SYNCED")
        /\ failedIDs[w] # {}
        /\ pc' = [pc EXCEPT ![w] = "markFailed"]
        /\ UNCHANGED <<local, result, before>>
  /\ UNCHANGED <<stored, cancelled, torn, shared, resent>>

\* Mutant of MarkFailed: the ids of the whole batch instead of failedIDs.
MarkFailedWholeBatch(w) ==
  /\ pc[w] = "markFailed"
  /\ \/ UpdateFailed(w, batch[w], "FAILED")
     \/ Updated(w, batch[w], "FAILED") /\ EndBatch(w)
  /\ UNCHANGED <<stored, cancelled, torn, shared, resent>>

(* Mark the failures.                                                      *)
MarkFailed(w) ==
  /\ pc[w] = "markFailed"
  /\ \/ UpdateFailed(w, failedIDs[w], "FAILED")
     \/ Updated(w, failedIDs[w], "FAILED") /\ EndBatch(w)
  /\ UNCHANGED <<stored, cancelled, torn, shared, resent>>

-----------------------------------------------------------------------------
(* The signal handler of cmd/sync-worker/main.go cancels the context.      *)
Cancel(p) ==
  /\ ~cancelled[p]
  /\ cancelled' = [cancelled EXCEPT ![p] = TRUE]
  /\ UNCHANGED <<db, pc, local, result, history>>

(* The process ends (a crash, or the exit that follows a cancel) and a new *)
(* one starts: what its goroutines were doing is forgotten.                *)
Restart(p) ==
  LET Lost == {w \in Workers : ProcOf[w] = p}
      Clear(f, v) == [w \in Workers |-> IF w \in Lost THEN v ELSE f[w]]
  IN  /\ cancelled' = [cancelled EXCEPT ![p] = FALSE]
      /\ pc' = Clear(pc, "idle")
      /\ job' = Clear(job, NoJob)
      /\ batch' = Clear(batch, {})
      /\ attempt' = Clear(attempt, 0)
      /\ successIDs' = Clear(successIDs, {})
      /\ failedIDs' = Clear(failedIDs, {})
      /\ result' = Clear(result, "none")
      /\ before' = Clear(before, {})
      /\ torn' = Clear(torn, FALSE)
      /\ doubtful' = doubtful \cup UNION {batch[w] : w \in Lost}
      /\ UNCHANGED <<db, shared, resent>>

ProcessSyncJob(w) ==
  \/ CheckPermission(w)
  \/ GetReadyGrades(w)
  \/ SendAnswered(w)
  \/ SendFailed(w)
  \/ BackoffCancelled(w)
  \/ RetriesExhausted(w)
  \/ MarkSynced(w)
  \/ MarkFailed(w)

Next ==
  \/ \E S \in SUBSET Rows : InsertGrades(S)
  \/ \E w \in Workers, j \in Jobs : Begin(w, j)
  \/ \E w \in Workers : ProcessSyncJob(w)
  \/ \E p \in Processes : Cancel(p) \/ Restart(p)

\* Every call made by ProcessSyncJob returns: HTTP clients have timeouts, and
\* the runtime keeps scheduling a runnable goroutine.
Fairness == \A w \in Workers : WF_vars(ProcessSyncJob(w))

Spec == Init /\ [][Next]_vars /\ Fairness

-----------------------------------------------------------------------------
(* A row marked SYNCED is held by the department, whichever worker marked  *)
(* it and whatever failed in between (service.go:194-199, 224-229), as     *)
(* long as the department stores the rows it does not name as failed.      *)
SyncedIsStored == \A r \in Rows : staging[r] = "SYNCED" => r \in stored

(* A row the department holds is marked FAILED only after an answer was    *)
(* lost or a call broken off, or when two jobs had it in hand at once      *)
(* (service.go:203-205, 231-240).                                          *)
FailedStoredHasCause ==
  \A r \in Rows : staging[r] = "FAILED" /\ r \in stored
                    => r \in shared \cup doubtful

(* The department receives a stored row again only for those two reasons:  *)
(* with every call answered and no two jobs on the same rows, each grade   *)
(* is submitted exactly once (service.go:132-157, 176-201).                *)
ResentHasCause == resent \subseteq shared \cup doubtful

(* A verdict, once written, changes only if two jobs had the row in hand   *)
(* at once, and no row ever becomes READY again (repository.go:98-108).    *)
VerdictIsFinal ==
  [][\A r \in Rows :
       staging[r] \in {"SYNCED", "FAILED"} /\ staging'[r] # staging[r]
         => staging'[r] # "READY" /\ r \in shared]_vars

\* ProcessSyncJob returns nil in this step.
Completes(w) == pc[w] # "idle" /\ pc'[w] = "idle" /\ result'[w] = "nil"

(* A job that returns nil, with no result set cut short, has left none of  *)
(* the rows READY that were READY when it began (service.go:132-160).      *)
CompletedJobDrains ==
  [][BatchSize > 0 =>
       \A w \in Workers : Completes(w) /\ ~torn'[w]
         => \A r \in before[w] : staging'[r] # "READY"]_vars

(* "If we got less than batch size, we're done" (service.go:153): the same *)
(* of every job that returns nil.                                          *)
ShortBatchIsLast ==
  [][\A w \in Workers : Completes(w)
       => \A r \in before[w] : staging'[r] # "READY"]_vars

(* Every job ends: the batch loop makes progress and the retry loop is     *)
(* bounded (service.go:132-157, 176-205).                                  *)
JobEnds == \A w \in Workers : pc[w] # "idle" ~> pc[w] = "idle"

\* The rows w's job has still to bring to an end.
Ahead(w) == ReadyOf(job[w]) \cup batch[w]

\* How far a batch has come; the larger, the nearer to the next one.
Stage == [permission |-> 0, fetch |-> 1, send |-> 2, markSynced |-> 3,
          markFailed |-> 4]

(* Why it ends. Each call that does not end the job leaves it fewer rows,  *)
(* or the same rows and the batch further on, or the same call with an     *)
(* attempt more; and no step of anyone hands it rows but the staging of    *)
(* new ones, however jobs overlap (service.go:132-157, 176-242).           *)
JobAdvances ==
  [][\A w \in Workers : pc[w] # "idle" /\ pc'[w] # "idle" =>
       /\ \A r \in Ahead(w)' \ Ahead(w) : staging[r] = "ABSENT"
       /\ ProcessSyncJob(w) =>
            \/ Ahead(w)' \subseteq Ahead(w) /\ Ahead(w)' # Ahead(w)
            \/ Ahead(w)' = Ahead(w) /\ Stage[pc'[w]] > Stage[pc[w]]
            \/ /\ Ahead(w)' = Ahead(w) /\ pc'[w] = pc[w]
               /\ attempt[w] < attempt'[w]]_vars

-----------------------------------------------------------------------------
Lifecycle ==
  INSTANCE GradeLifecycle
    WITH Grades <- Rows, status <- staging, held <- stored, again <- resent,
         excused <- shared \cup doubtful

(* The push of grades keeps the promise of GradeLifecycle: a grade goes    *)
(* from READY to the department and then to SYNCED, or from READY to       *)
(* FAILED, once, unless it is excused (service.go:132-242).                *)
ImplementsLifecycle == Lifecycle!Spec
=============================================================================
