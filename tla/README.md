# Verification of the grade integration service

TLA+ models of the Go program in `../src`: workbooks of grades are staged in a
database and pushed to the Education Department's API by workers fed from Redis
lists. The models are checked with TLC on small instances; the theorems are
checked with TLAPS for all values of the constants.

    tlc -workers 2 -config GradeSystem.cfg MCGradeSystem     # one run
    tlapm SyncSafetyProofs.tla                               # one proof module

`PROJECT.json` lists the runs, the lines of code behind every definition, the
hazards of the code, and for each checked property a mutant of the model (an
operator named beside the one it replaces) that violates it.

## 1. The system

| Part (source) | State | Operations | Talks to |
|---|---|---|---|
| API handler (`internal/api`) | none | `TriggerSync`, `GetGradesStatus` | `files`, `grades_staging`, permission endpoint, sync list |
| Producer (`queue/producer.go`) | none | `EnqueueIngestionJob`, `EnqueueSyncJob` (LPUSH) | Redis |
| Consumer (`queue/consumer.go`) | the message in hand | `consume`: BRPOP, handler, push on the dead-letter list | Redis, pool |
| Worker pool (`worker/pool.go`) | buffered channel, goroutines | `Start`, `Submit`, `Stop` | jobs |
| Ingestion worker (`worker/ingestion.go`) | none | `processFile` | bucket, parser, `files`, `grades_staging` |
| Excel parser and validator (`internal/excel`) | none | `Parse`, `Validate` | - |
| Sync service (`sync/service.go`) | locals of a job | `CheckSyncPermission`, `ProcessSyncJob` | `grades_staging`, department |
| Sync client (`sync/client.go`) | none | `SendGradeBatch` | token cache, department |
| Auth manager (`sync/auth.go`) | token, expiry, RW lock | `GetToken`, `refreshToken` | department |
| Permission checker (`sync/permission.go`) | none | `CheckPermission` | department |
| Repository (`db/repository.go`) | the tables | statements | MySQL |
| Pull worker (`worker/pull.go`, `pull/service.go`) | a timer | `pullAll` once a day, upserts | department, `teachers`, `students`, `classes` |
| `cmd/*/main.go` | context, signal channel | start, `cancel()`, `Stop()`, `log.Fatal` | all of the above |

How they interact. An uploader outside the repository stores a workbook, inserts
its `files` row and queues an ingestion job. A pool goroutine stages its rows
(`READY`) and marks the file `PARSED_OK`. `TriggerSync` asks the department for
permission and queues a sync job. A pool goroutine of a sync-worker process asks
again, reads batches of `READY` rows, posts them with a cached token and writes
`SYNCED` or `FAILED`. The status query reads the tables. Nothing but the tables
and the Redis lists is shared between processes; inside a process the goroutines
share the pool's channel, the context and the token cache.

What is hard, and what correct means there:

* **Sync service.** No row is claimed while a job works on it, so two jobs can
  read, send and mark the same rows. Every call can fail after taking effect.
  Correct: a `SYNCED` row is stored by the department; a row is resent, or
  `FAILED` although stored, only when an answer was lost or two jobs overlapped;
  a verdict is not overwritten otherwise; a job that reports success has left
  none of its rows behind; every job ends.
* **Queue and pool.** BRPOP is the acknowledgement, `Submit` drops when the
  channel is full, a job's error goes to the log, and three goroutines race at
  shutdown. Correct: no job starts twice, every message is accounted for, a failed
  job is retried (it is not: run `JobQueueRetry`), order is kept, drops happen only over capacity, a normal exit interrupts nothing,
  every message is settled while the process serves.
* **Auth manager.** One token for all goroutines, a clock, a lock held across an
  HTTP request. Correct: a token from the cache is alive when it is handed out, one
  goroutine at a time logs in and only while no fresh token is cached, nobody waits
  for ever.
* **Ingestion.** A transaction, then separate updates of the file; several of
  their errors are ignored; files may be queued twice. Correct: a file is staged
  whole or not at all, `PARSED_OK` means staged, and whatever status a file is left
  in has its reason, in the workbook or in a call that failed.
* **Trigger and permission.** The file's status, the permission and the push are
  three calls; nothing claims the work, so two users may ask for the same class, and
  an LPUSH may be repeated or reported as failed although it was received. A refusal
  that names a schedule is judged a second time. The message carries no term. Correct:
  no grade is touched unless a user asked for it when its file was `PARSED_OK` and got
  a permission that was due; a grade is in two jobs' hands only if it was asked for, or
  received, twice.
* **Status query.** Counts read while jobs write. Correct: whoever is told that all
  records of a file are synced can rely on it.
* **Pull.** A timer computed before a pull of unknown length, and after each pull in
  the last second of a day or past midnight; upserts against several unique keys, in
  the department's order, whose failures are skipped. Correct: the end of a day sets
  off at most one pull, none is missed while the process is up, no id leaves a table,
  and a list counted as complete is in the table unless records collided.

## 2. Modules

    GradeLifecycle            (abstract)
         ^  refinement mapping
    SyncService  <- MCSyncService
         ^    ^-- SyncServiceProofs <- SyncSafetyProofs <- SyncRefinementProofs
         |                                                         ^
    GradeSystem  <- MCGradeSystem            GradeSystemProofs ----+
         ^-------------------------------------------'
    JobDelivery               (abstract)
         ^  refinement mapping
    JobQueue     <- MCJobQueue, JobQueueProofs
    AuthManager  <- MCAuthManager, AuthManagerProofs
    Ingestion    <- MCIngestion, IngestionProofs
    PullWorker   <- MCPullWorker, PullWorkerProofs

An arrow is an EXTENDS, except for the refinement mappings, which are an INSTANCE of
`GradeLifecycle` in `SyncService` and one of `JobDelivery` in `JobQueue`. Each `MC` module gives values to its module's constants and each `.cfg` picks an
instance. No definition of a module is replaced for checking.

### SyncService (`sync/service.go`, parts of `client.go` and `repository.go`)

`staging` is the status column, `stored` what the department holds. Per worker:
`pc` (the next call), `job`, `batch`, `attempt`, `successIDs`, `failedIDs` are the
locals of `ProcessSyncJob`, `processBatch` and `handlePartialSuccess`; `result`
is what the last job returned. One action is one external call with the local
code that follows it.

| Action | Code |
|---|---|
| `InsertGrades` | the commit of a staged file (its detail is in `Ingestion`) |
| `Begin`, `CheckPermission` | job starts; permission granted, denied or an error |
| `GetReadyGrades` | `SELECT ... LIMIT`: any batch (no ORDER BY), a cut result set, an error |
| `SendAnswered` | POST answered: all stored, or some students named as failed |
| `SendFailed` | POST returned an error; any part of the batch may be stored |
| `BackoffCancelled`, `RetriesExhausted` | the two ways out of the retry loop |
| `MarkSynced`, `MarkFailed` | the two UPDATEs, each of which may fail or lose its answer |
| `Cancel`, `Restart` | signal; crash or exit of a process, then a new one |

History variables (`before`, `torn`, `shared`, `doubtful`, `resent`) are read by
no guard; they record the causes the properties speak of. `shared` holds rows that
were in two workers' hands at once, `doubtful` rows whose sending or marking ended
without an answer (error, cancel or crash).

Two constants describe the environment. `RejectsWholeBatch`: whether the
department may store nothing of a batch although it names only some students.
`Accepted`: the repository statements the database executes. Their text is written
with `$n` and `ANY($3)`, which is PostgreSQL's dialect, while `db/mysql.go` opens
MySQL, as `README.md:216` of the repository says; that driver rejects them.
The runs take both statements as executable, that is, they check the code's logic on a
database that understands its SQL. `Accepted` ranges over the two statements of
`ProcessSyncJob`; `GetFile`, `UpdateFileStatus`, `InsertGrades` and `GetGradesStatus`
have the same placeholders, belong to other parts and are taken as executable there. Theorem `NothingSettled` says what remains true
when the UPDATE is rejected: no row ever leaves `READY`.

### GradeLifecycle (abstract)

What pushing grades promises of one grade, without goroutines, batches or retries: it
is staged, submitted at most once, and settled with the verdict that is true; a grade
that two jobs had in hand or about which an answer was lost (`excused`) may stray, but
even then it never returns to `READY`, is never forgotten by the department and never
`SYNCED` without being held. `SyncService!Lifecycle` maps `staging`, `stored`,
`resent` and `shared \cup doubtful` to its variables, `ImplementsLifecycle` is the
abstract specification as a property of the detailed one.

### GradeSystem (`api/handler.go`, `sync/permission.go`, `queue/producer.go`, on top of `SyncService`)

The composition: the sync service's actions are taken over unchanged and joined with
the calls around them. `request` is the call each `TriggerSync` makes next, `parsed`
the files marked `PARSED_OK`, `messages` the copies of a request's message on their
way, `told` what a status answer promised. `cleared` is history: the requests whose file
was `PARSED_OK` when the handler read it and whose permission was due, that is, the
department said `isAllowed`, or named a schedule that was active, unlocked and open.
Of the list, the consumers and the pools it keeps what `JobQueue` is shown to implement:
`JobDelivery`, whose actions `Receive`, `BeginJob` and `LoseMessage` are its
`EnqueueSyncJob`, `BeginJob` and `LoseMessage`.

| Action | Code |
|---|---|
| `StageFile`, `MarkFile` | the ingestion worker's commit, and its update of the file |
| `GetFile` | `TriggerSync` reads the file: `PARSED_OK`, or the answer is 404 or 400 |
| `CheckSyncPermission` | the handler's check: `Permits` is `CheckSyncPermission` of the service with `ActiveSchedule` for `GetActiveSchedule`, whose times stay zero, and `Opens` for the second look at a refusal |
| `EnqueueSyncJob` | LPUSH: received several times, once or not at all, answered either way |
| `RestartAPI` | the API process ends in the middle of its requests |
| `LoseMessage` | a drop, a lost answer of BRPOP, or the memory of a process that ends |
| `BeginJob`, `AskPermission`, `RunJob` | a goroutine starts the message's job, asks for permission (the message names no term, so any answer may come), and goes on as in `SyncService` |
| `StopWorker` | signal, crash and restart of a worker process |
| `GetGradesStatus` | the answer in which the counts of total and synced rows are equal |

### PullWorker (`worker/pull.go`, `pull/service.go`, the upserts of `repository.go`)

`day` and `tick` are the clock (`EndTick` ends with 23:59:59.000, `LastTick` is the
one before midnight), `phase` and `nextRun` the loop of `Start`, `kind`, `answer`,
`todo`, `count` the locals of `pullAll` and of the `Pull` function at work, `local`
the tables. A row remembers under which id it stands and whose data it has, which is
what `ON DUPLICATE KEY UPDATE` on a UNIQUE column takes apart; a key stands for an
e-mail address or a user name. The department's ids are taken not to be 0, which MySQL
would renumber in the AUTO_INCREMENT column `classes.id`. The code adds 24 hours to an end of day, which
is the next end of day where every day has 24 hours: true of UTC and of
Asia/Ho_Chi_Minh, not of a zone with daylight saving.

| Action | Code |
|---|---|
| `Start` | first `getNextRunTime`, then the pull on start if configured |
| `Tick` | time passes, also during a pull; a due timer is not held back |
| `Fire` | the timer goes off, `pullAll` begins |
| `Fetch`, `FetchFails` | the GET of one table: a list, or any error, after which `pullAll` goes on |
| `Upsert` | one record: `Upserted` is the statement against all keys of the table, or an error, executed or not |
| `KindDone` | the list is done; after the last table the timer is set again |
| `Stop` | signal or crash, in the middle of a pull or not |

### JobQueue (`queue/*.go`, `worker/pool.go`, `worker/sync.go`, both worker mains)

`queue` and `dlq` are the Redis lists. Per process: `main` (serving, cancelled,
waiting in `wg.Wait`, or how the process ended), `consumer` and `hand`, `jobChan`,
`running`, `returned`. `Select`, `Deliver`, `PopFails`, `HandleMessage` (which
contains `Submit`) and `MoveToDLQ` are the consumer's loop; `TakeJob`, `FinishJob`,
`WorkerReturns` the pool's goroutines; `Signal`, `CloseChan`, `Exit` the main
function; `Kill` and `Start` the outside world. Three ways in which a process ends
come from the code: `exited` (main returns), `fatal` (the consumer's `ctx.Err()`
reaches `log.Fatal`), `panicked` (`Submit` sends on the closed channel). The
module stands for the sync and the ingestion worker alike: they have the same code.
`Whereabouts` names the eight places where a message may be; a message whose job failed
is *set aside* there, on the dead-letter list or not, so that `Accounted` takes no side
on whether failed jobs belong on it, which is the matter of `FailedIsRetried`.
Goroutines of one pool are interchangeable, so a process has a set of running jobs
and a count of returned goroutines instead of named ones.

### JobDelivery (abstract)

A message is received, is under way, and then its job is begun or it is lost, once and
for good; an unreadable message is never begun. `JobQueue!Delivery` maps what is in the
list, in a consumer's hand or in a channel to `underWay`, and the jobs started to
`begun`; `ImplementsDelivery` is the abstract specification as a property.

### AuthManager (`sync/auth.go`, the token's use in `client.go`)

`now` is the clock; `token`, `expiresAt`, `writer` the cache and its write lock;
`answer` the token on its way back from the department. A token carries `dead`, the
time from which the department refuses it, fixed when it is issued, while the cache
counts `expires_in` from the arrival of the answer: the difference is what the
margin of 30 s has to cover. A read section changes nothing and is one step.

### Ingestion (`worker/ingestion.go`, `excel/*.go`, two statements of `repository.go`)

A workbook is its header and rows of cells, a cell being a member of a small set
that tells apart what the parser and the validator test. `Taken`, `ColumnOf`,
`Value`, `ParseFails` and `ValidateFails` translate `Parse`, `parseRow` and
`Validate`: rows of fewer than five cells are skipped wherever the required columns
are, a column named twice is its last occurrence, an empty required cell refuses
the file, NaN passes. Per worker: `file`, `try` (which job), `inserted` (rows in the
open transaction). `Download` (with reading, parsing and validating), `InsertRow`,
`Commit`, `MarkFail` (errors ignored), `MarkOK`, `Cancel`, `Restart`. `staged` holds
a row for each job that inserted it, so a file ingested twice is seen twice. Two history
variables tell the failures apart: `broken` are the files of which a call before the
verdict failed (download, INSERT, COMMIT), `unmarked` those whose status update failed or
whose worker died. `Worthy` says from the stated rules what a good workbook is, and
`Passable` adds the grade NaN, which the validator lets pass.

## 3. Runs

| Run | Instance | Shows |
|---|---|---|
| `SyncLoop` | 1 worker, 3 rows of 2 students, batches of 2, 2 attempts | `TypeOK`, `CompletedJobDrains`, `JobAdvances`, `JobEnds` |
| `GradeSystem` | 1 file of 2 rows, 2 requests for it, 2 workers in 2 processes | `SysTypeOK`, `TouchedWasCleared`, `OverlapHasCause`, `AllSyncedIsHeld`, `SyncedIsStored`, `FailedStoredHasCause`, `ResentHasCause`, `VerdictIsFinal`, `ImplementsLifecycle` |
| `JobQueueOne` | 1 process, 1 goroutine, channel of 2, 4 messages, 1 malformed | `TypeOK`, `StartedInOrder`, `DropsOnlyOverCapacity`, `ExitIsQuiet`, `EverySentIsSettled` |
| `JobQueueShared` | 2 processes of 2 goroutines, 3 messages, 1 malformed | `StartedOnce`, `Accounted`, `ImplementsDelivery` |
| `AuthToken` | 2 callers, lifetimes below and above the margin, 2 logins | `TypeOK`, `LoginIsNeeded`, `CachedTokenIsAlive`, `GetTokenReturns` |
| `IngestionFiles` | 10 kinds of workbook, 2 jobs in 2 processes | `TypeOK`, `StagedIsWhole`, `ParsedFileHasRows`, `VerdictMatchesWorkbook`, `FileJobEnds` |
| `PullDaily` | a table with UNIQUE columns (6 lists) and one without (3 lists), days 0 to 2 of 3 ticks | `TypeOK`, `MirrorsAnswer`, `NoDayMissed`, `RowsAreKept`, `ServedOnce`, `PullEnds` |

Five runs show where the code does not do what its documents or comments say (each
is a finding with the lines it contradicts):

| Run | Violated | What happens |
|---|---|---|
| `SyncRejectedBatch` | `SyncedIsStored` | the department refuses a whole batch; students it does not name are marked `SYNCED` |
| `SyncTornRead` | `ShortBatchIsLast` | `rows.Err()` is never read: a cut result set ends the job with success, rows left `READY` |
| `JobQueueShutdown` | `GracefulShutdown` | after a signal the consumer's error reaches `log.Fatal` while a job runs |
| `JobQueueRetry` | `FailedIsRetried` | a job fails in a serving process: the error is logged, its message is on no list any more |
| `AuthRefused` | `RefusedTokenIsRefreshed` | a token answered with 401 is served again from the cache |

Three more findings need no interleaving and have no run: the message of a triggered job
carries neither semester nor year (`handler.go:84`); a refusal with an open schedule stays
a refusal, because `GetActiveSchedule` drops the times (`external_server.go:86`); and a
grade NaN passes the validator (`validator.go:46`). The models follow the code in each:
`AskPermission` lets the worker's check answer anything, `ActiveSchedule` drops the
times, `ValidateFails` lets NaN pass. What that means for the properties: `TouchedWasCleared`
allows both grounds of a permission, and would hold as well of a code that keeps the
times; `VerdictMatchesWorkbook` excepts NaN by name.

What some properties do not say. `DropsOnlyOverCapacity` speaks of the time until more
than one channel's worth was pushed. `CachedTokenIsAlive` speaks of the moment a token is
handed out, not of the end of the request that carries it. `AllSyncedIsHeld` compares the
counts of one statement. `MirrorsAnswer` exempts lists whose records collide on a UNIQUE
column; what is left for those is `RowsAreKept`.

Bounds and why they are enough. *SyncLoop*: three rows and batches of two make the
loop go round (a full batch, then a short or an empty one), two rows of one student
separate rows from the students an answer names, two attempts make a retry.
*GradeSystem*: overlap is a relation between two jobs, so two requests, `MaxMessages`
= 2 copies (of one request or of both) and two workers, each a process of its own so
that one may crash while the other goes on; two rows of different students make
partial answers. One attempt suffices there, because a later job sends a row again as
a retry does; `SyncLoop` has the retry. The answers are every combination of flags, with
a schedule around `Now`. *JobQueueOne*: the channel of two and a running job
hold three messages, a fourth one is dropped. *JobQueueShared*: two consumers race
for three messages. *JobQueueRetry*: one process and one message are enough to fail. *AuthToken*: `MaxTime` = 6 ticks of 15 s lets a long token be
issued, served, go stale and be replaced; `MaxLogins` = 2 bounds the tokens issued.
*IngestionFiles*: `MaxTries` = 2 jobs, on one file or on two. *PullDaily*: the lists
contain an address that moves to another teacher, an exchange of two addresses in one
list in both orders, and two teachers without a user name; three ticks a day separate
before, within and after the last second, and three days let a pull outlast a midnight
and the one after. `MaxTime`, `MaxLogins`, `MaxTries`, `MaxMessages` and `LastDay` are
the only bounds in guards; everything else is bounded by the sets in the `.cfg` files.

Symmetry is used in `GradeSystem` and `JobQueueShared`, which check no liveness
property. In the first, workers are exchanged together with their processes, rows
with their students, since `ProcOf` and `StudentOf` tie them, and the two requests; in
the second, the messages that carry a job, and the processes.

## 4. Fairness

* A sync or ingestion job (`ProcessSyncJob`, `ProcessFile`): weak fairness per worker.
  HTTP clients and Redis calls have timeouts and the scheduler runs runnable
  goroutines, so a call returns; nothing is assumed about its outcome. Database and
  bucket calls have no timeout of their own: that they return is an assumption.
* Queue: weak fairness of the consumer's steps, the goroutines' steps (a job ends is
  what `JobEnds` and `FileJobEnds` show) and main's steps after a signal. `Deliver`
  has strong fairness: while the list is not empty, Redis does not make every BRPOP
  fail for ever. No fairness of `Signal`, `Kill`, `Start` or `Enqueue`.
* Tokens: strong fairness of taking the lock, as `sync.RWMutex` blocks new readers
  once a writer waits and lets them in when it leaves; a login ends with an answer or
  by the client's timeout. No fairness of the clock or of new calls.
* A pull: weak fairness of its calls (`PullAll`), whose HTTP client has a timeout of a
  minute; the upserts have none, so that they return is an assumption. Nothing is
  assumed of the clock, of restarts, or of any call's outcome.
* `GradeSystem` states no fairness: what it adds to the sync service is checked for
  safety, and the jobs' termination is `JobEnds`.

Deadlock is checked in every run: the models always allow another job, message or
restart.

## 5. Proofs

Every invariant and every action property a passing run checks is also stated by a
theorem. Assumptions on constants are the named `ASSUME`s of the modules; they fix types
and finiteness (of the messages and processes of `JobQueue`, for instance; batch size and
retries may be 0), that a sentinel (`NoFile`, `None`) is no value it stands beside, that a
row of a request's job is of the request's file, that the clock is past Go's zero time and that a day has a tick after 23:59:59.000. Where a theorem has a
hypothesis of its own it is named below.

*SyncServiceProofs*: `TypeCorrect`, by one lemma for `Return`, `EndBatch` and
`Decide` each and a case per action. The only arithmetic is that `SendFailed` is
guarded by `attempt < RetryAttempts`. `NothingSettled` is the remark above on SQL.

*SyncSafetyProofs*: the safety properties are not inductive. That a row `FAILED`
although stored has a cause depends on what the worker knew when it decided, so the
invariant `IInv` follows a row through the worker's hands:

* `LocalsInv`: a worker holds a batch, and never an empty one, exactly from the query to
  the last marking; in the marking calls it is the disjoint union of the two id lists,
  elsewhere both are empty.
* `PresentInv`, `SharedInv`: only inserted rows are held or stored; a row in two
  batches is in `shared`.
* `SettledInv`: a held row that already has a verdict is shared, or its holder has
  just marked it. `MarkedInv`: after the first UPDATE no success is `READY`.
* `ReadyStoredInv`: a row stored but still `READY` has a cause or is in a batch;
  `HeldStoredInv`: a row about to be sent, or marked `FAILED`, that is already
  stored has a cause. These two carry `FailedStoredHasCause` and `ResentHasCause`:
  a fetched row that is stored is `READY`, hence has a cause, or was in another
  batch, hence is now shared.
* `DrainInv`: a short batch from a complete result set holds every row of `before`
  that is still `READY`. With `FetchDrains` (cardinality of the selection against the
  limit) it gives `CompletedDrains`.

Each part has a lemma with a step per action. `Inductive` puts them together, and
`FailedStoredCause`, `ResentCause`, `VerdictFinal`, `CompletedDrains` and `LoopsAdvance` follow.
`SyncedStored` has a smaller invariant of its own (ids about to be marked `SYNCED` are
stored) and one hypothesis, `~RejectsWholeBatch`; run `SyncRejectedBatch` shows that
it cannot be dropped.

`LoopsAdvance` is the part of termination that is no temporal matter. What a job has ahead
of it are the `READY` rows of its selection and its batch; each call shrinks that set
(`OwnStep`: at the end of a round the batch is not empty and none of it is `READY` any
more), or leaves it and goes on to the next call or the next attempt, and nobody else adds
to it but by staging rows (`OthersStep`). The rows, stages and attempts being finite, a job
whose calls return ends as soon as nothing new is staged for it; that it does under weak
fairness is `JobEnds`, which TLC checks.

*SyncRefinementProofs*: theorem `Refinement`. Seen from one row, a step of a worker is a
step of `GradeLifecycle` or leaves the row alone. `VisibleSteps` reduces the actions to
the three kinds the abstraction sees (rows staged, rows of a batch received, rows of a
batch marked); `StagedStep`, `ReceivedStep` and `MarkedStep` map each under `RefInv`
(`IInv`, the invariant of `SyncedStored`, and that a row received twice is stored).
Hypothesis: `~RejectsWholeBatch`, as for `SyncedStored`.

*GradeSystemProofs*: every action of the composition is an action of the sync service
or leaves its variables alone (`SysStepIsSyncStep`). Hence `Composition`: the composed
system implements `SyncService`, whose invariants hold in it; `SysCauses` and
`SysRefinement` are consequences, and `AllSyncedHeld` (with `~RejectsWholeBatch`)
combines them with the monotony of the abstract steps. Two properties need invariants
of the composition:

* `TouchedCleared`: `ClearedInv` follows the grounds of a request (its file was
  `PARSED_OK`, its permission was due) from the handler over the messages to the running
  jobs, `BatchInv` says that a batch is made of rows of its job. `GrantIsAllowed` is where
  the second look at a refusal matters: the times `GetActiveSchedule` leaves zero make it
  void for every `Now` above zero, so what is granted was allowed outright.
* `OverlapCause`: `TicketInv` says that the running jobs can be numbered with copies
  that have left the list, no two with the same. The numbering is an existential inside
  the invariant, since the program keeps none. Two jobs with a row in hand then are
  two copies.

*PullWorkerProofs*: `UpsertedTable` and `UpsertedRows` say what one upsert does to a
table; `PullTypeCorrect` (PRIMARY and UNIQUE keys hold) and `RowsKept` follow from the
first. `TimerInv` relates the timer to the days it has gone off for (they are over, and the
day it is set for is none of them) and gives `DayServedOnce` and, with the clock, `DaysServed`.
`AnswerInv` says that the upserted part of a list is in the table if all of it was
counted and none collided; `AnswerMirrored` rests on it and on the hypothesis that a
list names each id once (a second record of an id would rewrite the first).

*AuthManagerProofs*: `AuthTypeCorrect`, and `CachedTokenAlive` under `Timing`
(`LoginTimeout <= Margin`; the code has 30 s for both). Its invariant says that the
cached expiry exceeds the token's death by at most the login timeout, because the
clock cannot move further while an answer is on its way. `LoginNeeded` rests on the same
invariant: who logs in holds the write lock, so nobody else does and nobody fills the
cache meanwhile, and it began after the second look under that lock found nothing fresh.

*IngestionProofs*: `TypeCorrect`, `AllOrNone` and `ParsedMeansStaged`. The lemma
`TotalType` says that a workbook gives a natural number of rows (a cardinality of a
finite set of indices) and that one the validator lets pass gives at least one. The
invariant adds to the properties: a worker's transaction holds nothing before its
first INSERT, only a workbook that was not refused gets that far, and a worker about
to write `PARSED_OK` has all its rows in the table. `CommittedWhole` is the one step
that adds rows; `TablesKept` serves the others.

`VerdictIsWorkbooks` says that the status a file is left in has its reason. It has two
halves. `PassableUnlessRefused` is about data: the parser and the validator stop at the
first thing they dislike, `Passable` judges the workbook as a whole, and both agree on
every workbook; `WorthyPasses` puts the stated rules within it. `DecisionInv` is about
jobs, several of which may be at work on one file: a job about to write `PARSED_FAIL` has a
refused workbook or saw a call fail (`FailInv`), a worker has a file exactly while it is
busy (`HeldInv`), and a file begun is `UPLOADED` only in a worker's hands or unmarked,
`PARSED_FAIL` only if refused or broken, and `PARSED_OK` only if not refused (`VerdictInv`).

*JobQueueProofs*: five invariants, each resting on those before it.

* `TypeInv`: the types, and that a consumer has a message in hand exactly while the
  handler or the dead-letter push is about to use it. `QuietExit` needs no more: main
  returns when every goroutine of the pool has, and a goroutine that returned runs nothing.
* `PlaceInv`: the list, the hands, the channels, the running jobs and the sets of ended,
  dropped, dead-lettered and lost messages are nine places that form a partition of what
  was pushed (`Accounted` counts eight, failed and dead-lettered being one); no list or
  channel repeats a message and no two processes hold the same one.
  Every step moves messages between two places (`Move`) or adds a new one (`Grow`); the
  end of a process empties three at once (`EndsPlace`). `AlwaysAccounted` is the partition
  written as a count.
* `StartInv`: a started message was pushed and is no longer under way, hence
  `NeverStartedTwice`: `TakeJob` starts only what is under way.
* `ReadableInv`: channels hold readable messages only. With `StartInv` it makes each step
  a step of `JobDelivery` or a stutter (`DeliveryStep`), hence `QueueImplementsDelivery`.
* `OrderInv`: the list is descending in the order of the pushes and whatever left it was
  pushed before whatever is on it; each channel is ascending and before its consumer's
  hand; with one process, what was started is ascending and before all that is held.
  `StartedAsPushed` follows. The last part is false of two processes, which is why the
  property speaks of one.

`DroppedOnlyOverCapacity` counts: at a drop the full channel and the hand are a sequence
without repetition of messages pushed, so more than the capacity were (`NoLonger`).

Only model-checked: the liveness properties (`JobEnds`, `EverySentIsSettled`,
`GetTokenReturns`, `FileJobEnds`, `PullEnds`), since fairness and ENABLED are out of the
prover's reach.

## 6. Not modelled

* JSON bodies, headers, logging and error texts; the configuration and the connections
  opened at start-up; routing, middleware and the health check, which keep no state.
* excelize, Redis, MySQL and the department's service except for the effects named
  above. That the Redis client repeats a command is go-redis's default, which
  `redis.go` leaves on.
* Of the status answer: the failed count, and the failure texts and the file's status,
  which later statements read than the counts; no document relates them.
* `files` rows are assumed to exist when their job is queued (`README.md:76` declares
  the foreign key). `GetGradesByFileAndClassSubject`, `Upload`, `Delete` and `Exists`
  are called nowhere.
* `Ingestion` and `SyncService` share `InsertGrades`, in detail in the first and as one
  step in the second; that the detailed one implements the step is `StagedIsWhole`.
  `JobQueue` and `GradeSystem` share the list through `JobDelivery`, which the first is
  checked to implement and whose actions the second repeats with copies of messages.

## 7. Plan

The modules above are the whole of the plan for the models. What is left:

1. That `GradeSystem`, too, implements `JobDelivery`, with the copies of messages as the
   abstract messages. Running jobs are not told which copy they came from, so the mapping
   needs the numbering of `TicketInv` as a history variable.
2. That `Ingestion`'s transaction implements the one step `InsertGrades` of `SyncService`,
   as a refinement instead of the property `StagedIsWhole`.
3. The later statements of the status query, if a document comes to relate them.
