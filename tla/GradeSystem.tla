---------------------------- MODULE GradeSystem ----------------------------
(***************************************************************************)
(* The way of a grade through the whole system: it is staged from a file,  *)
(* a user asks for its class and subject to be pushed (Handler.TriggerSync, *)
(* internal/api/handler.go), the job travels over Redis, a sync worker runs *)
(* it (SyncService), and a user reads how far the file has come            *)
(* (Handler.GetGradesStatus).                                              *)
(*                                                                         *)
(* The list, the consumers and the pools are the module JobQueue. What is  *)
(* kept of them here is what JobDelivery says, which JobQueue implements: a *)
(* message's job is begun once, or the message is lost on the way. Staging *)
(* is the module Ingestion; of a file its status and its rows are left.    *)
(***************************************************************************)
EXTENDS SyncService

CONSTANTS
  Files,
  FileOf,     \* [Rows -> Files]: grades_staging.file_id
  Requests,   \* the POSTs of /api/v1/sync/trigger
  FileAsked,  \* [Requests -> Files]: file_id of the request
  JobOf,      \* [Requests -> Jobs]: its file_id, class and subject
  Answers,    \* what check-permission may answer
  Now,        \* the time of the checks; 0 is Go's zero time
  MaxMessages \* bound on the messages the list receives

Schedules ==
  [active : BOOLEAN, locked : BOOLEAN, start : Nat, end : Nat]

\* activeSchedule is a string, or an object the decoder knows by its id: none
\* or one schedule.
IsAnswer(a) ==
  /\ a.isAllowed \in BOOLEAN
  /\ \A s, u \in a.schedule : s \in Schedules /\ s = u

ASSUME SystemAssumption ==
  /\ FileOf \in [Rows -> Files]
  /\ IsFiniteSet(Requests)
  /\ FileAsked \in [Requests -> Files]
  /\ JobOf \in [Requests -> Jobs]
  /\ \A t \in Requests : \A r \in Target[JobOf[t]] : FileOf[r] = FileAsked[t]
  /\ \A a \in Answers : IsAnswer(a)
  /\ Now \in Nat \ {0}
  /\ MaxMessages \in Nat

VARIABLES
  parsed,     \* the files whose status is PARSED_OK
  request,    \* per request: the call TriggerSync makes next
  messages,   \* per request: copies of its message on their way to a worker
  told        \* rows of which a status answer said that their whole file is
              \* synced

\* History variables: only the properties read them.
VARIABLES
  cleared,    \* requests on their way to the push, or pushed, whose file was
              \* PARSED_OK when it was read and whose permission was due
  pushed      \* per request: copies of its message the list has received

front   == <<parsed, request, told>>
sysvars == <<vars, parsed, request, messages, told, cleared, pushed>>

InHandler == {"permission", "push"}   \* TriggerSync has made its first call

\* CheckSyncPermission has said yes to the worker.
Granted(w) == pc[w] \notin {"idle", "permission"}

SysTypeOK ==
  /\ parsed \subseteq Files
  /\ request \in [Requests -> {"getFile", "answered"} \cup InHandler]
  /\ messages \in [Requests -> 0 .. MaxMessages]
  /\ pushed \in [Requests -> 0 .. MaxMessages]
  /\ told \subseteq Rows
  /\ cleared \subseteq Requests

SysInit ==
  /\ Init
  /\ parsed = {}
  /\ request = [t \in Requests |-> "getFile"]
  /\ messages = [t \in Requests |-> 0]
  /\ told = {}
  /\ cleared = {}
  /\ pushed = [t \in Requests |-> 0]

RowsOf(f) == {r \in Rows : FileOf[r] = f}
Present(f) == {r \in RowsOf(f) : staging[r] # "ABSENT"}

-----------------------------------------------------------------------------
(* The ingestion worker stages rows of file f; then, in a call of its own, *)
(* it marks the file PARSED_OK or PARSED_FAIL. A second job of the file may *)
(* do either again.                                                        *)
StageFile(f) ==
  /\ \E S \in SUBSET RowsOf(f) : InsertGrades(S)
  /\ UNCHANGED <<front, messages, cleared, pushed>>

MarkFile(f) ==
  /\ \/ /\ Present(f) # {}
        /\ parsed' = parsed \cup {f}
     \/ parsed' = parsed \ {f}
  /\ UNCHANGED <<vars, request, messages, told, cleared, pushed>>

-----------------------------------------------------------------------------
\* GetActiveSchedule copies the flags and leaves both times zero.
ActiveSchedule(a) == {[s EXCEPT !.start = 0, !.end = 0] : s \in a.schedule}

\* An active, unlocked schedule around the present.
Opens(schedule) ==
  \E s \in schedule : ~s.locked /\ s.active /\ s.start <= Now /\ Now <= s.end

\* CheckSyncPermission grants what the department allows, and else whatever
\* the active schedule opens.
Permits(a) == a.isAllowed \/ Opens(ActiveSchedule(a))

\* The messages the list has received so far.
Copies ==
  {c \in Requests \X (1 .. MaxMessages) : c[2] <= pushed[c[1]]}

\* TriggerSync goes on to another call, or answers.
Step(t, from, to) ==
  /\ request[t] = from
  /\ request' = [request EXCEPT ![t] = to]

\* What the properties remember of request t: whether it is on its way to the
\* push on good grounds so far.
Judge(t, good) == cleared' = IF good THEN cleared \cup {t} ELSE cleared \ {t}

\* Mutant of GetFile: the file's status is not looked at.
GetFileUnparsed(t) ==
  /\ \/ Step(t, "getFile", "permission") /\ Judge(t, FileAsked[t] \in parsed)
     \/ Step(t, "getFile", "answered") /\ Judge(t, FALSE)
  /\ UNCHANGED <<vars, parsed, messages, told, pushed>>

(* POST /api/v1/sync/trigger: the file is found and PARSED_OK, or the      *)
(* answer is 404 or 400.                                                   *)
GetFile(t) ==
  /\ \/ /\ FileAsked[t] \in parsed
        /\ Step(t, "getFile", "permission")
        /\ Judge(t, FileAsked[t] \in parsed)
     \/ Step(t, "getFile", "answered") /\ Judge(t, FALSE)
  /\ UNCHANGED <<vars, parsed, messages, told, pushed>>

(* The check for the term of the request: granted, or 400, or 500. A       *)
(* permission is due when the department allows the push, or refuses it    *)
(* with a schedule that is open.                                           *)
CheckSyncPermission(t) ==
  /\ \/ \E a \in Answers :
          /\ Permits(a)
          /\ Step(t, "permission", "push")
          /\ Judge(t, t \in cleared /\ (a.isAllowed \/ Opens(a.schedule)))
     \/ Step(t, "permission", "answered") /\ Judge(t, FALSE)
  /\ UNCHANGED <<vars, parsed, messages, told, pushed>>

(* LPUSH of the message. The Redis client repeats a command whose answer   *)
(* is lost, so the list may receive it several times, or not at all. The   *)
(* answer, 200 or 500, does not tell which: an error may be reported of a  *)
(* message that was received.                                              *)
EnqueueSyncJob(t) ==
  /\ Step(t, "push", "answered")
  /\ \E copies \in 0 .. (MaxMessages - Cardinality(Copies)) :
       /\ messages' = [messages EXCEPT ![t] = copies]
       /\ pushed' = [pushed EXCEPT ![t] = copies]
  /\ UNCHANGED <<vars, parsed, told, cleared>>

(* The API process ends and starts again: its requests get none but the    *)
(* error of a closed connection.                                           *)
RestartAPI ==
  /\ \E t \in Requests : request[t] \in InHandler
  /\ request' = [t \in Requests |-> IF request[t] \in InHandler THEN "answered"
                                    ELSE request[t]]
  /\ cleared' = cleared \ {t \in Requests : request[t] \in InHandler}
  /\ UNCHANGED <<vars, parsed, messages, told, pushed>>

-----------------------------------------------------------------------------
(* A message never arrives: dropped behind a full channel, popped by a call *)
(* whose answer is lost, or in the memory of a process that ends.          *)
LoseMessage(t) ==
  /\ messages[t] > 0
  /\ messages' = [messages EXCEPT ![t] = @ - 1]
  /\ UNCHANGED <<vars, front, cleared, pushed>>

\* Mutant of BeginJob: the message stays on the list while the job runs.
BeginJobUnacked(w) ==
  /\ \E t \in Requests :
       /\ messages[t] > 0
       /\ Begin(w, JobOf[t])
  /\ UNCHANGED <<front, messages, cleared, pushed>>

\* Mutant of BeginJob: a BRPOP that timed out is taken for a message.
BeginJobFromNothing(w) ==
  /\ \E t \in Requests :
       /\ messages' = [messages EXCEPT ![t] = @ - 1]
       /\ Begin(w, JobOf[t])
  /\ UNCHANGED <<front, cleared, pushed>>

(* A pool goroutine starts the job of a message, which carries the file,   *)
(* the class and the subject asked for.                                    *)
BeginJob(w) ==
  /\ \E t \in Requests :
       /\ messages[t] > 0
       /\ messages' = [messages EXCEPT ![t] = @ - 1]
       /\ Begin(w, JobOf[t])
  /\ UNCHANGED <<front, cleared, pushed>>

(* The worker's own check. TriggerSync copies neither semester nor year    *)
(* into the message, so it is a check for the semester "" of year 0, and   *)
(* any answer may come.                                                    *)
AskPermission(w) ==
  /\ CheckPermission(w)
  /\ Granted(w)' => \E a \in Answers : Permits(a)
  /\ UNCHANGED <<front, messages, cleared, pushed>>

RunJob(w) ==
  /\ pc[w] # "permission"
  /\ ProcessSyncJob(w)
  /\ UNCHANGED <<front, messages, cleared, pushed>>

StopWorker(p) ==
  /\ Cancel(p) \/ Restart(p)
  /\ UNCHANGED <<front, messages, cleared, pushed>>

-----------------------------------------------------------------------------
\* Mutant of CountedSynced: every row that is no longer READY.
CountedNotReady(f) == {r \in Present(f) : staging[r] # "READY"}

\* COUNT(CASE WHEN status = 'SYNCED' THEN 1 END)
CountedSynced(f) == {r \in Present(f) : staging[r] = "SYNCED"}

(* GetGradesStatus of file f, when its counts are equal and it is answered *)
(* with them. Of no rows there is no answer: MAX(updated_at) is NULL, which *)
(* Scan refuses. The file's own status and the texts of its failures, which *)
(* later statements read, are left out.                                    *)
GetGradesStatus(f) ==
  /\ Present(f) # {}
  /\ Present(f) = CountedSynced(f)
  /\ told' = told \cup Present(f)
  /\ UNCHANGED <<vars, parsed, request, messages, cleared, pushed>>

TriggerSync(t) ==
  GetFile(t) \/ CheckSyncPermission(t) \/ EnqueueSyncJob(t)

SysNext ==
  \/ \E f \in Files : StageFile(f) \/ MarkFile(f) \/ GetGradesStatus(f)
  \/ \E t \in Requests : TriggerSync(t) \/ LoseMessage(t)
  \/ \E w \in Workers : BeginJob(w) \/ AskPermission(w) \/ RunJob(w)
  \/ \E p \in Processes : StopWorker(p)
  \/ RestartAPI

SysSpec == SysInit /\ [][SysNext]_sysvars

-----------------------------------------------------------------------------
Touched(r) ==
  \/ r \in stored
  \/ staging[r] \in {"SYNCED", "FAILED"}
  \/ \E w \in Workers : r \in batch[w]

(* No grade is taken up, sent or settled but for a user who asked for it   *)
(* when its file was PARSED_OK, and to whom the department said isAllowed, *)
(* or named a schedule that was active, unlocked and open                  *)
(* (handler.go:48-81, service.go:51-83). In the code as it is the second   *)
(* way is never taken: the times of a schedule are lost                    *)
(* (external_server.go:86-95).                                             *)
TouchedWasCleared ==
  \A r \in Rows :
    Touched(r) => \E t \in cleared : pushed[t] > 0 /\ r \in Target[JobOf[t]]

(* Two jobs have a grade in hand at once only if two users asked for it, or *)
(* the message of one was pushed twice: no crash, restart or lost message  *)
(* ever doubles a job (consumer.go:44, handler.go:90).                     *)
OverlapHasCause ==
  \A r \in shared : \E t, u \in Requests :
    /\ pushed[t] > 0 /\ pushed[u] > 0
    /\ t = u => pushed[t] > 1
    /\ r \in Target[JobOf[t]] \cap Target[JobOf[u]]

(* A user who was told that every record of a file is synced was told the  *)
(* truth and will not be disappointed: the department holds those records, *)
(* and none is changed again but by an overlapping job (handler.go:116-128, *)
(* repository.go:110-145).                                                 *)
AllSyncedIsHeld ==
  \A r \in told : r \in stored /\ (staging[r] = "SYNCED" \/ r \in shared)

(* What the sync service does in this system is what SyncService allows.   *)
ImplementsSync == Init /\ [][Next]_vars
=============================================================================
