------------------------- MODULE SyncSafetyProofs -------------------------
(***************************************************************************)
(* The safety properties of SyncService, for every table, every set of     *)
(* jobs and workers, every batch size and every number of retries.         *)
(*                                                                         *)
(* IInv, the inductive invariant, says who may hold a row in its batch and *)
(* what the table and the department already know of that row.             *)
(***************************************************************************)
EXTENDS SyncServiceProofs

Verdicts == {"SYNCED", "FAILED"}

\* Why the department may hold a row without the table saying so.
Cause == shared \cup doubtful

\* The shape of a worker's locals at each of its program points.
LocalsInv ==
  \A w \in Workers :
    /\ pc[w] # "idle" => job[w] \in Jobs
    /\ pc[w] \in {"idle", "permission", "fetch"} <=> batch[w] = {}
    /\ pc[w] \notin {"markSynced", "markFailed"}
         => successIDs[w] = {} /\ failedIDs[w] = {}
    /\ pc[w] \in {"markSynced", "markFailed"}
         => batch[w] = successIDs[w] \cup failedIDs[w]
    /\ successIDs[w] \cap failedIDs[w] = {}

\* Only rows that exist are held by a worker or by the department.
PresentInv ==
  /\ \A w \in Workers : \A r \in batch[w] : staging[r] # "ABSENT"
  /\ \A r \in stored : staging[r] # "ABSENT"

\* Two workers hold the same row only if it is counted as shared.
SharedInv ==
  \A v, w \in Workers : v # w => batch[v] \cap batch[w] \subseteq shared

\* A held row has its verdict already only if another job had it too, or if
\* its holder has just marked it SYNCED.
SettledInv ==
  \A w \in Workers : \A r \in batch[w] :
    staging[r] \in Verdicts
      => r \in shared \/ (pc[w] = "markFailed" /\ r \in successIDs[w])

\* Once the successes are marked, none of them is READY.
MarkedInv ==
  \A w \in Workers :
    pc[w] = "markFailed" => \A r \in successIDs[w] : staging[r] \in Verdicts

\* The department already holds a row that is being sent, or that is about to
\* be marked FAILED, only for a cause.
HeldStoredInv ==
  \A w \in Workers :
    /\ pc[w] = "send" => batch[w] \cap stored \subseteq Cause
    /\ failedIDs[w] \cap stored \subseteq Cause

\* A stored row that is still READY has a cause or is in some worker's hands.
ReadyStoredInv ==
  \A r \in stored :
    staging[r] = "READY" => r \in Cause \/ \E w \in Workers : r \in batch[w]

\* The rows of before[w] exist and belong to the job; once a full answer is in
\* hand and it is a short one, it holds all of them that are still READY.
DrainInv ==
  \A w \in Workers :
    /\ \A r \in before[w] : staging[r] # "ABSENT" /\ r \in Target[job[w]]
    /\ /\ pc[w] \in {"send", "markSynced", "markFailed"}
       /\ ~torn[w]
       /\ Cardinality(batch[w]) < BatchSize
       => \A r \in before[w] : staging[r] = "READY" => r \in batch[w]

IInv ==
  /\ TypeOK
  /\ LocalsInv
  /\ PresentInv
  /\ SharedInv
  /\ SettledInv
  /\ MarkedInv
  /\ HeldStoredInv
  /\ ReadyStoredInv
  /\ DrainInv
  /\ FailedStoredHasCause
  /\ ResentHasCause

-----------------------------------------------------------------------------
\* What a call of GetReadyGrades does, whatever its result set.
LEMMA FetchEffect ==
  ASSUME TypeOK, NEW w \in Workers, GetReadyGrades(w)
  PROVE  /\ pc[w] = "fetch"
         /\ UNCHANGED <<db, cancelled, doubtful, resent>>
         /\ shared \subseteq shared'
         /\ \A v \in Workers \ {w} : torn'[v] = torn[v]
         /\ \/ Return(w, "error")
            \/ Return(w, "nil")
            \/ \E S \in SUBSET ReadyOf(job[w]) :
                 /\ S # {}
                 /\ shared' = shared \cup HeldByOthers(w, S)
                 /\ pc' = [pc EXCEPT ![w] = "send"]
                 /\ batch' = [batch EXCEPT ![w] = S]
                 /\ UNCHANGED <<job, attempt, successIDs, failedIDs, result,
                                before>>
<1> USE DEF TypeOK
<1>1. pc[w] = "fetch" /\ UNCHANGED <<db, cancelled, doubtful, resent>>
  BY DEF GetReadyGrades
<1>2. CASE Return(w, "error") /\ UNCHANGED <<torn, shared>>
  BY <1>1, <1>2
<1>3. CASE ~(Return(w, "error") /\ UNCHANGED <<torn, shared>>)
  <2>1. PICK S \in SUBSET ReadyOf(job[w]) :
          /\ \A v \in Workers \ {w} : torn'[v] = torn[v]
          /\ shared' = shared \cup HeldByOthers(w, S)
          /\ \/ Return(w, "nil")
             \/ /\ S # {}
                /\ pc' = [pc EXCEPT ![w] = "send"]
                /\ batch' = [batch EXCEPT ![w] = S]
                /\ UNCHANGED <<job, attempt, successIDs, failedIDs, result,
                               before>>
    BY <1>3 DEF GetReadyGrades
  <2> QED
    BY <1>1, <2>1
<1> QED
  BY <1>2, <1>3

\* A result set that was not cut short and is shorter than the limit holds
\* every READY row of the job.
LEMMA FetchDrains ==
  ASSUME TypeOK, NEW w \in Workers, GetReadyGrades(w), ~torn'[w]
  PROVE  /\ ~torn[w]
         /\ pc'[w] = "send" /\ Cardinality(batch'[w]) < BatchSize
              => ReadyOf(job[w]) \subseteq batch'[w]
         /\ pc'[w] = "idle" /\ result'[w] = "nil" /\ BatchSize > 0
              => ReadyOf(job[w]) = {}
<1> USE DEF TypeOK
<1>1. CASE Return(w, "error") /\ UNCHANGED <<torn, shared>>
  BY <1>1 DEF Return
<1>2. CASE ~(Return(w, "error") /\ UNCHANGED <<torn, shared>>)
  <2> DEFINE ready == Cardinality(ReadyOf(job[w]))
             want  == IF ready < BatchSize THEN ready ELSE BatchSize
  <2>1. PICK S \in SUBSET ReadyOf(job[w]) :
          /\ Cardinality(S) <= want
          /\ torn' = [torn EXCEPT ![w] = torn[w] \/ Cardinality(S) < want]
          /\ \/ S = {} /\ Return(w, "nil")
             \/ /\ pc' = [pc EXCEPT ![w] = "send"]
                /\ batch' = [batch EXCEPT ![w] = S]
    BY <1>2 DEF GetReadyGrades
  <2>2. IsFiniteSet(ReadyOf(job[w]))
    BY ConstantsAssumption, FS_Subset DEF ConstantsAssumption, ReadyOf
  <2>3. ready \in Nat /\ Cardinality(S) \in Nat /\ BatchSize \in Nat
    BY <2>1, <2>2, FS_CardinalityType, FS_Subset, ConstantsAssumption
    DEF ConstantsAssumption
  <2>4. ~torn[w] /\ ~(Cardinality(S) < want)
    BY <2>1
  <2>5. Cardinality(S) < BatchSize => Cardinality(S) = ready
    BY <2>1, <2>3, <2>4
  <2>6. Cardinality(S) = ready => S = ReadyOf(job[w])
    BY <2>1, <2>2, FS_Subset
  <2>7. Cardinality({}) = 0
    BY FS_EmptySet
  <2>8. CASE S = {} /\ Return(w, "nil")
    BY <2>4, <2>5, <2>6, <2>7, <2>8 DEF Return
  <2>9. CASE /\ pc' = [pc EXCEPT ![w] = "send"]
             /\ batch' = [batch EXCEPT ![w] = S]
    BY <2>4, <2>5, <2>6, <2>9
  <2> QED
    BY <2>1, <2>8, <2>9
<1> QED
  BY <1>1, <1>2

-----------------------------------------------------------------------------
(* Each part of IInv is preserved by every action.                         *)

LEMMA LocalsInvStep ==
  ASSUME TypeOK, LocalsInv, [Next]_vars
  PROVE  LocalsInv'
<1> USE DEF TypeOK, LocalsInv
<1>1. ASSUME NEW S \in SUBSET Rows, InsertGrades(S) PROVE LocalsInv'
  BY <1>1 DEF InsertGrades, local, history
<1>2. ASSUME NEW w \in Workers, NEW j \in Jobs, Begin(w, j) PROVE LocalsInv'
  BY <1>2 DEF Begin, ReadyOf, db
<1>3. ASSUME NEW w \in Workers, CheckPermission(w) PROVE LocalsInv'
  BY <1>3 DEF CheckPermission, Return, db, local
<1>4. ASSUME NEW w \in Workers, GetReadyGrades(w) PROVE LocalsInv'
  BY <1>4, FetchEffect DEF Return, ReadyOf, HeldByOthers, db
<1>5. ASSUME NEW w \in Workers, SendAnswered(w) PROVE LocalsInv'
  BY <1>5 DEF SendAnswered, Store, Decide, Named
<1>6. ASSUME NEW w \in Workers, SendFailed(w) PROVE LocalsInv'
  BY <1>6 DEF SendFailed, Store
<1>7. ASSUME NEW w \in Workers, BackoffCancelled(w) PROVE LocalsInv'
  BY <1>7 DEF BackoffCancelled, Return, db
<1>8. ASSUME NEW w \in Workers, RetriesExhausted(w) PROVE LocalsInv'
  BY <1>8 DEF RetriesExhausted, Decide, db, history
<1>9. ASSUME NEW w \in Workers, MarkSynced(w) PROVE LocalsInv'
  BY <1>9 DEF MarkSynced, UpdateFailed, Updated, SetStatus, EndBatch, Return,
         local
<1>10. ASSUME NEW w \in Workers, MarkFailed(w) PROVE LocalsInv'
  BY <1>10 DEF MarkFailed, UpdateFailed, Updated, SetStatus, EndBatch, Return
<1>11. ASSUME NEW p \in Processes, Cancel(p) PROVE LocalsInv'
  BY <1>11 DEF Cancel, db, local, history
<1>12. ASSUME NEW p \in Processes, Restart(p) PROVE LocalsInv'
  BY <1>12 DEF Restart, db
<1>13. CASE UNCHANGED vars
  BY <1>13 DEF vars
<1> QED
  BY <1>1, <1>2, <1>3, <1>4, <1>5, <1>6, <1>7, <1>8, <1>9, <1>10, <1>11,
     <1>12, <1>13 DEF Next, ProcessSyncJob

LEMMA PresentInvStep ==
  ASSUME TypeOK, PresentInv, [Next]_vars
  PROVE  PresentInv'
<1> USE DEF TypeOK, PresentInv
<1>1. ASSUME NEW S \in SUBSET Rows, InsertGrades(S) PROVE PresentInv'
  BY <1>1 DEF InsertGrades, local, history
<1>2. ASSUME NEW w \in Workers, NEW j \in Jobs, Begin(w, j) PROVE PresentInv'
  BY <1>2 DEF Begin, ReadyOf, db
<1>3. ASSUME NEW w \in Workers, CheckPermission(w) PROVE PresentInv'
  BY <1>3 DEF CheckPermission, Return, db, local
<1>4. ASSUME NEW w \in Workers, GetReadyGrades(w) PROVE PresentInv'
  BY <1>4, FetchEffect DEF Return, ReadyOf, HeldByOthers, db
<1>5. ASSUME NEW w \in Workers, SendAnswered(w) PROVE PresentInv'
  BY <1>5 DEF SendAnswered, Store, Decide, Named
<1>6. ASSUME NEW w \in Workers, SendFailed(w) PROVE PresentInv'
  BY <1>6 DEF SendFailed, Store
<1>7. ASSUME NEW w \in Workers, BackoffCancelled(w) PROVE PresentInv'
  BY <1>7 DEF BackoffCancelled, Return, db
<1>8. ASSUME NEW w \in Workers, RetriesExhausted(w) PROVE PresentInv'
  BY <1>8 DEF RetriesExhausted, Decide, db, history
<1>9. ASSUME NEW w \in Workers, MarkSynced(w) PROVE PresentInv'
  BY <1>9 DEF MarkSynced, UpdateFailed, Updated, SetStatus, EndBatch, Return,
         local
<1>10. ASSUME NEW w \in Workers, MarkFailed(w) PROVE PresentInv'
  BY <1>10 DEF MarkFailed, UpdateFailed, Updated, SetStatus, EndBatch, Return
<1>11. ASSUME NEW p \in Processes, Cancel(p) PROVE PresentInv'
  BY <1>11 DEF Cancel, db, local, history
<1>12. ASSUME NEW p \in Processes, Restart(p) PROVE PresentInv'
  BY <1>12 DEF Restart, db
<1>13. CASE UNCHANGED vars
  BY <1>13 DEF vars
<1> QED
  BY <1>1, <1>2, <1>3, <1>4, <1>5, <1>6, <1>7, <1>8, <1>9, <1>10, <1>11,
     <1>12, <1>13 DEF Next, ProcessSyncJob

LEMMA SharedInvStep ==
  ASSUME TypeOK, SharedInv, [Next]_vars
  PROVE  SharedInv'
<1> USE DEF TypeOK, SharedInv
<1>1. ASSUME NEW S \in SUBSET Rows, InsertGrades(S) PROVE SharedInv'
  BY <1>1 DEF InsertGrades, local, history
<1>2. ASSUME NEW w \in Workers, NEW j \in Jobs, Begin(w, j) PROVE SharedInv'
  BY <1>2 DEF Begin, ReadyOf, db
<1>3. ASSUME NEW w \in Workers, CheckPermission(w) PROVE SharedInv'
  BY <1>3 DEF CheckPermission, Return, db, local
<1>4. ASSUME NEW w \in Workers, GetReadyGrades(w) PROVE SharedInv'
  BY <1>4, FetchEffect DEF Return, ReadyOf, HeldByOthers, db
<1>5. ASSUME NEW w \in Workers, SendAnswered(w) PROVE SharedInv'
  BY <1>5 DEF SendAnswered, Store, Decide, Named
<1>6. ASSUME NEW w \in Workers, SendFailed(w) PROVE SharedInv'
  BY <1>6 DEF SendFailed, Store
<1>7. ASSUME NEW w \in Workers, BackoffCancelled(w) PROVE SharedInv'
  BY <1>7 DEF BackoffCancelled, Return, db
<1>8. ASSUME NEW w \in Workers, RetriesExhausted(w) PROVE SharedInv'
  BY <1>8 DEF RetriesExhausted, Decide, db, history
<1>9. ASSUME NEW w \in Workers, MarkSynced(w) PROVE SharedInv'
  BY <1>9 DEF MarkSynced, UpdateFailed, Updated, SetStatus, EndBatch, Return,
         local
<1>10. ASSUME NEW w \in Workers, MarkFailed(w) PROVE SharedInv'
  BY <1>10 DEF MarkFailed, UpdateFailed, Updated, SetStatus, EndBatch, Return
<1>11. ASSUME NEW p \in Processes, Cancel(p) PROVE SharedInv'
  BY <1>11 DEF Cancel, db, local, history
<1>12. ASSUME NEW p \in Processes, Restart(p) PROVE SharedInv'
  BY <1>12 DEF Restart, db
<1>13. CASE UNCHANGED vars
  BY <1>13 DEF vars
<1> QED
  BY <1>1, <1>2, <1>3, <1>4, <1>5, <1>6, <1>7, <1>8, <1>9, <1>10, <1>11,
     <1>12, <1>13 DEF Next, ProcessSyncJob

LEMMA SettledInvStep ==
  ASSUME TypeOK, LocalsInv, SharedInv, SettledInv, [Next]_vars
  PROVE  SettledInv'
<1> USE DEF TypeOK, LocalsInv, SharedInv, SettledInv, Verdicts
<1>1. ASSUME NEW S \in SUBSET Rows, InsertGrades(S) PROVE SettledInv'
  BY <1>1 DEF InsertGrades, local, history
<1>2. ASSUME NEW w \in Workers, NEW j \in Jobs, Begin(w, j) PROVE SettledInv'
  BY <1>2 DEF Begin, ReadyOf, db
<1>3. ASSUME NEW w \in Workers, CheckPermission(w) PROVE SettledInv'
  BY <1>3 DEF CheckPermission, Return, db, local
<1>4. ASSUME NEW w \in Workers, GetReadyGrades(w) PROVE SettledInv'
  BY <1>4, FetchEffect DEF Return, ReadyOf, HeldByOthers, db
<1>5. ASSUME NEW w \in Workers, SendAnswered(w) PROVE SettledInv'
  BY <1>5 DEF SendAnswered, Store, Decide, Named
<1>6. ASSUME NEW w \in Workers, SendFailed(w) PROVE SettledInv'
  BY <1>6 DEF SendFailed, Store
<1>7. ASSUME NEW w \in Workers, BackoffCancelled(w) PROVE SettledInv'
  BY <1>7 DEF BackoffCancelled, Return, db
<1>8. ASSUME NEW w \in Workers, RetriesExhausted(w) PROVE SettledInv'
  BY <1>8 DEF RetriesExhausted, Decide, db, history
<1>9. ASSUME NEW w \in Workers, MarkSynced(w) PROVE SettledInv'
  BY <1>9 DEF MarkSynced, UpdateFailed, Updated, SetStatus, EndBatch, Return,
         local
<1>10. ASSUME NEW w \in Workers, MarkFailed(w) PROVE SettledInv'
  BY <1>10 DEF MarkFailed, UpdateFailed, Updated, SetStatus, EndBatch, Return
<1>11. ASSUME NEW p \in Processes, Cancel(p) PROVE SettledInv'
  BY <1>11 DEF Cancel, db, local, history
<1>12. ASSUME NEW p \in Processes, Restart(p) PROVE SettledInv'
  BY <1>12 DEF Restart, db
<1>13. CASE UNCHANGED vars
  BY <1>13 DEF vars
<1> QED
  BY <1>1, <1>2, <1>3, <1>4, <1>5, <1>6, <1>7, <1>8, <1>9, <1>10, <1>11,
     <1>12, <1>13 DEF Next, ProcessSyncJob

LEMMA MarkedInvStep ==
  ASSUME TypeOK, LocalsInv, MarkedInv, [Next]_vars
  PROVE  MarkedInv'
<1> USE DEF TypeOK, LocalsInv, MarkedInv, Verdicts
<1>1. ASSUME NEW S \in SUBSET Rows, InsertGrades(S) PROVE MarkedInv'
  BY <1>1 DEF InsertGrades, local, history
<1>2. ASSUME NEW w \in Workers, NEW j \in Jobs, Begin(w, j) PROVE MarkedInv'
  BY <1>2 DEF Begin, ReadyOf, db
<1>3. ASSUME NEW w \in Workers, CheckPermission(w) PROVE MarkedInv'
  BY <1>3 DEF CheckPermission, Return, db, local
<1>4. ASSUME NEW w \in Workers, GetReadyGrades(w) PROVE MarkedInv'
  BY <1>4, FetchEffect DEF Return, ReadyOf, HeldByOthers, db
<1>5. ASSUME NEW w \in Workers, SendAnswered(w) PROVE MarkedInv'
  BY <1>5 DEF SendAnswered, Store, Decide, Named
<1>6. ASSUME NEW w \in Workers, SendFailed(w) PROVE MarkedInv'
  BY <1>6 DEF SendFailed, Store
<1>7. ASSUME NEW w \in Workers, BackoffCancelled(w) PROVE MarkedInv'
  BY <1>7 DEF BackoffCancelled, Return, db
<1>8. ASSUME NEW w \in Workers, RetriesExhausted(w) PROVE MarkedInv'
  BY <1>8 DEF RetriesExhausted, Decide, db, history
<1>9. ASSUME NEW w \in Workers, MarkSynced(w) PROVE MarkedInv'
  BY <1>9 DEF MarkSynced, UpdateFailed, Updated, SetStatus, EndBatch, Return,
         local
<1>10. ASSUME NEW w \in Workers, MarkFailed(w) PROVE MarkedInv'
  BY <1>10 DEF MarkFailed, UpdateFailed, Updated, SetStatus, EndBatch, Return
<1>11. ASSUME NEW p \in Processes, Cancel(p) PROVE MarkedInv'
  BY <1>11 DEF Cancel, db, local, history
<1>12. ASSUME NEW p \in Processes, Restart(p) PROVE MarkedInv'
  BY <1>12 DEF Restart, db
<1>13. CASE UNCHANGED vars
  BY <1>13 DEF vars
<1> QED
  BY <1>1, <1>2, <1>3, <1>4, <1>5, <1>6, <1>7, <1>8, <1>9, <1>10, <1>11,
     <1>12, <1>13 DEF Next, ProcessSyncJob

LEMMA HeldStoredInvStep ==
  ASSUME TypeOK, LocalsInv, SharedInv, ReadyStoredInv, HeldStoredInv,
         [Next]_vars
  PROVE  HeldStoredInv'
<1> USE DEF TypeOK, LocalsInv, SharedInv, ReadyStoredInv, HeldStoredInv, Cause
<1>1. ASSUME NEW S \in SUBSET Rows, InsertGrades(S) PROVE HeldStoredInv'
  BY <1>1 DEF InsertGrades, local, history
<1>2. ASSUME NEW w \in Workers, NEW j \in Jobs, Begin(w, j)
      PROVE  HeldStoredInv'
  BY <1>2 DEF Begin, ReadyOf, db
<1>3. ASSUME NEW w \in Workers, CheckPermission(w) PROVE HeldStoredInv'
  BY <1>3 DEF CheckPermission, Return, db, local
<1>4. ASSUME NEW w \in Workers, GetReadyGrades(w) PROVE HeldStoredInv'
  BY <1>4, FetchEffect DEF Return, ReadyOf, HeldByOthers, db
<1>5. ASSUME NEW w \in Workers, SendAnswered(w) PROVE HeldStoredInv'
  BY <1>5 DEF SendAnswered, Store, Decide, Named
<1>6. ASSUME NEW w \in Workers, SendFailed(w) PROVE HeldStoredInv'
  BY <1>6 DEF SendFailed, Store
<1>7. ASSUME NEW w \in Workers, BackoffCancelled(w) PROVE HeldStoredInv'
  BY <1>7 DEF BackoffCancelled, Return, db
<1>8. ASSUME NEW w \in Workers, RetriesExhausted(w) PROVE HeldStoredInv'
  BY <1>8 DEF RetriesExhausted, Decide, db, history
<1>9. ASSUME NEW w \in Workers, MarkSynced(w) PROVE HeldStoredInv'
  BY <1>9 DEF MarkSynced, UpdateFailed, Updated, SetStatus, EndBatch, Return,
         local
<1>10. ASSUME NEW w \in Workers, MarkFailed(w) PROVE HeldStoredInv'
  BY <1>10 DEF MarkFailed, UpdateFailed, Updated, SetStatus, EndBatch, Return
<1>11. ASSUME NEW p \in Processes, Cancel(p) PROVE HeldStoredInv'
  BY <1>11 DEF Cancel, db, local, history
<1>12. ASSUME NEW p \in Processes, Restart(p) PROVE HeldStoredInv'
  BY <1>12 DEF Restart, db
<1>13. CASE UNCHANGED vars
  BY <1>13 DEF vars
<1> QED
  BY <1>1, <1>2, <1>3, <1>4, <1>5, <1>6, <1>7, <1>8, <1>9, <1>10, <1>11,
     <1>12, <1>13 DEF Next, ProcessSyncJob

LEMMA ReadyStoredInvStep ==
  ASSUME TypeOK, LocalsInv, PresentInv, MarkedInv, HeldStoredInv,
         ReadyStoredInv, [Next]_vars
  PROVE  ReadyStoredInv'
<1> USE DEF TypeOK, LocalsInv, PresentInv, MarkedInv, HeldStoredInv,
            ReadyStoredInv, Verdicts, Cause
<1>1. ASSUME NEW S \in SUBSET Rows, InsertGrades(S) PROVE ReadyStoredInv'
  BY <1>1 DEF InsertGrades, local, history
<1>2. ASSUME NEW w \in Workers, NEW j \in Jobs, Begin(w, j)
      PROVE  ReadyStoredInv'
  BY <1>2 DEF Begin, ReadyOf, db
<1>3. ASSUME NEW w \in Workers, CheckPermission(w) PROVE ReadyStoredInv'
  BY <1>3 DEF CheckPermission, Return, db, local
<1>4. ASSUME NEW w \in Workers, GetReadyGrades(w) PROVE ReadyStoredInv'
  BY <1>4, FetchEffect DEF Return, ReadyOf, HeldByOthers, db
<1>5. ASSUME NEW w \in Workers, SendAnswered(w) PROVE ReadyStoredInv'
  BY <1>5 DEF SendAnswered, Store, Decide, Named
<1>6. ASSUME NEW w \in Workers, SendFailed(w) PROVE ReadyStoredInv'
  BY <1>6 DEF SendFailed, Store
<1>7. ASSUME NEW w \in Workers, BackoffCancelled(w) PROVE ReadyStoredInv'
  BY <1>7 DEF BackoffCancelled, Return, db
<1>8. ASSUME NEW w \in Workers, RetriesExhausted(w) PROVE ReadyStoredInv'
  BY <1>8 DEF RetriesExhausted, Decide, db, history
<1>9. ASSUME NEW w \in Workers, MarkSynced(w) PROVE ReadyStoredInv'
  BY <1>9 DEF MarkSynced, UpdateFailed, Updated, SetStatus, EndBatch, Return,
         local
<1>10. ASSUME NEW w \in Workers, MarkFailed(w) PROVE ReadyStoredInv'
  BY <1>10 DEF MarkFailed, UpdateFailed, Updated, SetStatus, EndBatch, Return
<1>11. ASSUME NEW p \in Processes, Cancel(p) PROVE ReadyStoredInv'
  BY <1>11 DEF Cancel, db, local, history
<1>12. ASSUME NEW p \in Processes, Restart(p) PROVE ReadyStoredInv'
  BY <1>12 DEF Restart, db
<1>13. CASE UNCHANGED vars
  BY <1>13 DEF vars
<1> QED
  BY <1>1, <1>2, <1>3, <1>4, <1>5, <1>6, <1>7, <1>8, <1>9, <1>10, <1>11,
     <1>12, <1>13 DEF Next, ProcessSyncJob

LEMMA DrainInvStep ==
  ASSUME TypeOK, LocalsInv, DrainInv, [Next]_vars
  PROVE  DrainInv'
<1> USE DEF TypeOK, LocalsInv, DrainInv
<1>1. ASSUME NEW S \in SUBSET Rows, InsertGrades(S) PROVE DrainInv'
  BY <1>1 DEF InsertGrades, local, history
<1>2. ASSUME NEW w \in Workers, NEW j \in Jobs, Begin(w, j) PROVE DrainInv'
  BY <1>2 DEF Begin, ReadyOf, db
<1>3. ASSUME NEW w \in Workers, CheckPermission(w) PROVE DrainInv'
  BY <1>3 DEF CheckPermission, Return, db, local
<1>4. ASSUME NEW w \in Workers, GetReadyGrades(w) PROVE DrainInv'
  BY <1>4, FetchEffect, FetchDrains DEF Return, ReadyOf, db
<1>5. ASSUME NEW w \in Workers, SendAnswered(w) PROVE DrainInv'
  BY <1>5 DEF SendAnswered, Store, Decide, Named
<1>6. ASSUME NEW w \in Workers, SendFailed(w) PROVE DrainInv'
  BY <1>6 DEF SendFailed, Store
<1>7. ASSUME NEW w \in Workers, BackoffCancelled(w) PROVE DrainInv'
  BY <1>7 DEF BackoffCancelled, Return, db
<1>8. ASSUME NEW w \in Workers, RetriesExhausted(w) PROVE DrainInv'
  BY <1>8 DEF RetriesExhausted, Decide, db, history
<1>9. ASSUME NEW w \in Workers, MarkSynced(w) PROVE DrainInv'
  BY <1>9 DEF MarkSynced, UpdateFailed, Updated, SetStatus, EndBatch, Return,
         local
<1>10. ASSUME NEW w \in Workers, MarkFailed(w) PROVE DrainInv'
  BY <1>10 DEF MarkFailed, UpdateFailed, Updated, SetStatus, EndBatch, Return
<1>11. ASSUME NEW p \in Processes, Cancel(p) PROVE DrainInv'
  BY <1>11 DEF Cancel, db, local, history
<1>12. ASSUME NEW p \in Processes, Restart(p) PROVE DrainInv'
  BY <1>12 DEF Restart, db
<1>13. CASE UNCHANGED vars
  BY <1>13 DEF vars
<1> QED
  BY <1>1, <1>2, <1>3, <1>4, <1>5, <1>6, <1>7, <1>8, <1>9, <1>10, <1>11,
     <1>12, <1>13 DEF Next, ProcessSyncJob

LEMMA FailedStoredHasCauseStep ==
  ASSUME TypeOK, SettledInv, HeldStoredInv, LocalsInv, FailedStoredHasCause,
         [Next]_vars
  PROVE  FailedStoredHasCause'
<1> USE DEF TypeOK, SettledInv, HeldStoredInv, LocalsInv,
            FailedStoredHasCause, Verdicts, Cause
<1>1. ASSUME NEW S \in SUBSET Rows, InsertGrades(S) PROVE FailedStoredHasCause'
  BY <1>1 DEF InsertGrades, local, history
<1>2. ASSUME NEW w \in Workers, NEW j \in Jobs, Begin(w, j)
      PROVE  FailedStoredHasCause'
  BY <1>2 DEF Begin, ReadyOf, db
<1>3. ASSUME NEW w \in Workers, CheckPermission(w) PROVE FailedStoredHasCause'
  BY <1>3 DEF CheckPermission, Return, db, local
<1>4. ASSUME NEW w \in Workers, GetReadyGrades(w) PROVE FailedStoredHasCause'
  BY <1>4, FetchEffect DEF Return, ReadyOf, HeldByOthers, db
<1>5. ASSUME NEW w \in Workers, SendAnswered(w) PROVE FailedStoredHasCause'
  BY <1>5 DEF SendAnswered, Store, Decide, Named
<1>6. ASSUME NEW w \in Workers, SendFailed(w) PROVE FailedStoredHasCause'
  BY <1>6 DEF SendFailed, Store
<1>7. ASSUME NEW w \in Workers, BackoffCancelled(w) PROVE FailedStoredHasCause'
  BY <1>7 DEF BackoffCancelled, Return, db
<1>8. ASSUME NEW w \in Workers, RetriesExhausted(w) PROVE FailedStoredHasCause'
  BY <1>8 DEF RetriesExhausted, Decide, db, history
<1>9. ASSUME NEW w \in Workers, MarkSynced(w) PROVE FailedStoredHasCause'
  BY <1>9 DEF MarkSynced, UpdateFailed, Updated, SetStatus, EndBatch, Return,
         local
<1>10. ASSUME NEW w \in Workers, MarkFailed(w) PROVE FailedStoredHasCause'
  BY <1>10 DEF MarkFailed, UpdateFailed, Updated, SetStatus, EndBatch, Return
<1>11. ASSUME NEW p \in Processes, Cancel(p) PROVE FailedStoredHasCause'
  BY <1>11 DEF Cancel, db, local, history
<1>12. ASSUME NEW p \in Processes, Restart(p) PROVE FailedStoredHasCause'
  BY <1>12 DEF Restart, db
<1>13. CASE UNCHANGED vars
  BY <1>13 DEF vars
<1> QED
  BY <1>1, <1>2, <1>3, <1>4, <1>5, <1>6, <1>7, <1>8, <1>9, <1>10, <1>11,
     <1>12, <1>13 DEF Next, ProcessSyncJob

LEMMA ResentHasCauseStep ==
  ASSUME TypeOK, HeldStoredInv, ResentHasCause, [Next]_vars
  PROVE  ResentHasCause'
<1> USE DEF TypeOK, HeldStoredInv, ResentHasCause, Cause
<1>1. ASSUME NEW S \in SUBSET Rows, InsertGrades(S) PROVE ResentHasCause'
  BY <1>1 DEF InsertGrades, local, history
<1>2. ASSUME NEW w \in Workers, NEW j \in Jobs, Begin(w, j)
      PROVE  ResentHasCause'
  BY <1>2 DEF Begin, ReadyOf, db
<1>3. ASSUME NEW w \in Workers, CheckPermission(w) PROVE ResentHasCause'
  BY <1>3 DEF CheckPermission, Return, db, local
<1>4. ASSUME NEW w \in Workers, GetReadyGrades(w) PROVE ResentHasCause'
  BY <1>4, FetchEffect DEF Return, ReadyOf, HeldByOthers, db
<1>5. ASSUME NEW w \in Workers, SendAnswered(w) PROVE ResentHasCause'
  BY <1>5 DEF SendAnswered, Store, Decide, Named
<1>6. ASSUME NEW w \in Workers, SendFailed(w) PROVE ResentHasCause'
  BY <1>6 DEF SendFailed, Store
<1>7. ASSUME NEW w \in Workers, BackoffCancelled(w) PROVE ResentHasCause'
  BY <1>7 DEF BackoffCancelled, Return, db
<1>8. ASSUME NEW w \in Workers, RetriesExhausted(w) PROVE ResentHasCause'
  BY <1>8 DEF RetriesExhausted, Decide, db, history
<1>9. ASSUME NEW w \in Workers, MarkSynced(w) PROVE ResentHasCause'
  BY <1>9 DEF MarkSynced, UpdateFailed, Updated, SetStatus, EndBatch, Return,
         local
<1>10. ASSUME NEW w \in Workers, MarkFailed(w) PROVE ResentHasCause'
  BY <1>10 DEF MarkFailed, UpdateFailed, Updated, SetStatus, EndBatch, Return
<1>11. ASSUME NEW p \in Processes, Cancel(p) PROVE ResentHasCause'
  BY <1>11 DEF Cancel, db, local, history
<1>12. ASSUME NEW p \in Processes, Restart(p) PROVE ResentHasCause'
  BY <1>12 DEF Restart, db
<1>13. CASE UNCHANGED vars
  BY <1>13 DEF vars
<1> QED
  BY <1>1, <1>2, <1>3, <1>4, <1>5, <1>6, <1>7, <1>8, <1>9, <1>10, <1>11,
     <1>12, <1>13 DEF Next, ProcessSyncJob

-----------------------------------------------------------------------------
LEMMA InitIInv == Init => IInv
<1> SUFFICES ASSUME Init PROVE IInv
  OBVIOUS
<1>1. TypeOK
  BY InitTypeOK
<1>2. /\ LocalsInv /\ PresentInv /\ SharedInv /\ SettledInv /\ MarkedInv
      /\ HeldStoredInv /\ ReadyStoredInv /\ DrainInv
  BY DEF Init, LocalsInv, PresentInv, SharedInv, SettledInv, MarkedInv,
         HeldStoredInv, ReadyStoredInv, DrainInv
<1>3. FailedStoredHasCause /\ ResentHasCause
  BY DEF Init, FailedStoredHasCause, ResentHasCause
<1> QED
  BY <1>1, <1>2, <1>3 DEF IInv

LEMMA NextIInv == IInv /\ [Next]_vars => IInv'
<1> SUFFICES ASSUME IInv, [Next]_vars PROVE IInv'
  OBVIOUS
<1>1. TypeOK'
  BY NextTypeOK DEF IInv
<1>2. LocalsInv' /\ PresentInv' /\ SharedInv' /\ SettledInv' /\ MarkedInv'
  BY LocalsInvStep, PresentInvStep, SharedInvStep, SettledInvStep,
     MarkedInvStep DEF IInv
<1>3. HeldStoredInv' /\ ReadyStoredInv' /\ DrainInv'
  BY HeldStoredInvStep, ReadyStoredInvStep, DrainInvStep DEF IInv
<1>4. FailedStoredHasCause' /\ ResentHasCause'
  BY FailedStoredHasCauseStep, ResentHasCauseStep DEF IInv
<1> QED
  BY <1>1, <1>2, <1>3, <1>4 DEF IInv

(* The parts of IInv hold in every reachable state.                        *)
THEOREM Inductive == Spec => []IInv
BY InitIInv, NextIInv, PTL DEF Spec

(* A row the department holds is marked FAILED only if an answer was lost, *)
(* a call was broken off, or two jobs had the row in hand at once.         *)
THEOREM FailedStoredCause == Spec => []FailedStoredHasCause
<1>1. IInv => FailedStoredHasCause
  BY DEF IInv
<1> QED
  BY <1>1, Inductive, PTL

(* The department receives a stored row again only for the same reasons.   *)
THEOREM ResentCause == Spec => []ResentHasCause
<1>1. IInv => ResentHasCause
  BY DEF IInv
<1> QED
  BY <1>1, Inductive, PTL

-----------------------------------------------------------------------------
\* No step moves a row out of its verdict, unless two jobs shared it.
LEMMA VerdictStep ==
  ASSUME TypeOK, LocalsInv, SettledInv, [Next]_vars, NEW r \in Rows,
         staging[r] \in {"SYNCED", "FAILED"}, staging'[r] # staging[r]
  PROVE  staging'[r] # "READY" /\ r \in shared
<1> USE DEF TypeOK, LocalsInv, SettledInv, Verdicts
<1>1. ASSUME NEW S \in SUBSET Rows, InsertGrades(S) PROVE FALSE
  BY <1>1 DEF InsertGrades
<1>2. ASSUME NEW w \in Workers, MarkSynced(w)
      PROVE  staging'[r] # "READY" /\ r \in shared
  BY <1>2 DEF MarkSynced, UpdateFailed, Updated, SetStatus
<1>3. ASSUME NEW w \in Workers, MarkFailed(w)
      PROVE  staging'[r] # "READY" /\ r \in shared
  BY <1>3 DEF MarkFailed, UpdateFailed, Updated, SetStatus
<1>4. \/ \E S \in SUBSET Rows : InsertGrades(S)
      \/ \E w \in Workers : MarkSynced(w) \/ MarkFailed(w)
  BY DEF Next, ProcessSyncJob, Begin, CheckPermission, GetReadyGrades,
         SendAnswered, SendFailed, BackoffCancelled, RetriesExhausted,
         Cancel, Restart, db, vars
<1> QED
  BY <1>1, <1>2, <1>3, <1>4

(* A verdict changes only if two jobs had the row in hand at once, and no  *)
(* row becomes READY again.                                                *)
THEOREM VerdictFinal == Spec => VerdictIsFinal
<1>1. IInv /\ [Next]_vars =>
        [\A r \in Rows :
           staging[r] \in {"SYNCED", "FAILED"} /\ staging'[r] # staging[r]
             => staging'[r] # "READY" /\ r \in shared]_vars
  BY VerdictStep DEF IInv
<1> QED
  BY <1>1, Inductive, PTL DEF Spec, VerdictIsFinal

-----------------------------------------------------------------------------
\* What is about to be marked SYNCED is stored, if the department stores
\* every row it does not name as failed.
StoredInv ==
  /\ \A w \in Workers : successIDs[w] \subseteq stored
  /\ SyncedIsStored

LEMMA StoredInvStep ==
  ASSUME ~RejectsWholeBatch, TypeOK, StoredInv, [Next]_vars
  PROVE  StoredInv'
<1> USE DEF TypeOK, StoredInv, SyncedIsStored
<1>1. ASSUME NEW S \in SUBSET Rows, InsertGrades(S) PROVE StoredInv'
  BY <1>1 DEF InsertGrades, local, history
<1>2. ASSUME NEW w \in Workers, NEW j \in Jobs, Begin(w, j) PROVE StoredInv'
  BY <1>2 DEF Begin, ReadyOf, db
<1>3. ASSUME NEW w \in Workers, CheckPermission(w) PROVE StoredInv'
  BY <1>3 DEF CheckPermission, Return, db, local
<1>4. ASSUME NEW w \in Workers, GetReadyGrades(w) PROVE StoredInv'
  BY <1>4, FetchEffect DEF Return, db
<1>5. ASSUME NEW w \in Workers, SendAnswered(w) PROVE StoredInv'
  BY <1>5 DEF SendAnswered, Store, Decide, Named
<1>6. ASSUME NEW w \in Workers, SendFailed(w) PROVE StoredInv'
  BY <1>6 DEF SendFailed, Store
<1>7. ASSUME NEW w \in Workers, BackoffCancelled(w) PROVE StoredInv'
  BY <1>7 DEF BackoffCancelled, Return, db
<1>8. ASSUME NEW w \in Workers, RetriesExhausted(w) PROVE StoredInv'
  BY <1>8 DEF RetriesExhausted, Decide, db, history
<1>9. ASSUME NEW w \in Workers, MarkSynced(w) PROVE StoredInv'
  BY <1>9 DEF MarkSynced, UpdateFailed, Updated, SetStatus, EndBatch, Return,
         local
<1>10. ASSUME NEW w \in Workers, MarkFailed(w) PROVE StoredInv'
  BY <1>10 DEF MarkFailed, UpdateFailed, Updated, SetStatus, EndBatch, Return
<1>11. ASSUME NEW p \in Processes, Cancel(p) PROVE StoredInv'
  BY <1>11 DEF Cancel, db, local, history
<1>12. ASSUME NEW p \in Processes, Restart(p) PROVE StoredInv'
  BY <1>12 DEF Restart, db
<1>13. CASE UNCHANGED vars
  BY <1>13 DEF vars
<1> QED
  BY <1>1, <1>2, <1>3, <1>4, <1>5, <1>6, <1>7, <1>8, <1>9, <1>10, <1>11,
     <1>12, <1>13 DEF Next, ProcessSyncJob

(* A row marked SYNCED is held by the department, whatever fails or        *)
(* overlaps, if the department stores every row it does not name.          *)
THEOREM SyncedStored ==
  ASSUME ~RejectsWholeBatch
  PROVE  Spec => []SyncedIsStored
<1>1. Init => StoredInv
  BY DEF Init, StoredInv, SyncedIsStored
<1>2. TypeOK /\ StoredInv /\ [Next]_vars => StoredInv'
  BY StoredInvStep
<1>3. StoredInv => SyncedIsStored
  BY DEF StoredInv
<1> QED
  BY <1>1, <1>2, <1>3, TypeCorrect, PTL DEF Spec

-----------------------------------------------------------------------------
\* A step in which a job returns nil is a step of its own worker, which found
\* no READY row or has just marked a short batch.
LEMMA DrainStep ==
  ASSUME TypeOK, LocalsInv, MarkedInv, DrainInv, [Next]_vars, BatchSize > 0,
         NEW w \in Workers, Completes(w), ~torn'[w], NEW r \in before[w]
  PROVE  staging'[r] # "READY"
<1> USE DEF TypeOK, Completes, DrainInv
<1>1. CASE GetReadyGrades(w)
  BY <1>1, FetchEffect, FetchDrains DEF ReadyOf, db
<1>2. CASE MarkSynced(w)
  BY <1>2 DEF MarkSynced, UpdateFailed, Updated, SetStatus, EndBatch, Return,
              LocalsInv
<1>3. CASE MarkFailed(w)
  BY <1>3 DEF MarkFailed, UpdateFailed, Updated, SetStatus, EndBatch, Return,
              LocalsInv, MarkedInv, Verdicts
<1>4. ASSUME NEW v \in Workers \ {w}, ProcessSyncJob(v) PROVE FALSE
  <2>1. CASE GetReadyGrades(v)
    BY <2>1, FetchEffect DEF Return
  <2>2. CASE CheckPermission(v) \/ BackoffCancelled(v)
    BY <2>2 DEF CheckPermission, BackoffCancelled, Return
  <2>3. CASE SendAnswered(v) \/ SendFailed(v) \/ RetriesExhausted(v)
    BY <2>3 DEF SendAnswered, SendFailed, RetriesExhausted, Decide
  <2>4. CASE MarkSynced(v) \/ MarkFailed(v)
    BY <2>4 DEF MarkSynced, MarkFailed, UpdateFailed, EndBatch, Return
  <2> QED
    BY <1>4, <2>1, <2>2, <2>3, <2>4 DEF ProcessSyncJob
<1>5. ASSUME CheckPermission(w) \/ BackoffCancelled(w) PROVE FALSE
  BY <1>5 DEF CheckPermission, BackoffCancelled, Return
<1>6. ASSUME SendAnswered(w) \/ SendFailed(w) \/ RetriesExhausted(w)
      PROVE  FALSE
  BY <1>6 DEF SendAnswered, SendFailed, RetriesExhausted, Decide
<1>7. ASSUME NEW v \in Workers, NEW j \in Jobs, Begin(v, j) PROVE FALSE
  BY <1>7 DEF Begin
<1>8. ASSUME NEW S \in SUBSET Rows, InsertGrades(S) PROVE FALSE
  BY <1>8 DEF InsertGrades
<1>9. ASSUME NEW p \in Processes, Cancel(p) \/ Restart(p) PROVE FALSE
  BY <1>9 DEF Cancel, Restart
<1>10. CASE UNCHANGED vars
  BY <1>10 DEF vars
<1> QED
  BY <1>1, <1>2, <1>3, <1>4, <1>5, <1>6, <1>7, <1>8, <1>9, <1>10
  DEF Next, ProcessSyncJob

(* A job that returns nil, no result set of it cut short, leaves none of   *)
(* the rows READY that were READY when it began.                           *)
THEOREM CompletedDrains == Spec => CompletedJobDrains
<1>1. IInv /\ [Next]_vars =>
        [BatchSize > 0 =>
           \A w \in Workers : Completes(w) /\ ~torn'[w]
             => \A r \in before[w] : staging'[r] # "READY"]_vars
  BY DrainStep DEF IInv
<1> QED
  BY <1>1, Inductive, PTL DEF Spec, CompletedJobDrains

-----------------------------------------------------------------------------
(* The loops of a job.                                                     *)

\* A call that does not end w's job keeps the job, takes no row out of it but
\* by its verdict, and brings the batch further on.
LEMMA OwnStep ==
  ASSUME TypeOK, LocalsInv, MarkedInv, NEW w \in Workers,
         ProcessSyncJob(w), pc'[w] # "idle"
  PROVE  /\ Ahead(w)' \subseteq Ahead(w)
         /\ \/ Ahead(w)' # Ahead(w)
            \/ Ahead(w)' = Ahead(w) /\ Stage[pc'[w]] > Stage[pc[w]]
            \/ /\ Ahead(w)' = Ahead(w) /\ pc'[w] = pc[w]
               /\ attempt[w] < attempt'[w]
<1> USE DEF TypeOK, Ahead, ReadyOf
<1>1. CASE CheckPermission(w)
  BY <1>1 DEF CheckPermission, Return, Stage, db, local
<1>2. CASE GetReadyGrades(w)
  BY <1>2, FetchEffect DEF Return, Stage, db
<1>3. CASE SendAnswered(w)
  <2>1. pc[w] = "send" /\ UNCHANGED <<staging, job, batch>>
    BY <1>3 DEF SendAnswered
  <2>2. pc'[w] \in {"markSynced", "markFailed"}
    BY <1>3 DEF SendAnswered, Decide
  <2>3. Ahead(w)' = Ahead(w)
    BY <2>1
  <2>4. Stage[pc'[w]] > Stage[pc[w]]
    BY <2>1, <2>2 DEF Stage
  <2> QED
    BY <2>3, <2>4
<1>4. CASE SendFailed(w)
  <2>1. attempt'[w] = attempt[w] + 1 /\ attempt[w] \in Nat
    BY <1>4, ConstantsAssumption DEF SendFailed, ConstantsAssumption
  <2> QED
    BY <1>4, <2>1 DEF SendFailed
<1>5. CASE RetriesExhausted(w)
  BY <1>5 DEF RetriesExhausted, Decide, Stage, db
<1>6. ASSUME EndBatch(w), UNCHANGED <<stored, cancelled>>, pc[w] # "fetch",
             batch[w] # {}, \A r \in batch[w] : staging'[r] # "READY",
             \A r \in Rows : staging'[r] = "READY" => staging[r] = "READY"
      PROVE  Ahead(w)' \subseteq Ahead(w) /\ Ahead(w)' # Ahead(w)
  <2>1. job' = job /\ batch'[w] = {}
    BY <1>6 DEF EndBatch, Return
  <2> QED
    BY <1>6, <2>1
<1>7. CASE MarkSynced(w)
  <2>1. CASE EndBatch(w) /\ Updated(w, successIDs[w], "SYNCED") /\ failedIDs[w] = {}
    BY <1>6, <1>7, <2>1 DEF MarkSynced, Updated, SetStatus, LocalsInv
  <2>2. CASE /\ Updated(w, successIDs[w], "SYNCED")
             /\ pc' = [pc EXCEPT ![w] = "markFailed"]
             /\ UNCHANGED local
    BY <1>7, <2>2 DEF MarkSynced, Updated, SetStatus, Stage, LocalsInv, local
  <2> QED
    BY <1>7, <2>1, <2>2 DEF MarkSynced, UpdateFailed, Return
<1>8. CASE MarkFailed(w)
  <2>1. Updated(w, failedIDs[w], "FAILED") /\ EndBatch(w)
    BY <1>8 DEF MarkFailed, UpdateFailed, Return
  <2>2. \A r \in batch[w] : staging'[r] # "READY"
    BY <1>8, <2>1 DEF MarkFailed, Updated, SetStatus, LocalsInv, MarkedInv, Verdicts
  <2> QED
    BY <1>6, <1>8, <2>1, <2>2 DEF MarkFailed, Updated, SetStatus, LocalsInv
<1>9. CASE BackoffCancelled(w)
  BY <1>9 DEF BackoffCancelled, Return
<1> QED
  BY <1>1, <1>2, <1>3, <1>4, <1>5, <1>7, <1>8, <1>9 DEF ProcessSyncJob

\* Nobody but its own worker touches what a job has in hand, and a row becomes
\* READY only when it is staged.
LEMMA OthersStep ==
  ASSUME TypeOK, [Next]_vars, NEW w \in Workers, ~ProcessSyncJob(w),
         pc[w] # "idle", pc'[w] # "idle"
  PROVE  \A r \in Ahead(w)' \ Ahead(w) : staging[r] = "ABSENT"
<1> USE DEF TypeOK
<1>1. job'[w] = job[w] /\ batch'[w] = batch[w]
  <2>1. ASSUME NEW v \in Workers \ {w}, ProcessSyncJob(v)
        PROVE  job'[w] = job[w] /\ batch'[w] = batch[w]
    <3>1. CASE GetReadyGrades(v)
      BY <3>1, FetchEffect DEF Return
    <3>2. CASE CheckPermission(v) \/ BackoffCancelled(v)
      BY <3>2 DEF CheckPermission, BackoffCancelled, Return, local
    <3>3. CASE SendAnswered(v) \/ SendFailed(v) \/ RetriesExhausted(v)
      BY <3>3 DEF SendAnswered, SendFailed, RetriesExhausted
    <3>4. CASE MarkSynced(v) \/ MarkFailed(v)
      BY <3>4 DEF MarkSynced, MarkFailed, UpdateFailed, EndBatch, Return, local
    <3> QED
      BY <2>1, <3>1, <3>2, <3>3, <3>4 DEF ProcessSyncJob
  <2>2. ASSUME NEW v \in Workers, NEW j \in Jobs, Begin(v, j)
        PROVE  job'[w] = job[w] /\ batch'[w] = batch[w]
    BY <2>2 DEF Begin
  <2>3. ASSUME NEW S \in SUBSET Rows, InsertGrades(S)
        PROVE  job'[w] = job[w] /\ batch'[w] = batch[w]
    BY <2>3 DEF InsertGrades, local
  <2>4. ASSUME NEW p \in Processes, Cancel(p) \/ Restart(p)
        PROVE  job'[w] = job[w] /\ batch'[w] = batch[w]
    BY <2>4 DEF Cancel, Restart, local
  <2>5. CASE UNCHANGED vars
    BY <2>5 DEF vars
  <2> QED
    BY <2>1, <2>2, <2>3, <2>4, <2>5 DEF Next
<1>2. \A r \in Rows : staging'[r] = "READY" => staging[r] \in {"READY", "ABSENT"}
  <2>1. ASSUME NEW v \in Workers, ProcessSyncJob(v)
        PROVE  \A r \in Rows : staging'[r] = "READY" => staging[r] = "READY"
    <3>1. CASE GetReadyGrades(v)
      BY <3>1, FetchEffect DEF db
    <3>2. CASE CheckPermission(v) \/ BackoffCancelled(v)
      BY <3>2 DEF CheckPermission, BackoffCancelled, db
    <3>3. CASE SendAnswered(v) \/ SendFailed(v) \/ RetriesExhausted(v)
      BY <3>3 DEF SendAnswered, SendFailed, RetriesExhausted, db
    <3>4. CASE MarkSynced(v) \/ MarkFailed(v)
      BY <3>4 DEF MarkSynced, MarkFailed, UpdateFailed, Updated, SetStatus
    <3> QED
      BY <2>1, <3>1, <3>2, <3>3, <3>4 DEF ProcessSyncJob
  <2>2. ASSUME NEW v \in Workers, NEW j \in Jobs, Begin(v, j)
        PROVE  UNCHANGED staging
    BY <2>2 DEF Begin, db
  <2>3. ASSUME NEW S \in SUBSET Rows, InsertGrades(S)
        PROVE  \A r \in Rows :
                 staging'[r] = "READY" => staging[r] \in {"READY", "ABSENT"}
    BY <2>3 DEF InsertGrades
  <2>4. ASSUME NEW p \in Processes, Cancel(p) \/ Restart(p)
        PROVE  UNCHANGED staging
    BY <2>4 DEF Cancel, Restart, db
  <2>5. CASE UNCHANGED vars
    BY <2>5 DEF vars
  <2> QED
    BY <2>1, <2>2, <2>3, <2>4, <2>5 DEF Next
<1> QED
  BY <1>1, <1>2 DEF Ahead, ReadyOf

(* Why a job ends, whatever fails and whatever other jobs do: each of its  *)
(* calls brings it nearer to the end of its rows, of its batch or of its   *)
(* attempts, and only newly staged rows set it back.                       *)
THEOREM LoopsAdvance == Spec => JobAdvances
<1>1. ASSUME IInv, [Next]_vars, NEW w \in Workers, pc[w] # "idle",
             pc'[w] # "idle"
      PROVE  /\ \A r \in Ahead(w)' \ Ahead(w) : staging[r] = "ABSENT"
             /\ ProcessSyncJob(w) =>
                  \/ Ahead(w)' \subseteq Ahead(w) /\ Ahead(w)' # Ahead(w)
                  \/ Ahead(w)' = Ahead(w) /\ Stage[pc'[w]] > Stage[pc[w]]
                  \/ /\ Ahead(w)' = Ahead(w) /\ pc'[w] = pc[w]
                     /\ attempt[w] < attempt'[w]
  <2>1. CASE ProcessSyncJob(w)
    BY <1>1, <2>1, OwnStep DEF IInv
  <2>2. CASE ~ProcessSyncJob(w)
    BY <1>1, <2>2, OthersStep DEF IInv
  <2> QED
    BY <2>1, <2>2
<1>2. IInv /\ [Next]_vars =>
        [\A w \in Workers : pc[w] # "idle" /\ pc'[w] # "idle" =>
           /\ \A r \in Ahead(w)' \ Ahead(w) : staging[r] = "ABSENT"
           /\ ProcessSyncJob(w) =>
                \/ Ahead(w)' \subseteq Ahead(w) /\ Ahead(w)' # Ahead(w)
                \/ Ahead(w)' = Ahead(w) /\ Stage[pc'[w]] > Stage[pc[w]]
                \/ /\ Ahead(w)' = Ahead(w) /\ pc'[w] = pc[w]
                   /\ attempt[w] < attempt'[w]]_vars
  BY <1>1
<1> QED
  BY <1>2, Inductive, PTL DEF Spec, JobAdvances
=============================================================================
