------------------------- MODULE SyncServiceProofs -------------------------
(***************************************************************************)
(* Proofs about SyncService, for every table, every set of jobs and        *)
(* workers, every batch size and every number of retries.                  *)
(***************************************************************************)
EXTENDS SyncService, FiniteSetTheorems, TLAPS

USE DEF Statuses, PCs

-----------------------------------------------------------------------------
(* Type correctness.                                                       *)

LEMMA ExceptType ==
  ASSUME NEW S, NEW T, NEW f \in [S -> T], NEW w \in S, NEW v \in T
  PROVE  [f EXCEPT ![w] = v] \in [S -> T]
OBVIOUS

\* The part of TypeOK about the variables Return and EndBatch set.
LocalsTyped ==
  /\ pc \in [Workers -> PCs]
  /\ job \in [Workers -> Jobs \cup {NoJob}]
  /\ batch \in [Workers -> SUBSET Rows]
  /\ attempt \in [Workers -> 0 .. RetryAttempts]
  /\ successIDs \in [Workers -> SUBSET Rows]
  /\ failedIDs \in [Workers -> SUBSET Rows]
  /\ result \in [Workers -> {"none", "nil", "error"}]
  /\ before \in [Workers -> SUBSET Rows]

LEMMA ReturnType ==
  ASSUME LocalsTyped, NEW w \in Workers, NEW res \in {"nil", "error"},
         Return(w, res)
  PROVE  LocalsTyped'
<1>1. {} \in SUBSET Rows
  OBVIOUS
<1>2. 0 \in 0 .. RetryAttempts
  BY ConstantsAssumption DEF ConstantsAssumption
<1> QED
  BY <1>1, <1>2, ExceptType DEF LocalsTyped, Return

LEMMA EndBatchType ==
  ASSUME LocalsTyped, NEW w \in Workers, EndBatch(w)
  PROVE  LocalsTyped'
<1>1. {} \in SUBSET Rows
  OBVIOUS
<1>2. 0 \in 0 .. RetryAttempts
  BY ConstantsAssumption DEF ConstantsAssumption
<1>3. CASE Return(w, "nil")
  BY <1>3, ReturnType
<1> QED
  BY <1>1, <1>2, <1>3 DEF LocalsTyped, EndBatch

LEMMA DecideType ==
  ASSUME LocalsTyped, NEW w \in Workers,
         NEW good \in SUBSET Rows, NEW bad \in SUBSET Rows,
         Decide(w, good, bad),
         UNCHANGED <<job, batch, attempt, result, before>>
  PROVE  LocalsTyped'
BY ExceptType DEF LocalsTyped, Decide

\* The other part of TypeOK.
OthersTyped ==
  /\ staging \in [Rows -> Statuses]
  /\ stored \subseteq Rows
  /\ cancelled \in [Processes -> BOOLEAN]
  /\ torn \in [Workers -> BOOLEAN]
  /\ shared \subseteq Rows
  /\ doubtful \subseteq Rows
  /\ resent \subseteq Rows

LEMMA TypeParts == TypeOK <=> LocalsTyped /\ OthersTyped
BY DEF TypeOK, LocalsTyped, OthersTyped

LEMMA InitTypeOK == Init => TypeOK
<1> SUFFICES ASSUME Init PROVE TypeOK
  OBVIOUS
<1>1. 0 \in 0 .. RetryAttempts
  BY ConstantsAssumption DEF ConstantsAssumption
<1> QED
  BY <1>1 DEF Init, TypeOK

LEMMA NextTypeOK == TypeOK /\ [Next]_vars => TypeOK'
<1> SUFFICES ASSUME LocalsTyped, OthersTyped, [Next]_vars
             PROVE  LocalsTyped' /\ OthersTyped'
  BY TypeParts, PTL
<1>1. ASSUME NEW S \in SUBSET Rows, InsertGrades(S)
      PROVE  LocalsTyped' /\ OthersTyped'
  BY <1>1 DEF InsertGrades, local, history, LocalsTyped, OthersTyped
<1>2. ASSUME NEW w \in Workers, NEW j \in Jobs, Begin(w, j)
      PROVE  LocalsTyped' /\ OthersTyped'
  BY <1>2 DEF Begin, db, ReadyOf, LocalsTyped, OthersTyped
<1>3. ASSUME NEW w \in Workers, CheckPermission(w)
      PROVE  LocalsTyped' /\ OthersTyped'
  <2>1. OthersTyped'
    BY <1>3 DEF CheckPermission, db, OthersTyped
  <2>2. LocalsTyped'
    BY <1>3, ReturnType DEF CheckPermission, local, LocalsTyped
  <2> QED
    BY <2>1, <2>2
<1>4. ASSUME NEW w \in Workers, GetReadyGrades(w)
      PROVE  LocalsTyped' /\ OthersTyped'
  <2>1. ReadyOf(job[w]) \subseteq Rows
    BY DEF ReadyOf
  <2>2. ASSUME NEW S \in SUBSET Rows PROVE HeldByOthers(w, S) \subseteq Rows
    BY DEF HeldByOthers
  <2>3. CASE Return(w, "error") /\ UNCHANGED <<torn, shared>>
    BY <1>4, <2>3, ReturnType DEF GetReadyGrades, db, OthersTyped
  <2>4. CASE ~(Return(w, "error") /\ UNCHANGED <<torn, shared>>)
    <3>1. PICK S \in SUBSET ReadyOf(job[w]) :
            /\ torn' = [torn EXCEPT ![w] = torn[w] \/ torn'[w]]
            /\ shared' = shared \cup HeldByOthers(w, S)
            /\ \/ Return(w, "nil")
               \/ /\ pc' = [pc EXCEPT ![w] = "send"]
                  /\ batch' = [batch EXCEPT ![w] = S]
                  /\ UNCHANGED <<job, attempt, successIDs, failedIDs,
                                 result, before>>
      BY <1>4, <2>4 DEF GetReadyGrades, OthersTyped
    <3>2. OthersTyped'
      BY <1>4, <2>1, <2>2, <3>1 DEF GetReadyGrades, db, OthersTyped
    <3>3. LocalsTyped'
      BY <2>1, <3>1, ReturnType, ExceptType DEF LocalsTyped
    <3> QED
      BY <3>2, <3>3
  <2> QED
    BY <2>3, <2>4
<1>5. ASSUME NEW w \in Workers, SendAnswered(w)
      PROVE  LocalsTyped' /\ OthersTyped'
  <2>1. batch[w] \in SUBSET Rows
    BY DEF LocalsTyped
  <2>2. \A F : Named(w, F) \in SUBSET Rows
    BY <2>1 DEF Named
  <2>3. PICK good \in SUBSET Rows, bad \in SUBSET Rows : Decide(w, good, bad)
    BY <1>5, <2>1, <2>2 DEF SendAnswered
  <2>4. UNCHANGED <<job, batch, attempt, result, before>>
    BY <1>5 DEF SendAnswered
  <2>5. LocalsTyped'
    BY <2>3, <2>4, DecideType
  <2>6. OthersTyped'
    BY <1>5, <2>1, <2>2 DEF SendAnswered, Store, OthersTyped
  <2> QED
    BY <2>5, <2>6
<1>6. ASSUME NEW w \in Workers, SendFailed(w)
      PROVE  LocalsTyped' /\ OthersTyped'
  <2>1. batch[w] \in SUBSET Rows
    BY DEF LocalsTyped
  <2>2. attempt[w] + 1 \in 0 .. RetryAttempts
    BY <1>6, ConstantsAssumption
    DEF SendFailed, LocalsTyped, ConstantsAssumption
  <2>3. LocalsTyped'
    BY <1>6, <2>2, ExceptType DEF SendFailed, LocalsTyped
  <2>4. OthersTyped'
    BY <1>6, <2>1 DEF SendFailed, Store, OthersTyped
  <2> QED
    BY <2>3, <2>4
<1>7. ASSUME NEW w \in Workers, BackoffCancelled(w)
      PROVE  LocalsTyped' /\ OthersTyped'
  BY <1>7, ReturnType DEF BackoffCancelled, db, OthersTyped
<1>8. ASSUME NEW w \in Workers, RetriesExhausted(w)
      PROVE  LocalsTyped' /\ OthersTyped'
  <2>1. batch[w] \in SUBSET Rows /\ {} \in SUBSET Rows
    BY DEF LocalsTyped
  <2>2. LocalsTyped'
    BY <1>8, <2>1, DecideType DEF RetriesExhausted, history
  <2>3. OthersTyped'
    BY <1>8 DEF RetriesExhausted, db, history, OthersTyped
  <2> QED
    BY <2>2, <2>3
<1>9. ASSUME NEW w \in Workers, MarkSynced(w)
      PROVE  LocalsTyped' /\ OthersTyped'
  <2>1. LocalsTyped'
    <3>1. CASE Return(w, "error")
      BY <3>1, ReturnType
    <3>2. CASE EndBatch(w)
      BY <3>2, EndBatchType
    <3>3. CASE /\ pc' = [pc EXCEPT ![w] = "markFailed"]
               /\ UNCHANGED <<local, result, before>>
      BY <3>3 DEF local, LocalsTyped
    <3> QED
      BY <1>9, <3>1, <3>2, <3>3 DEF MarkSynced, UpdateFailed
  <2>2. OthersTyped'
    BY <1>9
    DEF MarkSynced, UpdateFailed, Updated, SetStatus, LocalsTyped, OthersTyped
  <2> QED
    BY <2>1, <2>2
<1>10. ASSUME NEW w \in Workers, MarkFailed(w)
       PROVE  LocalsTyped' /\ OthersTyped'
  <2>1. LocalsTyped'
    BY <1>10, ReturnType, EndBatchType DEF MarkFailed, UpdateFailed
  <2>2. OthersTyped'
    BY <1>10
    DEF MarkFailed, UpdateFailed, Updated, SetStatus, LocalsTyped, OthersTyped
  <2> QED
    BY <2>1, <2>2
<1>11. ASSUME NEW p \in Processes, Cancel(p)
       PROVE  LocalsTyped' /\ OthersTyped'
  BY <1>11 DEF Cancel, db, local, history, LocalsTyped, OthersTyped
<1>12. ASSUME NEW p \in Processes, Restart(p)
       PROVE  LocalsTyped' /\ OthersTyped'
  <2>1. 0 \in 0 .. RetryAttempts
    BY ConstantsAssumption DEF ConstantsAssumption
  <2>2. LocalsTyped'
    BY <1>12, <2>1 DEF Restart, LocalsTyped
  <2>3. \A L \in SUBSET Workers : UNION {batch[w] : w \in L} \subseteq Rows
    BY DEF LocalsTyped
  <2>4. doubtful' \subseteq Rows
    BY <1>12, <2>3 DEF Restart, OthersTyped
  <2>5. OthersTyped'
    BY <1>12, <2>4 DEF Restart, db, OthersTyped
  <2> QED
    BY <2>2, <2>5
<1>13. CASE UNCHANGED vars
  BY <1>13 DEF vars, LocalsTyped, OthersTyped
<1> QED
  BY <1>1, <1>2, <1>3, <1>4, <1>5, <1>6, <1>7, <1>8, <1>9, <1>10, <1>11,
     <1>12, <1>13 DEF Next, ProcessSyncJob

(* Every variable of the push keeps its type, for every value of the       *)
(* constants.                                                              *)
THEOREM TypeCorrect == Spec => []TypeOK
BY InitTypeOK, NextTypeOK, PTL DEF Spec

-----------------------------------------------------------------------------
\* No row has a verdict.
Unsettled == \A r \in Rows : staging[r] \in {"ABSENT", "READY"}

\* Only UpdateGradesStatus and InsertGrades write the table.
LEMMA UnsettledStep ==
  ASSUME "UpdateGradesStatus" \notin Accepted, Unsettled, [Next]_vars
  PROVE  Unsettled'
<1> USE DEF Unsettled
<1>1. ASSUME NEW S \in SUBSET Rows, InsertGrades(S) PROVE Unsettled'
  BY <1>1 DEF InsertGrades
<1>2. ASSUME NEW w \in Workers, ProcessSyncJob(w) PROVE UNCHANGED staging
  BY <1>2 DEF ProcessSyncJob, CheckPermission, GetReadyGrades, SendAnswered,
    SendFailed, BackoffCancelled, RetriesExhausted, MarkSynced, MarkFailed,
    UpdateFailed, Updated, db
<1>3. CASE UNCHANGED staging
  BY <1>3
<1> QED
  BY <1>1, <1>2, <1>3 DEF Next, Begin, Cancel, Restart, db, vars

(* On a database that does not execute the UPDATE of UpdateGradesStatus,   *)
(* written with $n and ANY (repository.go:103-104), no grade ever leaves   *)
(* READY, whatever the department has stored.                              *)
THEOREM NothingSettled ==
  ASSUME "UpdateGradesStatus" \notin Accepted
  PROVE  Spec => [](\A r \in Rows : staging[r] \in {"ABSENT", "READY"})
<1>1. Init => Unsettled
  BY DEF Init, Unsettled
<1>2. Unsettled /\ [Next]_vars => Unsettled'
  BY UnsettledStep
<1> QED
  BY <1>1, <1>2, PTL DEF Spec, Unsettled
=============================================================================
