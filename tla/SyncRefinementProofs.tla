------------------------ MODULE SyncRefinementProofs ------------------------
(***************************************************************************)
(* SyncService implements GradeLifecycle, for every table, every set of    *)
(* jobs and workers, every batch size and every number of retries, if the  *)
(* department stores every row it does not name as failed. Seen from one   *)
(* row, every step of a worker is a step of the abstract grade or leaves   *)
(* it alone; what the row's holder knows of it is in IInv and StoredInv.   *)
(***************************************************************************)
EXTENDS SyncSafetyProofs

\* The invariants a step is mapped under. A row was received again only if
\* it was stored: with it a row that is only now staged was never sent.
RefInv ==
  /\ IInv
  /\ StoredInv
  /\ resent \subseteq stored

\* One row takes a step of the abstract grade.
GradeStep(r) ==
  \/ Lifecycle!Same(r)
  \/ Lifecycle!Stage(r)
  \/ Lifecycle!Submit(r)
  \/ Lifecycle!Settle(r)
  \/ Lifecycle!Stray(r)

-----------------------------------------------------------------------------
\* The steps of three kinds of actions change what the abstraction sees: rows
\* are staged, rows of a batch are received, rows of a batch are marked.
LEMMA VisibleSteps ==
  ASSUME TypeOK, LocalsInv, [Next]_vars
  PROVE  \/ \E S \in SUBSET Rows : InsertGrades(S)
         \/ \E w \in Workers, S \in SUBSET Rows :
              /\ pc[w] = "send" /\ S \subseteq batch[w]
              /\ Store(S)
              /\ UNCHANGED staging
         \/ \E w \in Workers : MarkSynced(w) \/ MarkFailed(w)
         \/ UNCHANGED <<staging, stored, resent>>
<1> USE DEF TypeOK
<1>1. ASSUME NEW w \in Workers, SendAnswered(w)
      PROVE  \E S \in SUBSET Rows :
               /\ pc[w] = "send" /\ S \subseteq batch[w]
               /\ Store(S)
               /\ UNCHANGED staging
  <2>1. \A F : Named(w, F) \subseteq batch[w]
    BY DEF Named
  <2>2. PICK S : S \subseteq batch[w] /\ Store(S)
    BY <1>1, <2>1 DEF SendAnswered
  <2> QED
    BY <1>1, <2>2 DEF SendAnswered
<1>2. ASSUME NEW w \in Workers, SendFailed(w)
      PROVE  \E S \in SUBSET Rows :
               /\ pc[w] = "send" /\ S \subseteq batch[w]
               /\ Store(S)
               /\ UNCHANGED staging
  BY <1>2 DEF SendFailed
<1>3. ASSUME NEW w \in Workers,
             \/ CheckPermission(w) \/ GetReadyGrades(w)
             \/ BackoffCancelled(w) \/ RetriesExhausted(w)
      PROVE  UNCHANGED <<staging, stored, resent>>
  BY <1>3 DEF CheckPermission, GetReadyGrades, BackoffCancelled,
              RetriesExhausted, db, history
<1>4. ASSUME NEW w \in Workers, NEW j \in Jobs, Begin(w, j)
      PROVE  UNCHANGED <<staging, stored, resent>>
  BY <1>4 DEF Begin, db
<1>5. ASSUME NEW p \in Processes, Cancel(p) \/ Restart(p)
      PROVE  UNCHANGED <<staging, stored, resent>>
  BY <1>5 DEF Cancel, Restart, db, history
<1>6. CASE UNCHANGED vars
  BY <1>6 DEF vars
<1> QED
  BY <1>1, <1>2, <1>3, <1>4, <1>5, <1>6 DEF Next, ProcessSyncJob

\* Nothing is ever taken back from the department or from the excuses.
LEMMA Monotone ==
  ASSUME TypeOK, LocalsInv, [Next]_vars
  PROVE  /\ stored \subseteq stored' /\ resent \subseteq resent'
         /\ shared \subseteq shared' /\ doubtful \subseteq doubtful'
<1>1. stored \subseteq stored' /\ resent \subseteq resent'
  BY VisibleSteps DEF InsertGrades, history, Store, MarkSynced, MarkFailed
<1>2. ASSUME NEW w \in Workers, ProcessSyncJob(w)
      PROVE  shared \subseteq shared' /\ doubtful \subseteq doubtful'
  BY <1>2 DEF ProcessSyncJob, CheckPermission, GetReadyGrades, SendAnswered,
    SendFailed, BackoffCancelled, RetriesExhausted, MarkSynced, MarkFailed,
    UpdateFailed, Updated, history
<1>3. ASSUME NEW p \in Processes, Cancel(p) \/ Restart(p)
      PROVE  shared \subseteq shared' /\ doubtful \subseteq doubtful'
  BY <1>3 DEF Cancel, Restart, history
<1>4. ASSUME \/ \E S \in SUBSET Rows : InsertGrades(S)
             \/ \E w \in Workers, j \in Jobs : Begin(w, j)
             \/ UNCHANGED vars
      PROVE  shared \subseteq shared' /\ doubtful \subseteq doubtful'
  BY <1>4 DEF InsertGrades, Begin, history, vars
<1>5. shared \subseteq shared' /\ doubtful \subseteq doubtful'
  BY <1>2, <1>3, <1>4 DEF Next
<1> QED
  BY <1>1, <1>5

LEMMA RefInvStep ==
  ASSUME ~RejectsWholeBatch, RefInv, [Next]_vars
  PROVE  RefInv'
<1>1. IInv'
  BY NextIInv DEF RefInv
<1>2. StoredInv'
  BY StoredInvStep DEF RefInv, IInv
<1>3. resent' \subseteq stored'
  BY VisibleSteps
  DEF RefInv, IInv, InsertGrades, history, Store, MarkSynced, MarkFailed
<1> QED
  BY <1>1, <1>2, <1>3 DEF RefInv

-----------------------------------------------------------------------------
(* One lemma per kind of visible step.                                     *)

LEMMA StagedStep ==
  ASSUME RefInv, NEW S \in SUBSET Rows, InsertGrades(S), NEW r \in Rows
  PROVE  GradeStep(r)
<1>1. CASE r \in S
  <2>1. staging[r] = "ABSENT" /\ staging'[r] = "READY"
    BY <1>1 DEF InsertGrades
  <2>2. r \notin stored' /\ r \notin resent'
    BY <2>1 DEF InsertGrades, history, RefInv, IInv, PresentInv
  <2> QED
    BY <2>1, <2>2 DEF GradeStep, Lifecycle!Stage
<1>2. CASE r \notin S
  BY <1>2 DEF InsertGrades, history, GradeStep, Lifecycle!Same
<1> QED
  BY <1>1, <1>2

LEMMA ReceivedStep ==
  ASSUME RefInv, [Next]_vars, NEW w \in Workers, NEW S \in SUBSET Rows,
         pc[w] = "send", S \subseteq batch[w], Store(S), UNCHANGED staging,
         NEW r \in Rows
  PROVE  GradeStep(r)
<1>1. CASE r \notin S
  BY <1>1 DEF Store, GradeStep, Lifecycle!Same
<1>2. CASE r \in S /\ r \in shared \cup doubtful
  <2>1. staging[r] # "ABSENT" /\ staging[r] \in Statuses /\ r \in stored'
    BY <1>2 DEF RefInv, IInv, PresentInv, TypeOK, Store
  <2>2. r \in (shared \cup doubtful)'
    BY <1>2, Monotone DEF RefInv, IInv
  <2> QED
    BY <2>1, <2>2 DEF GradeStep, Lifecycle!Stray, Lifecycle!Settled, Statuses
<1>3. CASE r \in S /\ r \notin shared \cup doubtful
  <2>1. r \notin stored /\ r \notin resent
    BY <1>3 DEF RefInv, IInv, HeldStoredInv, ResentHasCause, Cause
  <2>2. staging[r] = "READY"
    BY <1>3 DEF RefInv, IInv, TypeOK, PresentInv, SettledInv, Verdicts, Statuses
  <2> QED
    BY <1>3, <2>1, <2>2 DEF Store, GradeStep, Lifecycle!Submit
<1> QED
  BY <1>1, <1>2, <1>3

LEMMA MarkedStep ==
  ASSUME RefInv, [Next]_vars, NEW w \in Workers,
         MarkSynced(w) \/ MarkFailed(w), NEW r \in Rows
  PROVE  GradeStep(r)
<1> USE DEF RefInv, IInv
<1>1. UNCHANGED <<stored, resent>>
  BY DEF MarkSynced, MarkFailed
<1>2. CASE staging'[r] = staging[r]
  BY <1>1, <1>2 DEF GradeStep, Lifecycle!Same
<1>3. CASE staging'[r] # staging[r]
  <2>1. \/ r \in successIDs[w] /\ staging'[r] = "SYNCED" /\ pc[w] = "markSynced"
        \/ r \in failedIDs[w] /\ staging'[r] = "FAILED"
    BY <1>3
    DEF MarkSynced, MarkFailed, UpdateFailed, Updated, SetStatus, TypeOK
  <2>2. r \in batch[w] /\ staging[r] # "ABSENT"
    BY <2>1 DEF LocalsInv, PresentInv, TypeOK
  <2>3. staging'[r] = "SYNCED" => r \in stored
    BY <2>1 DEF StoredInv
  <2>4. CASE r \in shared \cup doubtful
    BY <1>1, <2>1, <2>2, <2>3, <2>4, Monotone
    DEF GradeStep, Lifecycle!Stray, Lifecycle!Settled
  <2>5. CASE r \notin shared \cup doubtful
    <3>1. staging[r] = "READY"
      BY <2>1, <2>2, <2>5
      DEF SettledInv, LocalsInv, TypeOK, Verdicts, Statuses
    <3>2. staging'[r] = IF r \in stored THEN "SYNCED" ELSE "FAILED"
      BY <2>1, <2>3, <2>5 DEF HeldStoredInv, Cause
    <3>3. r \notin resent'
      BY <1>1, <2>5 DEF ResentHasCause
    <3> QED
      BY <1>1, <3>1, <3>2, <3>3 DEF GradeStep, Lifecycle!Settle
  <2> QED
    BY <2>4, <2>5
<1> QED
  BY <1>2, <1>3

LEMMA LifecycleStep ==
  ASSUME ~RejectsWholeBatch, RefInv, [Next]_vars
  PROVE  Lifecycle!Next
<1>1. \A r \in Rows : GradeStep(r)
  <2> SUFFICES ASSUME NEW r \in Rows PROVE GradeStep(r)
    OBVIOUS
  <2>1. CASE UNCHANGED <<staging, stored, resent>>
    BY <2>1 DEF GradeStep, Lifecycle!Same
  <2> QED
    BY <2>1, VisibleSteps, StagedStep, ReceivedStep, MarkedStep
    DEF RefInv, IInv
<1>2. /\ stored \subseteq stored' /\ resent \subseteq resent'
      /\ shared \cup doubtful \subseteq (shared \cup doubtful)'
  BY Monotone DEF RefInv, IInv
<1>3. staging' \in [Rows -> {"ABSENT", "READY"} \cup Lifecycle!Settled]
  BY NextTypeOK DEF RefInv, IInv, TypeOK, Lifecycle!Settled, Statuses
<1> QED
  BY <1>1, <1>2, <1>3 DEF GradeStep, Lifecycle!Next

(* The push of grades keeps the promise of GradeLifecycle: a grade goes    *)
(* from READY to the department and on to SYNCED, or from READY to FAILED, *)
(* once, unless two jobs had it in hand or an answer about it was lost.    *)
THEOREM Refinement ==
  ASSUME ~RejectsWholeBatch
  PROVE  Spec => ImplementsLifecycle
<1>1. Init => RefInv
  BY InitIInv DEF Init, RefInv, StoredInv, SyncedIsStored
<1>2. RefInv /\ [Next]_vars => RefInv'
  BY RefInvStep
<1>3. Init => Lifecycle!Init
  BY DEF Init, Lifecycle!Init
<1>4. RefInv /\ [Next]_vars => [Lifecycle!Next]_(Lifecycle!vars)
  BY LifecycleStep
<1> QED
  BY <1>1, <1>2, <1>3, <1>4, PTL
  DEF Spec, ImplementsLifecycle, Lifecycle!Spec
=============================================================================
