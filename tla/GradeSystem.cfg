SPECIFICATION SysSpec
CONSTANTS
  r1 = r1
  r2 = r2
  s1 = s1
  s2 = s2
  w1 = w1
  w2 = w2
  p1 = p1
  p2 = p2
  f1 = f1
  t1 = t1
  t2 = t2
  j1 = j1
  Rows = {r1, r2}
  Students = {s1, s2}
  Jobs = {j1}
  Workers = {w1, w2}
  Processes = {p1, p2}
  StudentOf <- MCStudentOf
  Target <- MCTarget
  ProcOf <- MCProcOf
  BatchSize = 2
  RetryAttempts = 1
  Accepted = {"GetReadyGrades", "UpdateGradesStatus"}
  RejectsWholeBatch = FALSE
  Files = {f1}
  FileOf <- MCFileOf
  Requests = {t1, t2}
  FileAsked <- MCFileAsked
  JobOf <- MCJobOf
  Answers <- MCAnswers
  Now = 2
  MaxMessages = 2
SYMMETRY MCSymmetry
INVARIANTS
  SysTypeOK
  TouchedWasCleared
  OverlapHasCause
  AllSyncedIsHeld
  SyncedIsStored
  FailedStoredHasCause
  ResentHasCause
PROPERTIES
  VerdictIsFinal
  ImplementsLifecycle
