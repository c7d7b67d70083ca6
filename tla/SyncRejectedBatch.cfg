SPECIFICATION Spec
CONSTANTS
  r1 = r1
  r2 = r2
  r3 = r3
  s1 = s1
  s2 = s2
  w1 = w1
  w2 = w2
  p1 = p1
  p2 = p2
  Rows = {r2, r3}
  Students = {s1, s2}
  Jobs = {j1}
  Workers = {w1}
  Processes = {p1}
  StudentOf <- MCStudentOf
  Target <- MCTarget
  ProcOf <- MCProcOf
  BatchSize = 2
  RetryAttempts = 1
  Accepted = {"GetReadyGrades", "UpdateGradesStatus"}
  RejectsWholeBatch = TRUE
INVARIANTS
  SyncedIsStored
