SPECIFICATION Spec
CONSTANTS
  w1 = w1
  w2 = w2
  p1 = p1
  p2 = p2
  Files = {"good", "gap", "twice", "shorts", "damaged", "bare", "lacking", "text", "range", "nan"}
  Workers = {w1, w2}
  Processes = {p1, p2}
  ProcOf <- MCProcOf
  Content <- MCContent
  MaxTries = 2
INVARIANTS
  TypeOK
  StagedIsWhole
  ParsedFileHasRows
  VerdictMatchesWorkbook
PROPERTIES
  FileJobEnds
