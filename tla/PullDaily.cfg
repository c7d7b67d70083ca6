SPECIFICATION Spec
CONSTANTS
  a = a
  b = b
  empty = empty
  Kinds = 2
  Ids = {1, 2}
  Keys = {a, b, empty}
  Rosters <- MCRosters
  RunOnStart = TRUE
  EndTick = 1
  LastTick = 2
  LastDay = 2
INVARIANTS
  TypeOK
  MirrorsAnswer
  NoDayMissed
PROPERTIES
  RowsAreKept
  ServedOnce
  PullEnds
