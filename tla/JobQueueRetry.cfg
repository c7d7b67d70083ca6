SPECIFICATION Spec
CONSTANTS
  m1 = m1
  m2 = m2
  m3 = m3
  bad = bad
  p1 = p1
  p2 = p2
  None = None
  Msgs = {m1}
  Malformed = {}
  Processes = {p1}
  Count = 1
PROPERTIES
  FailedIsRetried
