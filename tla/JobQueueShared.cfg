SPECIFICATION Spec
CONSTANTS
  m1 = m1
  m2 = m2
  m3 = m3
  bad = bad
  p1 = p1
  p2 = p2
  None = None
  Msgs = {m1, m2, bad}
  Malformed = {bad}
  Processes = {p1, p2}
  Count = 2
SYMMETRY MCSymmetry
INVARIANTS
  StartedOnce
  Accounted
PROPERTY ImplementsDelivery
