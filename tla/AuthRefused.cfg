SPECIFICATION Spec
CONSTANTS
  c1 = c1
  c2 = c2
  None = None
  Callers = {c1, c2}
  Margin = 2
  LoginTimeout = 2
  Lifetimes = {1, 4}
  MaxTime = 6
  MaxLogins = 2
PROPERTIES
  RefusedTokenIsRefreshed
