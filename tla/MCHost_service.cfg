SPECIFICATION Spec
CONSTANTS
  None = None
  Torn = Torn
  p1 = p1
  p2 = p2
  a = a
  b = b
  u = u
  v = v
  Process = {p1, p2}
  User = {u, v}
  Address = {a, b}
  MaxAttempts = 2
  Network <- network
  Given <- given
  MaxDoubts = 1

INVARIANT ServiceRunsCommand
