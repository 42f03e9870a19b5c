SPECIFICATION Spec
CONSTANTS
  None = None
  t1 = t1
  t2 = t2
  t3 = t3
  h = h
  n1 = n1
  f1 = f1
  Hop = {h}
  Name = {n1}
  File = {f1}
  Task = {t1, t2, t3}
  Responses <- OneModel
  Entries <- NoEntries
  Faults <- NoFaults
SYMMETRY Sym
INVARIANT SettledReady
