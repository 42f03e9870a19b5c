SPECIFICATION Spec
CONSTANTS
  None = None
  c1 = c1
  c2 = c2
  c3 = c3
  Conn = {c1, c2}
  ConnId = {1}
  Capacity = 1
  MaxSession = 2
  Talkers <- Everyone
  MaxData = 3
SYMMETRY Sym
INVARIANTS
  TypeOK
  FramesIntact
PROPERTY ImplementsPipes
