SPECIFICATION FairSpec
CONSTANTS
  None = None
  a = a
  b = b
  c = c
  Worker = {a, b, c}
  Plan <- Chains
  Request = {r1}
  Lap = {l1}
  MaxAssign = 2
  Faults <- AllFaults
CHECK_DEADLOCK FALSE
INVARIANTS
  TypeOK
  AnsweredOnce
  LapProvesChain
  FullPass
PROPERTY RequestsEnd
