SPECIFICATION FairSpec
CONSTANTS
  None = None
  t1 = t1
  t2 = t2
  t3 = t3
  h = h
  n1 = n1
  f1 = f1
  Hop = {h}
  Name = {n1}
  File = {f1}
  Task = {t1, t2}
  Responses <- OneModel
  Entries <- Ends
  Faults <- BrokenModel
PROPERTIES
  EverySetupEnds
  LoopReturns
  SetupLeadsToReady
