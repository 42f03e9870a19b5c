SPECIFICATION FairSpec
CONSTANTS
  None = None
  c1 = c1
  c2 = c2
  c3 = c3
  Conn = {c1, c2}
  ConnId = {1}
  Capacity = 1
  MaxSession = 1
  Talkers <- OneAndPing
  MaxData = 2
PROPERTIES
  DispatcherReturns
  OrphansEnd
  SentArrivesOrEnds
