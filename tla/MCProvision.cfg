SPECIFICATION FairSpec
CONSTANTS
  l1 = l1
  l2 = l2
  Lib <- MCLib
  Archive <- MCArchive
  Links <- MCLinks
  LibOrder <- MCLibOrder
  Release = {r1, r2}
  Torn = Torn
  None = None
CHECK_DEADLOCK TRUE
INVARIANTS TypeOK AcceptsMatching
PROPERTY Recovers
