SPECIFICATION FairSpec
CONSTANTS
  MinDelay = 5
  MaxDelay = 300
  MaxConnects = 2
  MaxRefused = 8
  MaxPieces = 4
CHECK_DEADLOCK FALSE
INVARIANTS
  TypeOK
  LinesIntact
  BackoffGrows
PROPERTY WholeLinesTaken
