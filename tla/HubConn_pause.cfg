SPECIFICATION Spec
CONSTANTS
  MinDelay = 5
  MaxDelay = 300
  MaxConnects = 2
  MaxRefused = 1
  MaxPieces = 2
CHECK_DEADLOCK FALSE
PROPERTY PausesAfterClose
