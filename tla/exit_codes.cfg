SPECIFICATION Spec
CONSTANTS
  Plan <- OneStep
  NameLimit = 7
  Ends <- Silent
  MaxStarted = 1
  MaxFaults = 0
  MayCrash = FALSE
INVARIANT DocumentedExitCodes
CHECK_DEADLOCK FALSE
