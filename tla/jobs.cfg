SPECIFICATION FairSpec
CONSTANTS
  Plan <- TwoRuns
  NameLimit = 7
  Ends <- SomeEnds
  MaxStarted = 2
  MaxFaults = 1
  MayCrash = TRUE
INVARIANTS
  StepsDoNotMix
  PassedIsEarned
  NothingLeftBehind
PROPERTY JobsGoAway
CHECK_DEADLOCK FALSE
