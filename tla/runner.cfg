SPECIFICATION FairSpec
CONSTANTS
  Pipelines <- MCPipelines
  Reported <- ClaimedStatuses
  Push = TRUE
  MaxFaults = 2
  MayCrash = TRUE
INVARIANTS
  TypeOK
  VerdictMatchesRows
  UploadedResultWins
  HistoryMatchesRun
  SummaryCountsEvidence
PROPERTIES
  VerdictStands
  RunningRunFinishes
CHECK_DEADLOCK FALSE
