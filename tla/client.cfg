SPECIFICATION FairSpec
CONSTANTS
  Task = task
  Environments <- EnvironmentsDef
  Timeout = 3
  Poll = 1
  HttpTimeout = 1
  MaxParts = 1
  MaxNow = 12
CHECK_DEADLOCK FALSE
INVARIANTS
  ReportsTruth
  WaitBounded
  TimelyIsReported
  CancelTold
  RefusedByRight
PROPERTY RunEnds
