SPECIFICATION FairSpec
CONSTANTS
  MaxLogs     = 2
  MaxSamples  = 2
  MaxFailures = 2
  None        = None
INVARIANTS
  TypeOK
  MetricsAlive
  CleanCloseIsFinal
PROPERTIES
  LogsDelivered
  MetricsRecover
CHECK_DEADLOCK FALSE
