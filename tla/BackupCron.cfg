SPECIFICATION Spec
CONSTANTS
  Projects   <- MCProjects
  ValidNames <- MCProjects
  Created    <- MCCreated
  Retention  <- MCRetention
  Documents  <- MCDocuments
  Findable   = {"logs", "metrics"}
  Iterable   = TRUE
  LastMonth  = 3
  MaxFaults  = 2
INVARIANTS
  TypeOK
  OneMonthPerFile
PROPERTIES
  LogsStayArchived
CHECK_DEADLOCK FALSE
