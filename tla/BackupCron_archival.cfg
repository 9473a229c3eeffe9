SPECIFICATION Spec
CONSTANTS
  Projects   <- MCProjects
  ValidNames <- MCProjects
  Created    <- MCCreated
  Retention  <- MCRetention
  Documents  <- MCDocuments
  Findable   = {}
  Iterable   = FALSE
  LastMonth  = 3
  MaxFaults  = 0
INVARIANTS
  QualifyingDataIsMoved
CHECK_DEADLOCK FALSE
