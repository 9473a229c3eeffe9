\* One partition and a batch of three, whose timer can fire while a flush waits.
CONSTANTS
  Partition = {p1}
  s1 = s1
  Service = {s1}
  ServiceOf <- OneTopic
  Unusable = Unusable
  Free = Free
  BatchSize = 3
  MaxOffset = 3
  MaxCallbacks = 2
  MaxTrouble = 2
SPECIFICATION FairSpec
CHECK_DEADLOCK FALSE
PROPERTIES
  BufferedIsStored
  SessionsEnd
