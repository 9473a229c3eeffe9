SPECIFICATION FairSpec
CONSTANTS
  Projects    = {shop, blog}
  MaxAttempts = 1
  BatchSize   = 1
  MaxShown    = 2
  NoId        = NoId
  MaxMoves    = 2
  MaxFaults   = 1
  MaxMessages = 2
INVARIANTS
  TypeOK
  NoLeakedSource
  OneSetupAtATime
  BufferDrains
  
  ConnectedIsTrue
PROPERTIES
  Reconnects
CHECK_DEADLOCK FALSE
