\* The two partitions of a topic fill batches of three, which may fail.
CONSTANTS
  Partition = {p1, p2}
  s1 = s1
  Service = {s1}
  ServiceOf <- OneTopic
  Unusable = Unusable
  Free = Free
  BatchSize = 3
  MaxOffset = 2
  MaxCallbacks = 2
  MaxTrouble = 1
SPECIFICATION Spec
SYMMETRY Symmetry
CHECK_DEADLOCK FALSE
INVARIANTS
  TypeOK
  CommittedIsKept
  FlushIsScheduled
  FullExactlyWhenStuck
PROPERTY
  ImplementsLedger
