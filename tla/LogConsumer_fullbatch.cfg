\* One partition fills a batch of two.
CONSTANTS
  Partition = {p1}
  s1 = s1
  Service = {s1}
  ServiceOf <- OneTopic
  Unusable = Unusable
  Free = Free
  BatchSize = 2
  MaxOffset = 2
  MaxCallbacks = 1
  MaxTrouble = 0
SPECIFICATION FairSpec
CHECK_DEADLOCK FALSE
PROPERTY
  FullBatchIsFlushed
