\* Two tabs of one user, whose projects come and go.
CONSTANTS
  t1 = t1
  t2 = t2
  t3 = t3
  u1 = u1
  u2 = u2
  User = {u1}
  Tab = {t1, t2}
  Owner <- SameUser
  Project = {p, q}
  None = None
  Capacity = 1
  ProjectCapacity = 1
  MaxClients = 2
  MaxTimers = 1
  MaxSent = 2
SPECIFICATION FairSpec
CHECK_DEADLOCK FALSE
INVARIANT
  ChannelIsFaithful
PROPERTY
  GoroutinesEnd
