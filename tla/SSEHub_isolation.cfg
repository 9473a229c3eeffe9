\* Two tabs of one user ask for two projects at the same time.
CONSTANTS
  t1 = t1
  t2 = t2
  t3 = t3
  u1 = u1
  u2 = u2
  u2 = u2
  User = {u1}
  Tab = {t1, t2}
  Owner <- SameUser
  Project = {p, q}
  None = None
  Capacity = 1
  ProjectCapacity = 1
  MaxClients = 2
  MaxTimers = 2
  MaxSent = 1
SPECIFICATION Spec
CHECK_DEADLOCK FALSE
INVARIANT
  TabShowsItsProject
