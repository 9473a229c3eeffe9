\* Two tabs of one user and one of another come, go and change project.
CONSTANTS
  t1 = t1
  t2 = t2
  t3 = t3
  u1 = u1
  u2 = u2
  User = {u1, u2}
  Tab = {t1, t2, t3}
  Owner <- TwoUsers
  Project = {p, q}
  None = None
  Capacity = 1
  ProjectCapacity = 1
  MaxClients = 3
  MaxTimers = 2
  MaxSent = 1
SPECIFICATION Spec
CHECK_DEADLOCK FALSE
INVARIANTS
  TypeOK
  MapsAgree
  OneFanOut
  NoClientLeaks
  NoOrphanStream
SYMMETRY Symmetry
VIEW WithoutHistories
