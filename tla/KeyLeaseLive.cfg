\* Liveness, without symmetry.
SPECIFICATION FairSpec
CONSTANTS
  Calls = {c1, c2}
  Leases = {l1}
  Pairs = {d1}
  None = None
  Read = Read
  MaxIo = 0
  KvFails = FALSE
  FirstUse = FALSE
  PrincipalYields = TRUE
PROPERTIES ExpiredLocks SuspendDrains
