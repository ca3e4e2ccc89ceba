\* Two concurrent calls; two leases, so that the one held and the one
\* under way can differ.
SPECIFICATION Spec
CONSTANTS
  Calls = {c1, c2}
  Leases = {l1, l2}
  Pairs = {d1, d2}
  None = None
  Read = Read
  MaxIo = 1
  KvFails = TRUE
  FirstUse = TRUE
  PrincipalYields = FALSE
SYMMETRY Symmetry
INVARIANT LeaseStaysDown
