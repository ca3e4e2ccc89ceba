\* One of everything, two mounts: sessions that are opened, used, recovered,
\* closed, reset and opened again.
CONSTANTS
  Callers = {c1}
  Ops = {o1}
  Handles = {h1}
  Consumers = {k1}
  MaxMounts = 2
  Fallback = TRUE
  TeardownFails = TRUE
  LockedRecover = FALSE
SPECIFICATION FairSpec
INVARIANTS NoWorkOnReleasedVault
PROPERTIES LateFailureIgnored JobsSettle
