\* Two blocks, up to two writes in the chain: one in flight and one behind it;
\* two callers, and a second version of the ref that appends an eager layer.
SPECIFICATION FairBytesSpec
CONSTANTS
  Ids = {b1, b2}
  Values = {v1}
  None = None
  MaxPending = 2
  Callers = {c1, c2}
  Manifests <- Appended
  Eager = {"B"}
  Alone = {"dehydrate"}
INVARIANTS PersistedInOrder FlushMeansSaved LayersHeld
PROPERTIES NoGap 
\* Nobody has to mount or read anything.
CHECK_DEADLOCK FALSE
