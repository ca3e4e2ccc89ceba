\* One caller and calls in turn; the new head replaces a layer and moves another.
SPECIFICATION BytesSpec
CONSTANTS
  Ids = {b1}
  Values = {v1}
  None = None
  MaxPending = 1
  Callers = {c1}
  Manifests <- Rebuilt
  Eager = {}
  Alone = {"pull", "dehydrate"}
INVARIANT ViewHoldsOwnLayers
CHECK_DEADLOCK FALSE
