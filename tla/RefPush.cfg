\* Two pods on one ref, ref puts one after another; a failed transfer, a
\* deletion, a re-open, a merge and a restart fit into four manifests; Scenes
\* keeps re-opens and restarts apart from edits at two times.
SPECIFICATION Spec
CONSTANTS
  Paths = {x}
  Actors = {1, 2}
  Refs = {r}
  Basis <- OneRef
  None = None
  Torn = Torn
  MaxClock = 2
  MaxHeads = 4
  MaxCrashes = 1
  Deletes = TRUE
  Reopens = TRUE
  NetFails = TRUE
  Overlap = FALSE
CONSTRAINT Scenes
INVARIANTS HistoryKept  NewestWins DeletionsHold
\* Users may stop editing and pushing.
CHECK_DEADLOCK FALSE
