\* One process and a fourth snapshot: a restore, a new branch, a compaction.
SPECIFICATION Spec
CONSTANTS
  Actors = {1}
  Contents = {"x"}
  MaxSnapshots = 4
  MaxCommits = 0
  MaxCrashes = 0
  None = None
INVARIANT BranchesSurvive
CHECK_DEADLOCK FALSE
