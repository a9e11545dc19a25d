SPECIFICATION Spec
CONSTANTS
  Locks <- RenameLocks
  OnCratesIo <- SomeCrates
  Clean <- CleanCrates
  Untagged <- UntaggedCrates
  MaxRuns = 1
INVARIANTS OnlyCratesIoLookedUp
CHECK_DEADLOCK FALSE
