SPECIFICATION Spec
CONSTANTS
  Locks <- SomeLocks
  OnCratesIo <- SomeCrates
  Clean <- CleanCrates
  Untagged <- UntaggedCrates
  MaxRuns = 2
INVARIANTS TypeOK PureAdditionExact FlaggedNeverPassed RegistriesKeptApart
CHECK_DEADLOCK FALSE
