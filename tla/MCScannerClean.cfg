SPECIFICATION Spec
CONSTANTS
  Pkgs <- OnePin
  Truth <- OnePinTruth
  Files <- SomeFiles
  Concurrency = 1
  AllowRules <- NoRules
  Excluded <- NoPins
  RunOptions <- GatedRuns
  FailOn = "medium"
  RegistryStates <- Live
  Ages <- YoungOrOld
  MaxCrashes = 0
INVARIANTS CleanMeansCompared
