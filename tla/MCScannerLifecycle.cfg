SPECIFICATION FairSpec
CONSTANTS
  Pkgs <- OneTampered
  Truth <- OneTamperedTruth
  Files <- SomeFiles
  Concurrency = 1
  AllowRules <- GeneratedFileRule
  Excluded <- NoPins
  RunOptions <- CheckedRuns
  FailOn = "medium"
  RegistryStates <- AnyState
  Ages <- AnyAge
  MaxCrashes = 1
PROPERTIES ImplementsLedger RunsEnd EveryPinRecorded RemovalEventuallyFlagged AgedPinCleared
