SPECIFICATION Spec
CONSTANTS
  Pkgs <- OneTampered
  Truth <- OneTamperedTruth
  Files <- SomeFiles
  Concurrency = 1
  AllowRules <- NoRules
  Excluded <- NoPins
  RunOptions <- PlainRuns
  FailOn = "high"
  RegistryStates <- Removable
  Ages <- Old
  MaxCrashes = 0
INVARIANTS NewFindingMeetsGate
