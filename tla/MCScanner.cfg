SPECIFICATION Spec
CONSTANTS
  Pkgs <- TwoPins
  Truth <- TwoPinsTruth
  Files <- SomeFiles
  Concurrency = 2
  AllowRules <- GeneratedFileRule
  Excluded <- NoPins
  RunOptions <- MixedRuns
  FailOn = "medium"
  RegistryStates <- Removable
  Ages <- AnyAge
  MaxCrashes = 0
INVARIANTS TypeOK RemovalWasSeen VerdictsAreSound NoAlertLost
PROPERTIES DivergenceCarried LimitStopsNewLanes
