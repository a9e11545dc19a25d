SPECIFICATION Spec
CONSTANTS
  Files <- Everything
  Pins <- Tagged
  Hosted <- SomeHost
  Crate <- TaggedCrate
  MaxPages = 2
  Faults <- Refusals
INVARIANTS NoFalseAbsence
CHECK_DEADLOCK FALSE
