SPECIFICATION FairSpec
CONSTANTS
  Files <- Everything
  Pins <- SomePins
  Hosted <- SomeHost
  Crate <- SomeCrates
  MaxPages = 2
  Faults <- AllFaults
INVARIANTS TypeOK StrongestAnchor AbsencesAreReal
PROPERTIES LookupsEnd
CHECK_DEADLOCK FALSE
