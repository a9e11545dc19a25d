SPECIFICATION FairRequests
CONSTANTS
  length = 5
  limit = 2
  Throws = TRUE
  tries = 4
  Waits <- SomeWaits
INVARIANTS RequestsTypeOK ResultsInOrder NeverTwice NeverStalls
PROPERTIES ImplementsTaskBag ImplementsFairPool PoolSettles
CHECK_DEADLOCK FALSE
