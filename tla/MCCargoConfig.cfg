SPECIFICATION Spec
CONSTANTS
  UserLines <- SomeLines
  Durations <- SomeDurations
  ExcludeLists <- SomeLists
  MaxLines = 4
INVARIANTS CargoLoads ReaderAgrees WriteIsReadBack WriteIsIdempotent
PROPERTIES UserLinesKept
CHECK_DEADLOCK FALSE
