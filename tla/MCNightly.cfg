SPECIFICATION FairSpec
CONSTANTS
  Slots = {s1, s2}
  ScanBeside = TRUE
  Day = 2
  Duration = 1
  Threshold = 2
INVARIANTS TypeOK VerdictIsRecent NoSilentRow DivergenceSurvives NotClearedEarly
PROPERTIES WithdrawnIsFlagged
CHECK_DEADLOCK FALSE
