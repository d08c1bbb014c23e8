SPECIFICATION Spec
CONSTANTS
  KeepRuns = 3
  Threshold = 2
  Base = 1
  Cap = 2
  Window = 3
  NoTime = none
  MaxRuns = 5
  MaxTime = 8
CHECK_DEADLOCK FALSE
INVARIANTS
  TypeOK
  StreakCounts
