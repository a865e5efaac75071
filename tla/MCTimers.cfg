SPECIFICATION TimersSpec
CONSTANTS
  kTaskTimerPeriod = 2
  kTimer05Sec = 3
  MaxTick = 7
  MaxTimers = 6
CHECK_DEADLOCK FALSE
INVARIANTS
  ExpiresOnce
  ExpiresOnTime
  TimeSliceEnds
  CursorKeepsTime
