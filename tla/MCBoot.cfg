SPECIFICATION BootSpec
CONSTANTS
  FrameCount = 10
  MemoryMaps <- MCMemoryMaps
  HeapFrames = 2
  Requests = {1, 3}
  Machines <- MCMachines
  Scan <- ScanAllBus
  PmPeriod = 32
  Pm100ms = 10
  MaxRead = 2
  LapicRate = 1
  kCountMax = 19
  kTimerFreq = 100
  MaxDevices = 1
CHECK_DEADLOCK FALSE
INVARIANTS
  BlocksAreApart
  OnlyAvailable
  FailsOnlyWhenFull
  MemoryIsApart
  XhcIsProgrammed
  TicksAreRight
PROPERTIES
  XhcRuns
