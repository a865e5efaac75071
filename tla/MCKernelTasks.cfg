SPECIFICATION Spec
CONSTANTS
  kMaxLevel = 3
  kDefaultLevel = 1
  MaxUsbEvents = 2
  MaxDiskInterrupts = 1
INVARIANTS
  NoLostWakeup
  CursorTimerOnce
  WaitFindsMessage
  NoUsbEventForgotten
