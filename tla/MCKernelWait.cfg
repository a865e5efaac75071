SPECIFICATION Spec
CONSTANTS
  kMaxLevel = 3
  kDefaultLevel = 1
  MaxUsbEvents = 0
  MaxDiskInterrupts = 0
PROPERTIES
  WaitEnds
