SPECIFICATION Spec
CONSTANTS
  kMaxLevel = 3
  kDefaultLevel = 1
  MaxUsbEvents = 1
  MaxDiskInterrupts = 1
PROPERTIES
  KeysAreAnswered
  CursorBlinks
