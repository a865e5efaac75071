SPECIFICATION TransfersSpec
CONSTANTS
  Size = 6
  EventSize = 3
  MapSize = 2
  Waiters = 4
  Configs <- MCConfigs
  Keys = {k1, k2}
  KeySlots = 1
  MaxChanges = 3
  MaxFailedTransfers = 1
INVARIANTS
  CompletionsAreOwn
  EachPressToldOnce
PROPERTIES
  RingsAreQueues
  KeysAreTold
CHECK_DEADLOCK FALSE
