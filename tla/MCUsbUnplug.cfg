SPECIFICATION Spec
CONSTANTS
  MaxPorts = 3
  MaxSlots = 3
  Supported = {3}
  Endpoints = 1
  MaxUnplugs = 1
  MaxFailures = 0
CHECK_DEADLOCK FALSE
INVARIANTS
  WaitingIsServed
