SPECIFICATION Spec
CONSTANTS
  MaxPorts = 3
  MaxSlots = 2
  Supported = {2}
  Endpoints = 2
  MaxUnplugs = 1
  MaxFailures = 1
CHECK_DEADLOCK FALSE
INVARIANTS
  OneAtATime
  AddressedPortMoves
  SlotsBelongToPorts
  OneReport
PROPERTIES
  EveryDeviceConfigured
