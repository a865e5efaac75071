SPECIFICATION Spec
CONSTANTS
  Controllers <- MCControllers
CHECK_DEADLOCK FALSE
INVARIANTS
  CommandIsWaiting
  QueuesAgree
  AhciIsProgrammed
PROPERTIES
  DisksIdentified
