SPECIFICATION Spec
CONSTANTS
  Address = {host}
  Port <- PortValue
INVARIANTS
  PortIsUsed
CHECK_DEADLOCK FALSE
