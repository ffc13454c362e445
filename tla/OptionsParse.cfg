SPECIFICATION Spec
CONSTANTS
  Address = {host}
  Port <- PortValue
INVARIANTS
  PortChecked
CHECK_DEADLOCK FALSE
