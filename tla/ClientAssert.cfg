CONSTANTS
  c1 = c1
  Me = c1
  MaxSend = 1
  MaxLog = 2
  MAX_BUFFER_LENGTH = 1024
  Segmented = FALSE
CHECK_DEADLOCK FALSE
SPECIFICATION Spec
INVARIANTS
  SocketAsserted
