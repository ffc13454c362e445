CONSTANTS
  c1 = c1
  c2 = c2
  a1 = a1
  a2 = a2
  None = None
  Client = {c1}
  Address = {a1}
  host <- SameHost
  MaxSend = 4
  Talkers = {c1}
  MAX_BUFFER_LENGTH = 1024
  SendCap = 2
  Segmented = TRUE
  MayReset = TRUE
CHECK_DEADLOCK FALSE
SPECIFICATION Spec
INVARIANTS
  EchoOrder
PROPERTIES
  ImplementsEchoLink
