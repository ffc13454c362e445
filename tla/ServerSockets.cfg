CONSTANTS
  c1 = c1
  c2 = c2
  a1 = a1
  a2 = a2
  None = None
  Client <- MCClient
  Address <- MCAddress
  host <- OtherHost
  MaxSend = 1
  Talkers <- MCClient
  MAX_BUFFER_LENGTH = 1024
  SendCap = 2
  Segmented = TRUE
  MayReset = TRUE
SYMMETRY Symmetry
CHECK_DEADLOCK FALSE
SPECIFICATION Spec
INVARIANTS
  TypeOK
  LiveSockets
  NeverBlocksInReceive
  PatientClientsHarmless
  EchoOrder
  VerdictFirst
  OnlyListedServed
