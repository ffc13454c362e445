CONSTANTS
  c1 = c1
  c2 = c2
  a1 = a1
  a2 = a2
  None = None
  Client <- MCClient
  Address = {a1}
  host <- SameHost
  MaxSend = 2
  Talkers = {c1}
  MAX_BUFFER_LENGTH = 512
  SendCap = 1
  Segmented = FALSE
  MayReset = FALSE
CHECK_DEADLOCK FALSE
SPECIFICATION FairSpec
PROPERTIES
  VerdictComes
  ClosedIsDropped
  CloseCompletes
  FrontIsEchoed
  RoundDescends
  CloseDescends
INVARIANTS
  WholeFramesRead
