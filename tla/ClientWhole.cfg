CONSTANTS
  c1 = c1
  Me = c1
  MaxSend = 2
  MaxLog = 4
  MAX_BUFFER_LENGTH = 512
  Segmented = FALSE
CHECK_DEADLOCK FALSE
SPECIFICATION FairSpec
INVARIANTS
  WholePacketsRead
PROPERTIES
  HangUpIsSeen
  DisconnectEnds
