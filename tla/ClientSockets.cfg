CONSTANTS
  c1 = c1
  Me = c1
  MaxSend = 2
  MaxLog = 3
  MAX_BUFFER_LENGTH = 1024
  Segmented = TRUE
CHECK_DEADLOCK FALSE
SPECIFICATION Spec
INVARIANTS
  TypeOK
  LoopOnLiveObjects
  NoDoubleDelete
  FaultNeedsCause
  ShownInOrder
PROPERTIES
  ImplementsEchoLink
  HangUpDescends
  DisconnectDescends
