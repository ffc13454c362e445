SPECIFICATION Spec
CONSTANTS
  Text <- TextValue
  Stack <- StackValue
  Heap <- HeapValue
  Beyond <- BeyondValue
  Cut <- CutValue
INVARIANTS
  FrameFits
  EchoExact
  CutKeepsPrefix
  LengthIsReal
CHECK_DEADLOCK FALSE
