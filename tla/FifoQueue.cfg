SPECIFICATION Spec
CONSTANTS
  Byte = {a, b}
  Unset = Unset
  Input <- InputValue
  Length <- LengthValue
  Size = {2,3}
  MaxSize = 3
  Word = 100
  Shrinks = FALSE
INVARIANTS
  InMemory
  WriterIsWoken
  UsedFits
PROPERTIES
  ImplementsByteQueue
