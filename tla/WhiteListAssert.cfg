CONSTANTS
  a1 = a1
  a2 = a2
  None = None
  Address <- MCAddress
  MaxRows = 2
SPECIFICATION Spec
INVARIANTS
  DatabaseAsserted
