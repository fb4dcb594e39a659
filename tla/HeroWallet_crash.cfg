SPECIFICATION Spec
CONSTANTS
  a1 = a1
  a2 = a2
  a3 = a3
  NoID = NoID
  ID <- MCID
  MaxFaults = 2
  MaxObjects = 3
SYMMETRY Symmetric
INVARIANTS
  ListedHasKey
  KeysAreListed
  RemovedIsGone
  MemoryMatchesList
PROPERTIES
  NoAccountLost
CHECK_DEADLOCK FALSE
