SPECIFICATION Spec
CONSTANTS
  a1 = a1
  a2 = a2
  a3 = a3
  NoID = NoID
  ID <- MCID
  MaxFaults = 0
  MaxObjects = 4
PROPERTIES
  DefaultIsKept
CHECK_DEADLOCK FALSE
