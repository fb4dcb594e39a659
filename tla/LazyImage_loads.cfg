SPECIFICATION Spec
CONSTANTS
  u = u
  w = w
  c = c
  nil = nil
  Url <- MCUrl
  Call <- MCCall
  MaxSets = 3
INVARIANTS
  OwnData
  BlankWithoutURL
  SettledShowsURL
PROPERTIES
  EveryBlockCalled
CHECK_DEADLOCK FALSE
