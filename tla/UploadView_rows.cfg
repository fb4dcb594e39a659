SPECIFICATION Spec
CONSTANTS
  i1 = i1
  i2 = i2
  u1 = u1
  u2 = u2
  u3 = u3
  NoOp = NoOp
  NoItem = NoItem
  Item <- MCItem
  Op <- MCOp
  MaxTaps = 1
SYMMETRY Symmetric
INVARIANTS
  RowsBacked
  EmptySuccessIsTransient
  
PROPERTIES
  CompletedIsTrue
CHECK_DEADLOCK FALSE
