SPECIFICATION Spec
CONSTANTS
  u1 = u1
  u2 = u2
  u3 = u3
  Op <- MCOp
  BadURL <- MCBadURL
  Replies <- MCReplies
  MaxConcurrent = 2
  MaxCancels = 0
INVARIANTS
  CountIsReal
CHECK_DEADLOCK FALSE
