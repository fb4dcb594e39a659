SPECIFICATION FairSpec
CONSTANTS
  u1 = u1
  u2 = u2
  u3 = u3
  Op <- MCOp
  BadURL <- MCBadURL
  Replies <- MCReplies
  MaxConcurrent = 1
  MaxCancels = 1
INVARIANTS
  SlotReturned
PROPERTIES
  UploadsSettle
CHECK_DEADLOCK FALSE
