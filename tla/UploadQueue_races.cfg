SPECIFICATION Spec
CONSTANTS
  u1 = u1
  u2 = u2
  u3 = u3
  Op <- MCOp
  BadURL = {}
  Replies <- MCReplies
  MaxConcurrent = 2
  MaxCancels = 1
SYMMETRY Symmetric
INVARIANTS
  CurrentUploadBound
  OneOutcome
  OutcomeMatchesState
PROPERTIES
  OutcomeIsFinal
  CancelBeforeCheckHolds
  ImplementsTicket
CHECK_DEADLOCK FALSE
