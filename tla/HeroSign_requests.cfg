SPECIFICATION Spec
CONSTANTS
  a = a
  b = b
  m1 = m1
  m2 = m2
  t1 = t1
  t2 = t2
  None = None
  Acct <- MCAcct
  Msg <- MCMsg
  Tx <- MCTx
  MaxSigned = 2
  MaxDue = 2
SYMMETRY Symmetric
INVARIANTS
  ConfirmedIsSigned
  
PROPERTIES
  ImplementsSignTicket
CHECK_DEADLOCK FALSE
