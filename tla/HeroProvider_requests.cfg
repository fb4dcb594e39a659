SPECIFICATION Spec
CONSTANTS
  a = a
  m = m
  s1 = s1
  s2 = s2
  t = t
  Startup = Startup
  None = None
  Reads <- MCReads
  Sends <- MCSends
  Raws <- MCRaws
  Messages <- MCMessages
  Scripts <- MCScripts
  MaxChain = 2
  MaxSigned = 1
  MaxReloads = 1
INVARIANTS
  AnswersFindTheirRequest
  
PROPERTIES
  RequestsSettle
CHECK_DEADLOCK FALSE
