SPECIFICATION Spec
CONSTANTS
  root = root
  p = p
  q = q
  i = i
  j = j
  Command = Command
  Page <- MCPage
  Inject <- MCInject
  Root = root
  MaxShows = 3
SYMMETRY Symmetric
INVARIANTS
  OneReceiver
  ProxyOnlyForInjected
  
PROPERTIES
  OnlyStoppedGoes
CHECK_DEADLOCK FALSE
