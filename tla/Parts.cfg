SPECIFICATION PartsSpec
CONSTANTS
  nib1 = nib1
  nib2 = nib2
  view1 = view1
  view2 = view2
  widget = widget
  c1 = c1
  c2 = c2
  c3 = c3
  x = x
  y = y
  None = None
  Kind <- MCKind
  RowLists <- MCRowLists
  WithImage <- MCWithImage
  Cell <- MCCell
  MaxRows = 2
  MaxRefresh = 2
  Config = {"k1", "k2"}
  Undefined = {"k2"}
  MaxSettings = 2
  MaxLoads = 3
  Key = {"a"}
  Value = {x, y}
  Lists <- MCLists
  Half = 8
  MaxLen = 4
  Empty = Empty
  Null = Null
  r1 = r1
  r2 = r2
  Fields = {"f"}
  Texts = {x, y}
  Requests = {r1, r2}
  Params <- MCParams
  MaxChanges = 3
  MaxCovers = 2
  Numbers <- MCNumbers
SYMMETRY Symmetric
INVARIANTS
  
  
  NoLeftoverProxy
  PagesReadBack
  FieldsAgree
  OverlayHasReason
  SignCoversSent
  NumbersFormatted
PROPERTIES
  CrashNeedsRestart
CHECK_DEADLOCK FALSE
