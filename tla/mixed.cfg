SPECIFICATION Spec
CONSTANTS
  Names = {"a"}
  MaxDepth = 3
  MaxSize = 2
  MaxLocal = 2
  LocalKinds = {"file"}
  MaxHandle = 4
  UninitWatch = {0}
  InitialTree <- FileAtHome
  QuietScan = TRUE
  Unreadable = FALSE
  DbCalls = {}
  HostOps = {"SendObjectInfo", "SendObject", "BeginEditObject",
             "SendPartialObject", "TruncateObject", "EndEditObject"}
  MaxRequests = 3
  Polite = FALSE
  Faults = {"unplug"}
  CardMoves = FALSE
INVARIANTS
  ObjectsTrue
  SizesTrue
  OneEditPerObject
CHECK_DEADLOCK FALSE
