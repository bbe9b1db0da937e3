SPECIFICATION Spec
CONSTANTS
  Names = {"a", "b"}
  MaxDepth = 3
  MaxSize = 1
  MaxLocal = 0
  LocalKinds = {"dir", "file"}
  MaxHandle = 6
  UninitWatch = {0}
  InitialTree <- FilesAndCard
  QuietScan = TRUE
  Unreadable = FALSE
  DbCalls = {}
  HostOps = {"GetStorageInfo", "SetObjectPropValue", "MoveObject", "GetObject"}
  MaxRequests = 2
  Polite = FALSE
  Faults = {}
  CardMoves = TRUE
INVARIANTS
  ObjectsTrue
CHECK_DEADLOCK FALSE
