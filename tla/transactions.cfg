SPECIFICATION LiveSpec
CONSTANTS
  Names = {"a"}
  MaxDepth = 3
  MaxSize = 1
  MaxLocal = 0
  LocalKinds = {"dir", "file"}
  MaxHandle = 6
  UninitWatch = {0}
  InitialTree <- FileAtHome
  QuietScan = TRUE
  Unreadable = FALSE
  DbCalls = {}
  HostOps = {"OpenSession", "CloseSession", "GetStorageIDs", "GetObjectHandles",
             "GetObjectInfo", "GetObject", "GetThumb", "GetObjectReferences",
             "SendObjectInfo", "SendObject", "DeleteObject"}
  MaxRequests = 3
  Polite = TRUE
  Faults = {"cancel", "unplug", "refuse"}
  CardMoves = FALSE
INVARIANTS
  TypeOK
  ObjectsTrue
PROPERTIES
  DeleteOnlyAllowed
  TransactionsImplemented
CHECK_DEADLOCK FALSE
