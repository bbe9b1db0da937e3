SPECIFICATION DatabaseSpec
CONSTANTS
  Names = {"a"}
  MaxDepth = 3
  MaxSize = 1
  MaxLocal = 1
  LocalKinds = {"file"}
  MaxHandle = 2
  UninitWatch = {0}
  InitialTree <- WithCard
  QuietScan = FALSE
  Unreadable = TRUE
  DbCalls = {"storage", "send", "end", "delete", "move", "rename"}
INVARIANTS
  DatabaseTypeOK
  HandlesFreshUnlessRaced
CHECK_DEADLOCK FALSE
