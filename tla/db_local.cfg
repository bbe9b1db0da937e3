SPECIFICATION DatabaseSpec
CONSTANTS
  Names = {"a", "b"}
  MaxDepth = 3
  MaxSize = 1
  MaxLocal = 5
  LocalKinds = {"dir", "file"}
  MaxHandle = 5
  UninitWatch = {0, 2}
  InitialTree <- SmallHome
  QuietScan = TRUE
  Unreadable = TRUE
  DbCalls = {}
INVARIANTS
  EntriesTrue
  SizesFresh
  OneHandlePerPath
CHECK_DEADLOCK FALSE
