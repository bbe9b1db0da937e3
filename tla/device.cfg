SPECIFICATION DeviceSpec
CONSTANTS
  Threads = {t1, t2}
  NoThread = NoThread
  Operations = {"GetInfo", "DeleteObject", "SendObjectInfo", "SendObject",
                "ReadObject", "ReadFile"}
  MaxCalls = 3
  MaxChunks = 3
  Faults = {"unplug", "callback", "refuse"}
INVARIANTS
  DeviceInv
  PipesClean
  ReadInOrder
PROPERTIES
  CallsReturn
CHECK_DEADLOCK FALSE
