SPECIFICATION Spec
CONSTANTS
  W32 = 3
  Buffer = 1
  MaxLength = 3
  Capacity = 4
  ReserveSpace = 1
  MaxFileSizes = {0, 2}
  SplitHeader = TRUE
  Others = FALSE
  StatfsFails = FALSE
  MaxWrites = 2
INVARIANTS
  TransfersInv
  ContentMeant
  EditWithinFile
  SizesResynced
  ReadsExact
PROPERTIES
  ReceivedFits
CHECK_DEADLOCK FALSE
