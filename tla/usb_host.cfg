SPECIFICATION UsbHostSpec
CONSTANTS
  Busses <- TwoBusses
  Devices <- TwoDevices
  WdCount = 2
  EventsPerRead = 16
  Answers <- MayStop
  MaxChanges = 5
INVARIANTS
  UsbHostInv
PROPERTIES
  DevicesReported
CHECK_DEADLOCK FALSE
