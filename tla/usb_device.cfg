SPECIFICATION UsbDeviceSpec
CONSTANTS
  Fds <- TwoFds
  fd1 = fd1
  fd2 = fd2
  NoFd = NoFd
  Layouts <- TwoInterfaces
  Requests <- TwoRequests
  MaxPlugs = 2
  MaxCalls = 2
INVARIANTS
  UsbDeviceInv
  FilesOwned
  WriteableTrue
  QueuedAlive
PROPERTIES
  OpenReturns
CHECK_DEADLOCK FALSE
