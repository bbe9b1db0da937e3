SPECIFICATION DaemonSpec
CONSTANTS
  Cards <- TwoCards
  MaxMounts = 2
  MediaFdGarbage = {0}
INVARIANTS
  DaemonInv
  ScannedBeforeExposed
  CardsWithdrawn

  
CHECK_DEADLOCK FALSE
