SPECIFICATION Spec
CONSTANTS
  MaxHandle = 2
  MaxCards = 2
  MaxSessions = 2
  AskAll = FALSE
  Lossy = TRUE
INVARIANTS
  EventsInv
  StorageEventsInSession
CHECK_DEADLOCK FALSE
