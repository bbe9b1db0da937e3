SPECIFICATION DatasetsSpec
CONSTANTS
  Characters <- MCCharacters
  Astral <- MCAstral
  BufferSize = 1300
  Objects <- TwoObjects
  Lists <- MCLists
  Forms = {0, 1, 2}
  Cuts = {13, 64}
  Ops <- AllOps
  BriefHost = FALSE
  MaxCalls = 2
INVARIANTS
  PacketsInv
  DatasetsAgree
CHECK_DEADLOCK FALSE
