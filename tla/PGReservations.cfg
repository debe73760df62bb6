SPECIFICATION LiveSpec
CONSTANTS
  OSDs = {1, 2, 3, 4}
  PGs = {"x", "y"}
  Clusters <- Several
INVARIANTS SlotsOwned WorksReserved OnlyOverlapsAbort
PROPERTY EventuallyClean
CHECK_DEADLOCK FALSE
