SPECIFICATION Spec
CONSTANTS
  Clients = {0, 1}
  Kinds = {"create"}
  Victims <- OneRank
  MaxRequests = 1
  MaxCrashes = 1
  MaxSaves = 0
INVARIANT AckedIsDurable
CHECK_DEADLOCK FALSE
