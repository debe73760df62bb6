SPECIFICATION LiveSpec
CONSTANTS
  Clients = {0, 1}
  Kinds = {"create", "realm", "update", "destroy"}
  Victims <- OneRank
  MaxRequests = 2
  MaxCrashes = 1
  MaxSaves = 1
INVARIANTS ReplayRebuilds RealmInTable SafePurge UniqueSnapIds AssertionsHold
PROPERTY EventuallySettled
CHECK_DEADLOCK FALSE
