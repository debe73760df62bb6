SPECIFICATION Spec
CONSTANTS
  N = 3
  PaxosMin = 0
  TrimMin = 1
  TrimMax = 2
  Remaps = {4}
  MaxEpoch = 4
  MaxTroubled = 4
  MaxProposals = 2
  MaxTimeouts = 0
  MaxRenewals = 1
  MaxRestarts = 0
  MaxTroubles = 0
INVARIANTS
  TypeOK
  StoreIsWhole
  CommittedIsDurable
  TimersMatchState
  ReadsCurrent
CHECK_DEADLOCK FALSE
