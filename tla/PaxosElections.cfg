SPECIFICATION Spec
CONSTANTS
  N = 3
  PaxosMin = 5
  TrimMin = 1
  TrimMax = 2
  Remaps = {}
  MaxEpoch = 6
  MaxTroubled = 4
  MaxProposals = 0
  MaxTimeouts = 1
  MaxRenewals = 0
  MaxRestarts = 1
  MaxTroubles = 1
INVARIANTS
  Agreement
  OneValuePerPn
  AssertionsHold
PROPERTIES
  ImplementsLog
CHECK_DEADLOCK FALSE
