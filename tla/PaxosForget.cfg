SPECIFICATION ForgetSpec
CONSTANTS
  N = 5
  PaxosMin = 5
  TrimMin = 1
  TrimMax = 2
  Remaps = {}
  MaxEpoch = 10
  MaxTroubled = 10
  MaxProposals = 0
  MaxTimeouts = 0
  MaxRenewals = 0
  MaxRestarts = 2
  MaxTroubles = 2
INVARIANTS
  Agreement
CHECK_DEADLOCK FALSE
