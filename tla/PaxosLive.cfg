SPECIFICATION LiveSpec
CONSTANTS
  N = 3
  PaxosMin = 5
  TrimMin = 1
  TrimMax = 2
  Remaps = {}
  MaxEpoch = 4
  MaxTroubled = 4
  MaxProposals = 0
  MaxTimeouts = 0
  MaxRenewals = 0
  MaxRestarts = 0
  MaxTroubles = 0
PROPERTIES
  QuorumWorks
CHECK_DEADLOCK FALSE
