SPECIFICATION LiveSpec
CONSTANTS
  N = 3
  Old = {}
  OldConns = {{}, {2}}
  MaxEarly = 1
  MaxFaults = 0
  MaxRestarts = 1
  MaxTroubles = 2
  MaxEpoch = 12
PROPERTY EventuallyStable
CHECK_DEADLOCK FALSE
