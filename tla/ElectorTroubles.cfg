SPECIFICATION Spec
CONSTANTS
  N = 3
  Old = {}
  OldConns = {{}}
  MaxEarly = 1
  MaxFaults = 1
  MaxRestarts = 1
  MaxTroubles = 1
  MaxEpoch = 4
INVARIANTS
  TypeOK
  FollowOnce
  UniqueEffectiveLeader
  PeonAgreesWithLeader
  AckersRemember
  AssertionsHold
PROPERTIES
  StoredEpochGrows
  ImplementsElection
CHECK_DEADLOCK FALSE
