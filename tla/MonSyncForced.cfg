SPECIFICATION Spec
CONSTANTS
  N = 3
  PaxosMin = 3
  Drift = 1
  Starts <- ForcedMember
  None = None
INVARIANT CommitsSurvive
CHECK_DEADLOCK FALSE
