SPECIFICATION LiveSpec
CONSTANTS
  N = 3
  PaxosMin = 1
  Drift = 1
  Starts <- LateMonitor
  None = None
INVARIANTS AssertionsHold MembersLackNothing CommitsSurvive
PROPERTY EventuallyTogether
CHECK_DEADLOCK FALSE
