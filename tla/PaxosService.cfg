SPECIFICATION LiveSpec
CONSTANTS
  Order <- TwoServices
  Ops <- ThreeOps
  MaxRestarts = 1
  MaxTrims = 1
  None = None
INVARIANTS AssertionsHold AckedIsCommitted OtherComesFirst BatchIsAtomic ProposalIsHeardOf
PROPERTY EventuallyAcked
CHECK_DEADLOCK FALSE
