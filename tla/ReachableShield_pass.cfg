SPECIFICATION Spec
CONSTANTS
  Steps = 2
  Horizon = 4
  Lookahead = 4
  BrakeSteps = 2
  PathEnd = 1
  MaxActivations = 2
  MaxSequence = 3
INVARIANTS OnlyVerified NoSleepOnWork
PROPERTIES RefusalHolds PlanFollowed StopReturns ImplementsVerifiedMotion
CHECK_DEADLOCK FALSE
