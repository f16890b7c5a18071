\* Two goals and a refused one, cancellations, a late service, holding and resuming.
SPECIFICATION Spec
CONSTANTS
  First = First
  Second = Second
  Bad = Bad
  Goals <- MCGoals
  ValidGoals <- MCValidGoals
  End = 2
  MaxTimeouts = 1
  MaxScalings = 1
INVARIANTS TypeOK SucceededWasDriven
PROPERTIES UndisturbedIsAnswered ServesGoals
CHECK_DEADLOCK FALSE
