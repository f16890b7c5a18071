\* A goal that is refused while another one is executing.
SPECIFICATION Spec
CONSTANTS
  First = First
  Second = Second
  Bad = Bad
  Goals = {First, Bad}
  ValidGoals = {First}
  End = 2
  MaxTimeouts = 0
  MaxScalings = 0
PROPERTIES AcceptedIsAnswered
CHECK_DEADLOCK FALSE
