\* Goals that overlap, their cancellation, stops, a lost connection, a shutdown.
SPECIFICATION Spec
CONSTANTS
  First = First
  Second = Second
  Goals <- MCGoals
  GripperCommands <- MCGripperCommands
  Ticks = 2
  MaxStops = 2
  MaxFailures = 1
INVARIANTS CutShortByRequest CanceledIsStill
PROPERTY ServesGoals
CHECK_DEADLOCK FALSE
