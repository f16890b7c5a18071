\* The quiescent environment, a Release build, an arm that may start in error.
SPECIFICATION FairSpec
CONSTANTS
  Torque = Torque
  Velocity = Velocity
  None = None
  Garbage = Garbage
  NoLoop = NoLoop
  ControlLoops <- MCControlLoops
  Builds <- MCClean
  ErrorAtStart <- MCBoth
  Calm = TRUE
  MaxReflexes = 2
  MaxSwitches = 2
  MaxRecoveries = 2
  MaxLifecycle = 2
INVARIANT NoFault
PROPERTIES CallsReturn ErrorStopsLoop ImplementsArm
