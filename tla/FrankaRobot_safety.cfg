\* Both builds in every environment, faults included.
SPECIFICATION Spec
CONSTANTS
  Torque = Torque
  Velocity = Velocity
  None = None
  Garbage = Garbage
  NoLoop = NoLoop
  ControlLoops <- MCControlLoops
  Builds <- MCBoth
  ErrorAtStart <- MCBoth
  Calm = FALSE
  MaxReflexes = 1
  MaxSwitches = 2
  MaxRecoveries = 1
  MaxLifecycle = 2
INVARIANTS TypeOK  FinishOwned FaultsNeedRecovery
