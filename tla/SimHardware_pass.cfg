\* Two arms and a foreign base, requests that are accepted and refused, bad commands.
SPECIFICATION Spec
CONSTANTS
  Left = Left
  Right = Right
  Base = Base
  DualTorque = DualTorque
  LeftPosition = LeftPosition
  RightVelocity = RightVelocity
  LeftTwist = LeftTwist
  BaseVelocity = BaseVelocity
  None = None
  Arms <- MCArms
  Position <- MCPosition
  Controllers <- MCControllers
  Claims <- MCClaims
  MaxRequests = 3
  MaxLifecycle = 2
  MaxNaN = 1
INVARIANTS GainsMatchControllers
PROPERTIES CommandsReachActuators
