\* Requests that may be refused: does an arm ever get two controllers?
SPECIFICATION Spec
CONSTANTS
  Left = Left
  Right = Right
  LeftTorque = LeftTorque
  DualTorque = DualTorque
  LeftVelocity = LeftVelocity
  DualTwist = DualTwist
  OneJoint = OneJoint
  None = None
  Stopped = Stopped
  Arms <- MCArms
  Position <- MCPosition
  Mentions <- MCMentions
  Controllers <- MCControllers
  Claims <- MCClaims
  MaxRequests = 3
  MaxErrors = 1
  MaxLifecycle = 3
INVARIANT OneModePerArm
