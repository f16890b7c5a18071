\* Two arms, every request of at most five controllers, errors and recoveries.
SPECIFICATION Spec
CONSTANTS
  Left = Left
  Right = Right
  LeftTorque = LeftTorque
  DualTorque = DualTorque
  LeftVelocity = LeftVelocity
  DualTwist = DualTwist
  OneJoint = OneJoint
  None = None
  Stopped = Stopped
  Arms <- MCArms
  Position <- MCPosition
  Mentions <- MCMentions
  Controllers <- MCControllers
  Claims <- MCClaims
  MaxRequests = 3
  MaxErrors = 1
  MaxLifecycle = 3
INVARIANTS LoopFollowsMode ModesMatchControllers
PROPERTIES SwitchIsLocal
