\* Every launch: sharing a library, sharing an arm, alone.
SPECIFICATION Spec
CONSTANTS
  Real = Real
  Sim = Sim
  Plain = Plain
  Nonlinear = Nonlinear
  Example = Example
  Wrench = Wrench
  Energy = Energy
  Reachable = Reachable
  PoseLog = PoseLog
  WrenchLog = WrenchLog
  RunLog = RunLog
  LeftArm = LeftArm
  RightArm = RightArm
  Controllers <- MCControllers
  Class <- MCClass
  Arm <- MCArm
  Rank <- MCRank
  Feedforward <- MCFeedforward
  Still <- MCStill
  Logging <- MCLogging
  Path <- MCPath
  Predicting <- MCPredicting
  Sensing <- MCSensing
  Loads <- MCLoads
  JtvPeriod = 4
  StatsPeriod = 2
  ProfilePeriod = 2
  MoveTicks = 3
  Parameters <- MCParameters
  BiasDuration = 2
  Budget = 2
  MaxEnergy = 4
  MaxSessions = 2
  NominalGain = 3
  FailsafeGain = 1
  GainStep = 1
  TorqueLimit = 1
  TorqueStep = 1
  MarkerDecimation = 2
  MaxMessages = 2
INVARIANTS TypeOK SessionLocal SegmentIsDue WithinBudget
PROPERTY SessionsGoForward
