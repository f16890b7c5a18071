\* Every controller, two sessions each; cycles of one or two ticks.
SPECIFICATION Spec
CONSTANTS
  Position = Position
  Velocity = Velocity
  Cartesian = Cartesian
  Dual = Dual
  Impedance = Impedance
  Multi = Multi
  Start = Start
  Gravity = Gravity
  Model = Model
  Joint = Joint
  Pose = Pose
  HeadC = HeadC
  Base = Base
  StateCast = StateCast
  ModelCast = ModelCast
  panda = panda
  panda_2 = panda_2
  left = left
  right = right
  Controllers <- MCControllers
  Kind <- MCKind
  Loads <- MCLoads
  Names <- MCNames
  Occurs <- MCOccurs
  ArmLists <- MCArmLists
  MaxPeriod = 2
  Horizon = 5
  Ends <- MCEnds
  Interval = 3
  MaxSessions = 2
  MaxMessages = 2
INVARIANTS TypeOK InterfacesAreOwn TrajectoryOnTime TargetsOfOneMessage
PROPERTY BroadcastGoesOn
