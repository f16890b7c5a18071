\* Two arms; requests, messages and activations in every order.
SPECIFICATION Spec
CONSTANTS
  Left = Left
  Right = Right
  JointL = JointL
  CartL = CartL
  JointR = JointR
  Dual = Dual
  NotLoaded = NotLoaded
  None = None
  Arms <- MCArms
  Controllets <- MCControllets
  Resource <- MCResource
  StartSet <- MCStartSet
  Requests <- MCRequests
  MaxRequests = 2
  MaxMessages = 1
  MaxSettings = 1
  MaxActivations = 2
INVARIANT OneControllet
PROPERTIES TorquesOfOneSet NoStaleTarget ThreadsComplete
CHECK_DEADLOCK FALSE
