CONSTANTS
  A = A
  B = B
  Modulus = 4
  LINKWINDOW = 2
  PORTN2 = 2
  ConnectsA = 1
  ConnectsB = 0
  MsgsA = 3
  MsgsB = 0
  AnswerA = {"node"}
  AnswerB = {"node"}
  CTEXTMSG = {}
  CanClose = {A}
  CanBeBusy = {A, B}
  MaxLoss = 1
  MaxBusy = 0
  MaxRestart = 0
  MaxSpurious = 0
  MaxTrouble = 9
  IdleTimeouts = FALSE
  MaxQ = 3
  MaxConnect <- MCMaxConnect
  MaxMsg <- MCMaxMsg
  Answer <- MCAnswer
SPECIFICATION Spec
PROPERTIES DiscAfterAllAcked
CHECK_DEADLOCK FALSE
