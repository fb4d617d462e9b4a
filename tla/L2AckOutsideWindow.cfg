CONSTANTS
  A = A
  B = B
  Modulus = 4
  LINKWINDOW = 2
  PORTN2 = 2
  ConnectsA = 1
  ConnectsB = 0
  MsgsA = 4
  MsgsB = 0
  AnswerA = {"node"}
  AnswerB = {"node"}
  CTEXTMSG = {}
  CanClose = {}
  CanBeBusy = {A, B}
  MaxLoss = 1
  MaxBusy = 1
  MaxRestart = 0
  MaxSpurious = 0
  MaxTrouble = 9
  IdleTimeouts = FALSE
  MaxQ = 3
  MaxConnect <- MCMaxConnect
  MaxMsg <- MCMaxMsg
  Answer <- MCAnswer
SPECIFICATION Spec
PROPERTIES AcksInsideWindow
CHECK_DEADLOCK FALSE
