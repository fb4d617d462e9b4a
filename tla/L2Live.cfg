CONSTANTS
  A = A
  B = B
  Modulus = 4
  LINKWINDOW = 2
  PORTN2 = 2
  ConnectsA = 1
  ConnectsB = 0
  MsgsA = 2
  MsgsB = 0
  AnswerA = {"node"}
  AnswerB = {"node"}
  CTEXTMSG = {}
  CanClose = {A}
  CanBeBusy = {B}
  MaxLoss = 2
  MaxBusy = 1
  MaxRestart = 0
  MaxSpurious = 0
  MaxTrouble = 2
  IdleTimeouts = FALSE
  MaxQ = 3
  MaxConnect <- MCMaxConnect
  MaxMsg <- MCMaxMsg
  Answer <- MCAnswer
SPECIFICATION FairSpec
PROPERTIES AllTaken ConnectEnds CloseEnds FrameRejectEnds
CHECK_DEADLOCK FALSE
