CONSTANTS
  A = A
  B = B
  Modulus = 4
  LINKWINDOW = 2
  PORTN2 = 2
  ConnectsA = 1
  ConnectsB = 0
  MsgsA = 5
  MsgsB = 1
  AnswerA = {"node"}
  AnswerB = {"node"}
  CTEXTMSG = {B}
  CanClose = {}
  CanBeBusy = {A, B}
  MaxLoss = 1
  MaxBusy = 0
  MaxRestart = 0
  MaxSpurious = 1
  MaxTrouble = 9
  IdleTimeouts = FALSE
  MaxQ = 3
  MaxConnect <- MCMaxConnect
  MaxMsg <- MCMaxMsg
  Answer <- MCAnswer
SPECIFICATION Spec
INVARIANTS TypeOK NoSilentStall NothingForgotten SlotsMatchWindow
PROPERTIES Delivers
CHECK_DEADLOCK FALSE
