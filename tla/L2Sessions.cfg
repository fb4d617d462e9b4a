CONSTANTS
  A = A
  B = B
  Modulus = 4
  LINKWINDOW = 2
  PORTN2 = 2
  ConnectsA = 2
  ConnectsB = 0
  MsgsA = 2
  MsgsB = 0
  AnswerA = {"node"}
  AnswerB = {"node", "appl", "noappl", "limit"}
  CTEXTMSG = {}
  CanClose = {A}
  CanBeBusy = {A, B}
  MaxLoss = 1
  MaxBusy = 0
  MaxRestart = 1
  MaxSpurious = 0
  MaxTrouble = 9
  IdleTimeouts = TRUE
  MaxQ = 3
  MaxConnect <- MCMaxConnect
  MaxMsg <- MCMaxMsg
  Answer <- MCAnswer
SPECIFICATION Spec
INVARIANTS InOrderOnce AcksAreSettled SessionsHaveLinks
CHECK_DEADLOCK FALSE
