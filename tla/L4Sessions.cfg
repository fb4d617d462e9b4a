CONSTANTS
  A = A
  B = B
  Modulus = 8
  L4WINDOW = 2
  L4N2 = 1
  MAXCIRCUITS = 1
  MaxId = 4
  FirstId = 1
  RestartIds = {4}
  ConnectsA = 2
  ConnectsB = 0
  MsgsA = 2
  MsgsB = 0
  AnswerB = {"appl", "none"}
  FULL_CTEXT = {}
  CanClose = {A}
  Troubles = {"loss", "delay", "busy", "restart", "nobuffer", "early"}
  Alone = {"delay", "restart", "early"}
  MaxTrouble = 2
  MaxConnect <- MCMaxConnect
  MaxMsg <- MCMaxMsg
  AnswerOf <- MCAnswerOf
SPECIFICATION FairSpec
INVARIANTS TypeOK
PROPERTIES Delivers AllTaken ConnectEnds CloseEnds
CHECK_DEADLOCK FALSE
