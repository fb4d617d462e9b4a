CONSTANTS
  A = A
  B = B
  Modulus = 8
  L4WINDOW = 2
  L4N2 = 1
  MAXCIRCUITS = 1
  MaxId = 4
  FirstId = 1
  RestartIds = {4}
  ConnectsA = 1
  ConnectsB = 0
  MsgsA = 10
  MsgsB = 1
  AnswerB = {"appl"}
  FULL_CTEXT = {}
  CanClose = {}
  Troubles = {"loss"}
  Alone = {}
  MaxTrouble = 1
  MaxConnect <- MCMaxConnect
  MaxMsg <- MCMaxMsg
  AnswerOf <- MCAnswerOf
SPECIFICATION Spec
INVARIANTS NothingForgotten

CHECK_DEADLOCK FALSE
