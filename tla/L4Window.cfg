CONSTANTS
  A = A
  B = B
  Modulus = 8
  L4WINDOW = 2
  L4N2 = 1
  MAXCIRCUITS = 1
  MaxId = 4
  FirstId = 1
  RestartIds = {4}
  ConnectsA = 1
  ConnectsB = 0
  MsgsA = 4
  MsgsB = 0
  AnswerB = {"node"}
  FULL_CTEXT = {B}
  CanClose = {}
  Troubles = {"loss", "delay", "busy", "restart", "nobuffer", "early"}
  Alone = {}
  MaxTrouble = 1
  MaxConnect <- MCMaxConnect
  MaxMsg <- MCMaxMsg
  AnswerOf <- MCAnswerOf
SPECIFICATION Spec
INVARIANTS NothingForgotten CircuitsApart HoldMatchesWindow HoldBounded
PROPERTIES Delivers
CHECK_DEADLOCK FALSE
