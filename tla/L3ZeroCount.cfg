CONSTANTS
  A = A
  B = B
  C = C
  Node = {A, B, C}
  NoNode = NoNode
  OBSINIT = 3
  OBSMIN = 2
  MINQUAL = 110
  L3LIVES = 3
  Good = 192
  Weak = 120
  Troubles = {"stop"}
  MaxTrouble = 1
  MaxFrame = 2
  SETTLED = 5
  Calls <- MCCalls
  PORTQUALITY <- MCPORTQUALITY
SPECIFICATION Spec
PROPERTIES ZeroIsDeleted
CHECK_DEADLOCK FALSE
