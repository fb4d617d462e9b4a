CONSTANTS
  A = A
  B = B
  C = C
  Node = {A, B, C}
  NoNode = NoNode
  OBSINIT = 3
  OBSMIN = 2
  MINQUAL = 110
  L3LIVES = 3
  Good = 192
  Weak = 120
  Troubles = {"miss", "link", "stop", "idle", "full"}
  MaxTrouble = 1
  MaxFrame = 1
  SETTLED = 5
  Calls <- MCCalls
  PORTQUALITY <- MCPORTQUALITY
SPECIFICATION FairSpec
INVARIANTS TypeOK RoutesInOrder NeighboursListed NoBetterThanPaths Settles
PROPERTIES FramesEnd
CHECK_DEADLOCK FALSE
