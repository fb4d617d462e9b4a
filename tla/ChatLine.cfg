SPECIFICATION Spec
CONSTANTS
    A = A B = B C = C Ann = Ann Cay = Cay
    Node = {A, B, C}
    User = {Ann, Cay}
    Topic = {"General", "Other"}
    deftopic = "General"
    MaxConn = 3
    Partner <- MCPartner
    Home <- MCHome
    Troubles = {"nocall", "break", "restart"}
    MaxTrouble = 1
    MaxCall = 3
    MaxLogin = 2
    MaxTopic = 1
INVARIANTS TypeOK CountsMatch  KnowsReached NoGhosts KnowsTopics
CHECK_DEADLOCK FALSE
