SPECIFICATION Spec
CONSTANTS
    A = A B = B C = C Bull = Bull News = News
    BBS = {A, B, C}
    Nobody = Nobody
    Bid = {Bull, News}
    Type <- MCType
    Routes <- MCRoutes
    Origin <- MCOrigin
    Partner <- MCPartner
    MaxBlock = 2
    DeferCycles = 1
    MaxRestart = 2
    MaxConn = 2
    Troubles = {"nocall", "cross", "break", "crash"}
    MaxTrouble = 1
INVARIANTS TypeOK  SentIsThere 
PROPERTIES Relays AllForwarded
CHECK_DEADLOCK FALSE
