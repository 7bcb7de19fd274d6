SPECIFICATION FairSpec
CONSTANTS
    Identity = {p1}
    p1 = p1
    Conn = {c1, c2}
    c1 = c1
    c2 = c2
    NoIdentity = NoIdentity
    NoConn = NoConn
    SendMode = "RoundRobin"
    Delivery = "AtLeastOnce"
    MAX_RETRIES = 1
    MaxSends = 1
    MaxRemoteSends = 0
    CursorMod = 4
PROPERTIES
    MessagesSettle
    PendingDrains
    NobodyWaits
