SPECIFICATION Spec
CONSTANTS
    Identity = {p1, p2}
    p1 = p1
    p2 = p2
    Conn = {c1, c2}
    c1 = c1
    c2 = c2
    NoIdentity = NoIdentity
    NoConn = NoConn
    SendMode = "Publish"
    Delivery = "AtMostOnce"
    MAX_RETRIES = 0
    MaxSends = 2
    MaxRemoteSends = 2
    CursorMod = 4
SYMMETRY Symmetry
CONSTRAINT Few
INVARIANTS
    OrderMatchesConns
    BufferedMeansNoPeer
    NothingOvertakes
    AckOnSameConnection
    ReceiveInOrder
