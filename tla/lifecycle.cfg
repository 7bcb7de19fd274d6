SPECIFICATION FairSpec
CONSTANTS
    AcceptLoop = {bind1}
    ConnectLoop = {connect1}
    Conn = {c1, c2}
    Overlap = FALSE
INVARIANTS NoEscape ClosedMeansStopped
PROPERTIES CloseReturns Reconnects
CHECK_DEADLOCK FALSE
