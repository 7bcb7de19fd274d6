SPECIFICATION FairSpec
PROPERTIES CloseWaitsForHelloOnly 
INVARIANTS LoopsStopped
CONSTANTS
  AcceptLoop = {b1}
  ConnectLoop = {d1}
  Conn = {c1, c2}
CHECK_DEADLOCK FALSE
