SPECIFICATION FairSpec
INVARIANTS PendingHasDeadline 
PROPERTIES KeepsCustody SendsSettle 
CONSTANTS
  Identity = {p1}
  Conn = {1, 2}
  NoIdentity = none
  SendModes = {"RoundRobin", "Publish"}
  Delivery = "AtLeastOnce"
  MAX_RETRIES = 1
  CursorMod = 4
  MaxInputs = 3
CHECK_DEADLOCK FALSE
