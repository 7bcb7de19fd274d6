SPECIFICATION Spec
CONSTANTS
  BYTE = 6
  PREFIX = 2
  IDENTITY_SIZE = 1
  MSG_ID_SIZE = 1
  CHUNK = 8
  MaxFrames = 2
  Readers = {"read_frame"}
  Traffic <- MCTraffic
INVARIANTS ForwardsWhatWasSent
CHECK_DEADLOCK FALSE
