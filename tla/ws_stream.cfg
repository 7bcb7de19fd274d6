SPECIFICATION Spec
INVARIANTS PayloadIntact AnswersInOrder HeadersParse NothingHeldBack
CONSTANTS
  Requests <- MCRequests
  Traffic <- Every
  MAX_REQUEST_BYTES = 3
  CHUNK = 30
  ROOM = 3
  WriteLengths = {125, 126, 65535, 65536}
  MaxFrames = 2
  MaxWrites = 1
CHECK_DEADLOCK FALSE
