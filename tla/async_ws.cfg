SPECIFICATION FairSpec
INVARIANTS BytesIntact WholeFrames
PROPERTIES FlushesOut ReadsOn
CONSTANTS
  Requests <- MCRequests
  Traffic <- Sample
  MAX_REQUEST_BYTES = 3
  CHUNK = 30
  ROOM = 1
  CAPACITY = 1
  MaxFrames = 2
  MaxWrites = 1
CHECK_DEADLOCK FALSE
