SPECIFICATION FairSpec
PROPERTIES QueuedGoesOut 
INVARIANTS BeatsOnTime SilentPeerDropped NoStaleEntry
CONSTANTS
  HEARTBEAT_INTERVAL = 2
  HEARTBEAT_TIMEOUT = 5
  POLL_INTERVAL = 1
  CAP = 1
  Prompt = TRUE
  MaxQueued = 2
CHECK_DEADLOCK FALSE
