SPECIFICATION FairSpec
CONSTANTS
    BYTE = 6
    PREFIX = 2
    IDENTITY_SIZE = 1
    MSG_ID_SIZE = 1
    CHUNK = 8
    MaxFrames = 3
    Readers <- AnyReader
    Traffic <- MCTraffic
PROPERTY ChannelSpec
PROPERTY EverythingForwarded
CHECK_DEADLOCK FALSE
