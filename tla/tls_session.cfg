SPECIFICATION FairSpec
CONSTANTS
    CAP = 1
    FrameRecords = 2
    MaxFrames = 1
    Leftover = {"bind"}
    MaxAsks <- ConnectAsks
INVARIANT RecordsInOrder
INVARIANT NotWedged
PROPERTY FramesDelivered
PROPERTY SessionEnds
CHECK_DEADLOCK FALSE
