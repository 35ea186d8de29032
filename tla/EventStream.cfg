SPECIFICATION EsFairSpec
CONSTANTS
    SoftWatermark = 1
    HardCap = 2
    MaxFrame = 2
    WireCapacity = 1
    MaxQueued = 3
    BufferLimit = 1
    MaxAttempts = 2
    MaxFailing = 2
    Emitted <- AllEmitted
INVARIANTS
    EsTypeOK StreamsContiguous AttentionShowsWidget 
PROPERTY RecoveryEnds
CHECK_DEADLOCK FALSE
