SPECIFICATION EsSpec
CONSTANTS
    SoftWatermark = 1
    HardCap = 2
    MaxFrame = 2
    WireCapacity = 1
    MaxQueued = 4
    BufferLimit = 1
    MaxAttempts = 2
    MaxFailing = 2
    Emitted <- AllEmitted
INVARIANT SnapshotIsBoundary
CHECK_DEADLOCK FALSE
