SPECIFICATION OutSpec
CONSTANTS
    SoftWatermark = 1
    HardCap = 3
    MaxFrame = 2
    WireCapacity = 1
    MaxQueued = 5
INVARIANTS PressureBounded SequencesIncrease
PROPERTY ResponsesKept
CHECK_DEADLOCK FALSE
