CONSTANTS
    DefaultThreshold = 2
    RowLimit = 2
    FrameEvery = 1
    MetaEvery = 2
    Detections <- HighOrLow
    Thresholds = {1, 2}
    Plans <- SaveAndRestart
SPECIFICATION FairSpec
PROPERTIES StorageAsDocumented
CHECK_DEADLOCK FALSE
