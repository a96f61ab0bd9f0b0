CONSTANTS
    DefaultThreshold = 2
    RowLimit = 2
    FrameEvery = 1
    MetaEvery = 2
    Detections <- HighOrLow
    Thresholds = {1, 2}
    Plans <- StorageRecordings
SPECIFICATION FairSpec
INVARIANTS IInv NoDanglingReference TargetsMeetTheRule RowsInArrivalOrder RefreshShowsCaptures LastSaveWins VideoIsOneSession
PROPERTIES VideosKeepTheirSession WindowIsNeverStuck
CHECK_DEADLOCK FALSE
