\* --require-rtsp, no signal, two ffmpeg processes.
CONSTANTS
    Handlers = {}
    MaxForks = 2
    StartPolls = 1
    StopPolls = 1
    Required = TRUE
    RetryMin = 1
    RetryMax = 2
SPECIFICATION FairSpec
PROPERTIES FailuresAsDocumented
CHECK_DEADLOCK FALSE
