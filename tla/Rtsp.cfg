\* Two signals: the second may nest on the first or hit another thread, and may
\* then wait for ever for the mutex its own thread holds.
CONSTANTS
    Handlers = {h1, h2}
    MaxForks = 2
    StartPolls = 1
    StopPolls = 1
    Required = FALSE
    RetryMin = 1
    RetryMax = 2
SPECIFICATION FairSpec
INVARIANTS IInv NoOrphan
PROPERTIES ShutdownCompletes FailureIsRetried ImplementsContract
CHECK_DEADLOCK FALSE
