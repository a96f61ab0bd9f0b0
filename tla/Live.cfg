\* One tick is a second.
SPECIFICATION FairSpec
CONSTANTS
    WatchPeriod = 3
    AliveLimit = 4
    StartUp = 2
    Old = 5
    BindLimit = 5
INVARIANTS
    StoppedStaysStopped
    IInv
PROPERTIES
    LiveStreamIsLeftAlone
    SourceUpIsShown
    TcpOnlyIsShown
    BothFlowingIsBound
