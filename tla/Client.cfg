\* Three calls and six signals under way.
CONSTANTS
    MaxCalls = 3
    MaxNews = 6
SPECIFICATION FairSpec
INVARIANTS IInv StoppedIsQuiet ConnectedLightsLamp WorkerObeys
PROPERTIES LostConnectionIsRetried StopBringsDown
