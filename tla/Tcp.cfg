\* Two signals and one waiting client.
CONSTANTS
    Handlers = {h1, h2}
    MaxClients = 1
SPECIFICATION FairSpec
INVARIANTS IInv NoDescriptorLeak RaceOnlyInShutdown
PROPERTIES FailureIsRetried StopEndsRun ShutdownCompletes
CHECK_DEADLOCK FALSE
