\* Two calls under way, two signals.
CONSTANTS
    MaxCalls = 2
    MaxNews = 2
SPECIFICATION FairSpec
PROPERTIES ConnectionAsDocumented
