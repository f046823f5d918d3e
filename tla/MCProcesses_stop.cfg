SPECIFICATION FairSpec
CONSTANTS
    NChains = 1
    NSamples = 1
    MaxErrors = 0
PROPERTIES
    ServerStopReturns
CHECK_DEADLOCK FALSE
