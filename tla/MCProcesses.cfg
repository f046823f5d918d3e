SPECIFICATION FairSpec
CONSTANTS
    NChains = 2
    NSamples = 1
    MaxErrors = 1
INVARIANTS
    TypeOK NothingLeftBehind NoWaitForDeadSampler
PROPERTIES
    ServerThreadsEnd RunEnds WorkerStopReturns
CHECK_DEADLOCK FALSE
