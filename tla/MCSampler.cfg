SPECIFICATION FairSpec
CONSTANTS
    NStacks = 2
    NTemps = 3
    SwapInterval = 2
    Wrap = 7
    LengthWrap = 2
INVARIANTS
    TypeOK OneOutstandingPerChain WaitsIffColderLocked
    NoStaleProposal CountsOutstanding
PROPERTIES
    FlushEnds EveryPairSwaps
