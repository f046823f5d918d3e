SPECIFICATION Spec
CONSTANTS
    Client = {"wA", "wB"}
    JobTypeRange <- MCJobTypeRange
    Submissions <- MCSubmissions
    Resolution = 10
    Numbers <- MCNumbers
    Workers <- MCWorkers
    TypesOf <- MCTypesOf
    MaxJobs = 2
    Capacity = 2
    Unsigned = 8
    Elapsed = {2, 7}
    MaxMeasured = 3
    Bounds <- MCBounds
    Reach = 20
    NoSample = NoSample
    NTemps = 4
    MaxCap = 2
    Estimates <- MCEstimates
    NStacks = 2
    NChains = 2
    Window = 3
    Infinity = 99
    Samples = {0, 12}
    Energy <- MCEnergy
    MaxLog = 4
    nstacks = 2
    ntemps = 2
    Point = {p1, p2}
    Scale = {x1}
    MaxLength <- MCMaxLength
INVARIANTS
    AllSamplesRecorded
CHECK_DEADLOCK FALSE
