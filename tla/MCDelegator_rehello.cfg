SPECIFICATION Spec
CONSTANTS
    k1 = k1 k2 = k2 w1 = w1 w2 = w2
    Key <- MCOneKey
    Data = {d1, d2}
    Worker <- MCWorker
    JobType <- MCJobType
    NJobTypes = 2
    MaxJobs = 2
    Hellos <- MCHellosAll
    MaxHellos = 2
    MaxRequests = 2
    NoData = NoData NoResult = NoResult NoReply = NoReply
INVARIANTS
    NeverCrashes
CHECK_DEADLOCK FALSE
