SPECIFICATION FairSpec
CONSTANTS
    k1 = k1 k2 = k2 w1 = w1 w2 = w2
    Key <- MCTwoKeys
    Data = {d1, d2}
    Worker <- MCWorker
    JobType <- MCJobType
    NJobTypes = 2
    MaxJobs = 2
    Hellos <- MCHellosSplit
    MaxHellos = 1
    MaxRequests = 3
    NoData = NoData NoResult = NoResult NoReply = NoReply
INVARIANTS
    TypeOK OnePlacePerJob JobsMatchOpenSlots DoneCountsFilledSlots NeverCrashes WorkConserving
PROPERTIES
    AssignedInOrder ImplementsRequestReply EveryRequestAnswered
