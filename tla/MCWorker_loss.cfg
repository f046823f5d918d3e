SPECIFICATION FairSpec
CONSTANTS
    MaxJobs = 2
    MaxScripts = 2
PROPERTIES
    EveryJobSettled
CHECK_DEADLOCK FALSE
