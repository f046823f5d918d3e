SPECIFICATION FairSpec
CONSTANTS
    MaxJobs = 3
    MaxScripts = 2
INVARIANTS
    TypeOK MinionWaitsIffIdle JobsKeepTheirOrder
PROPERTIES
    SettledUnlessOrphaned
CHECK_DEADLOCK FALSE
