SPECIFICATION FairSpec
CONSTANTS
    w1 = w1 w2 = w2
    Worker <- MCOne
    Timeout = 1
    Rate = 1
    MaxBacklog = 3
    NoEntry = NoEntry
    Leavers <- MCOne
    MaxHellos <- MCComesBack
    MaxInFlight = 4
INVARIANTS
    TypeOK ConnectedIsMonitored
PROPERTIES
    DeadAreDisconnected
