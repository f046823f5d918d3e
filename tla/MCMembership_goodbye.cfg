SPECIFICATION Spec
CONSTANTS
    w1 = w1 w2 = w2
    Worker <- MCTwo
    Timeout = 1
    Rate = 1
    MaxBacklog = 2
    NoEntry = NoEntry
    Leavers <- MCOne
    MaxHellos <- MCHelloOnce
    MaxInFlight = 2
INVARIANTS
    HeartbeatNeverCrashes
