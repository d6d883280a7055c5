CONSTANTS
    Callers = {c1, c2}
    Ids = {a}
    Flights = {f1, f2}
    NoFlight = NoFlight
    NoEntry = NoEntry
    TTL = 1
    MaxCalls = 2
    MaxTime = 1
    MaxVersion = 0
SPECIFICATION FairSpec
PROPERTIES
    CancelledCallsReturn
    CallsReturn
CHECK_DEADLOCK FALSE
