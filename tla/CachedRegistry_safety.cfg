CONSTANTS
    Callers = {c1, c2}
    Ids = {a}
    Flights = {f1, f2, f3}
    NoFlight = NoFlight
    NoEntry = NoEntry
    TTL = 1
    MaxCalls = 3
    MaxTime = 1
    MaxVersion = 1
SYMMETRY Symmetry
SPECIFICATION Spec
INVARIANTS
    MonotoneReads
    ExpiredIsRefetched
    WaitersExact
    LiveFetchIsRegistered
    NoForeignCancellation
PROPERTIES
    ImplementsReadThrough
CHECK_DEADLOCK FALSE
