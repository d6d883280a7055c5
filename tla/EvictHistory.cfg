CONSTANTS
    Callers = {c1, c2}
    Ids = {a}
    Flights = {f1, f2}
    NoFlight = NoFlight
    NoEntry = NoEntry
    TTL = 0
    MaxCalls = 2
    MaxTime = 0
    MaxVersion = 1
SPECIFICATION HSpec
INVARIANTS
    EvictForcesRefetch
CHECK_DEADLOCK FALSE
