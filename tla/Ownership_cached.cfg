CONSTANTS
    Callers = {c1, c2}
    Registry = Registry
    Objects = {o1, o2, o3, o4, o5}
    NoObject = NoObject
    Fetcher = Fetcher
    MaxWrites = 1
SYMMETRY Symmetry
SPECIFICATION Spec
INVARIANTS
    CachedIsUntouched
CHECK_DEADLOCK FALSE
