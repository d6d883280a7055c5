CONSTANTS
    x = x
    y = y
    hintE = hintE
    hintF = hintF
    MaxMessages = 3
    Names <- MCNames
    Templates <- MCTemplates
    Explicit <- MCExplicit
    Defaults <- MCDefaults
    Histories <- MCHistories
    Caches <- MCCaches
    NoGuard = NoGuard
    NoCache = NoCache
SPECIFICATION Spec
INVARIANTS
    RequiredVarsSuffice
    ValidatedDataRenders
    HistoryStaysWhole
    NormalizeIsFaithful
CHECK_DEADLOCK FALSE
