CONSTANTS
    Callers = {c1, c2}
    Ids = {a}
    Exts <- MCExts
    Walked <- MCWalked
    BuildVersion = 9
    HasEnv = TRUE
    HasPartials = TRUE
    Dirs = {root, nested}
    Root = root
    PartialsDir = partials
    NoCaller = NoCaller
    NoFile = NoFile
    NoEntry = NoEntry
    MaxCalls = 2
    MaxReloads = 1
    MaxWrites = 2
SPECIFICATION FairSpec
INVARIANTS
    OneTemplatePerReload
    ReloadForcesReread
PROPERTIES
    PassedOverWereAbsent
    CallsReturn
    EmbeddedAgrees
CHECK_DEADLOCK FALSE
