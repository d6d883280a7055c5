CONSTANTS
    Cids = {a, aprod}
    EnvCids = {aprod}
    Dirs = {d1, d2}
    NoDir = NoDir
    Initial <- MCInitial
    Written <- MCWritten
    MaxCommits = 3
    MaxCloses = 1
    a = a
    aprod = aprod
    Callers = {c1, c2}
    Ids = {a}
    EnvOf <- MCEnvOf
    MaxCalls = 2
SYMMETRY Symmetry
SPECIFICATION Spec
INVARIANTS
    OpenRepoIsLocal
    NoOrphanClone
    FreshUnlessPullFails
    VersionNotOlderThanBody
CHECK_DEADLOCK FALSE
