SPECIFICATION Spec
CONSTANTS
    i1 = i1
    i2 = i2
    i3 = i3
    r1 = r1
    r2 = r2
    c1 = c1
    c2 = c2
    None = None
    Instances = {i1, i2, i3}
    Revisions = {r1, r2}
    Broken = {}
    Configs = {c1, c2}
    InitialConfig = c1
    AppKey <- MCAppKey
    MaxSeq = 2
    MaxFaults = 1
    MaxBoots = 1
    SyncDirFails = TRUE
SYMMETRY Symmetry
INVARIANTS
    ServedIsDurable
CHECK_DEADLOCK FALSE
