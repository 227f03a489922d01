SPECIFICATION Spec
CONSTANTS
    i1 = i1
    i2 = i2
    i3 = i3
    r1 = r1
    r2 = r2
    c1 = c1
    c2 = c2
    None = None
    Instances = {i1, i2, i3}
    Revisions = {r1, r2}
    Broken = {}
    Configs = {c1, c2}
    InitialConfig = c1
    AppKey <- MCAppKey
    MaxSeq = 3
    MaxFaults = 2
    MaxBoots = 1
    SyncDirFails = FALSE
SYMMETRY Symmetry
INVARIANTS
    ServedIsDurable
    DurableInstallationKept
    RetiredReachable
    OneWriterPerBundle
    RunningHasFiles
    KillSparesActive
PROPERTIES
    TrafficKept
    NoLateCutover
    ImplementsRelease
CHECK_DEADLOCK FALSE
