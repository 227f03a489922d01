SPECIFICATION CSpec
CONSTANTS
    i1 = i1
    i2 = i2
    i3 = i3
    c1 = c1
    c2 = c2
    None = None
    Instances = {i1, i2, i3}
    Revisions = {1}
    Broken = {}
    Configs = {c1, c2}
    InitialConfig = c1
    AppKey <- OneKey
    MaxSeq = 4
    MaxFaults = 2
    MaxBoots = 0
    SyncDirFails = FALSE
    MaxHead = 1
    ApplyKinds = {"policy"}
    MaxRequests = 1
SYMMETRY Symmetry
INVARIANTS
    NeverStranded
CHECK_DEADLOCK FALSE
