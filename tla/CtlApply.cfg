SPECIFICATION CSpec
CONSTANTS
    i1 = i1
    i2 = i2
    i3 = i3
    c1 = c1
    c2 = c2
    None = None
    Instances = {i1, i2, i3}
    Revisions = {1, 2}
    Broken = {}
    Configs = {c1, c2}
    InitialConfig = c1
    AppKey <- OneKey
    MaxSeq = 3
    MaxFaults = 1
    MaxBoots = 1
    SyncDirFails = FALSE
    MaxHead = 2
    ApplyKinds = {"noop", "policy", "replace"}
    MaxRequests = 1
SYMMETRY Symmetry
PROPERTIES
    NoRegress
CHECK_DEADLOCK FALSE
