SPECIFICATION FairSpec
CONSTANTS
    i1 = i1
    i2 = i2
    i3 = i3
    c1 = c1
    c2 = c2
    None = None
    Instances = {i1, i2, i3}
    Revisions = {1, 2, 3}
    Broken = {2}
    Configs = {c1}
    InitialConfig = c1
    AppKey <- OneKey
    MaxSeq = 5
    MaxFaults = 1
    MaxBoots = 0
    SyncDirFails = FALSE
    MaxHead = 3
    ApplyKinds = {}
    MaxRequests = 0
PROPERTIES
    EventuallyCurrent
    ServedAgain
CHECK_DEADLOCK FALSE
