SPECIFICATION FairSpec
CONSTANTS
    None = None
    Ids = {1}
    Header <- MCHeader
    Policies <- TightPolicies
    Lines = {8}
    MaxSeq = 3
    MaxCalls = 1
    MaxDay = 0
    MaxFaults = 0
    MaxRestarts = 0
PROPERTY
    WriteEnds
CHECK_DEADLOCK FALSE
