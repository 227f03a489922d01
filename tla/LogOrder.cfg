SPECIFICATION FairSpec
CONSTANTS
    None = None
    Ids = {1}
    Header <- MCHeader
    Policies <- NarrowPolicies
    Lines = {6}
    MaxSeq = 2
    MaxCalls = 1
    MaxDay = 0
    MaxFaults = 0
    MaxRestarts = 0
PROPERTIES
    CurrentKept
CHECK_DEADLOCK FALSE
