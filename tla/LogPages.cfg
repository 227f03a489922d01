SPECIFICATION FairSpec
CONSTANTS
    None = None
    Ids = {1, 2}
    Header <- MCHeader
    Policies <- MCPolicies
    Lines = {2, 6}
    MaxSeq = 2
    MaxCalls = 3
    MaxDay = 2
    MaxFaults = 1
    MaxRestarts = 1
INVARIANTS
    Accounted
    HandlesCurrent
PROPERTIES
    BudgetKept
    OldestFirst
    WriteEnds
CHECK_DEADLOCK FALSE
