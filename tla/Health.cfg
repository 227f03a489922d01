SPECIFICATION FairSpec
CONSTANTS
    Limits = {1, 3}
INVARIANTS
    VerdictGenuine
PROPERTIES
    WaitsEnd
CHECK_DEADLOCK FALSE
