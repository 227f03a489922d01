SPECIFICATION FairSpec
CONSTANTS
    v0 = v0
    v1 = v1
    v2 = v2
    None = None
    Overrides = {v0, v1, v2}
    Initial = v0
    Valid = {v0, v1, v2}
    MaxID = 3
    MaxFaults = 2
    MaxCrashes = 2
    SyncDirFails = FALSE
INVARIANTS
    AcknowledgedDurable
    AcceptedWasSubmitted
    CompletedIsRecorded
    NoLostSubmission
PROPERTIES
    NewestIntentWins
    EveryWaiterAnswered
CHECK_DEADLOCK FALSE
