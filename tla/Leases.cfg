SPECIFICATION Spec
CONSTANTS
    b1 = b1
    b2 = b2
    p1 = p1
    p2 = p2
    u1 = u1
    u2 = u2
    u3 = u3
    k1 = k1
    None = None
    Instances = {b1, b2}
    Prepared = {p1, p2}
    Users = {u1, u2, u3}
    Killers = {k1}
    MaxFaults = 1
    MaxCrashes = 2
    Departures = {}
SYMMETRY Symmetry
INVARIANTS
    UserRunsOnce
    FilesArePrivate
    ReservedWhileStopped
    AcceptedKept
    NoLeaseWithoutFiles
CHECK_DEADLOCK FALSE
