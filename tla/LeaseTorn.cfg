SPECIFICATION Spec
CONSTANTS
    b1 = b1
    b2 = b2
    p1 = p1
    p2 = p2
    u1 = u1
    u2 = u2
    u3 = u3
    k1 = k1
    None = None
    Instances = {b1}
    Prepared = {p1}
    Users = {u1}
    Killers = {}
    MaxFaults = 0
    MaxCrashes = 1
    Departures = {}
SYMMETRY Symmetry
INVARIANTS
    PreparedComplete
CHECK_DEADLOCK FALSE
