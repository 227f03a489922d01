SPECIFICATION Spec
CONSTANTS
    q1 = q1
    q2 = q2
    q3 = q3
    b1 = b1
    b2 = b2
    b3 = b3
    None = None
    Requests = {q1, q2, q3}
    Backends = {b1, b2, b3}
SYMMETRY Symmetry
INVARIANTS
    DrainedMeansIdle
    NoLostWakeup
    NoDoubleClose
CHECK_DEADLOCK FALSE
