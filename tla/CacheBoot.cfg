SPECIFICATION Spec
CONSTANTS
    None = None
    Sources = {s1, s2}
    Refs = {r1, r2}
    Shas = {a, b}
    Digests = {d1, d2}
    MaxFaults = 2
    MaxMoves = 1
    MaxBoots = 2
    ApplyBeforeRestore = TRUE
SYMMETRY Symmetry
PROPERTY
    ImagePreserved
CHECK_DEADLOCK FALSE
