SPECIFICATION Spec
CONSTANTS
    t1 = t1
    t2 = t2
    t3 = t3
    None = None
    Turns = {t1, t2, t3}
    History = 3
    Window = 2
    KeepLast = 1
    Every = 2
    Budget = 11
    Modes = {"sse"}
    MaxFaults = 0
    MaxAbandons = 0
    MaxArchives = 0
    MaxRestarts = 0
SYMMETRY Symmetry
INVARIANTS
    FoldsPersist
CHECK_DEADLOCK FALSE
