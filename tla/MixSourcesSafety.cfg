CONSTANTS
    Threads = {t1, t2}
    Callers = {gui}
    NumSlots = 2
    None = None
SYMMETRY ThreadSymmetry
SPECIFICATION Spec
INVARIANTS
    TypeOK
    UsedStateExists
    RemovedStateIsUnused
