CONSTANTS
    Threads = {t1}
    Callers = {gui, post}
    NumSlots = 2
    None = None

SPECIFICATION FairSpec

PROPERTY RemovalEnds
