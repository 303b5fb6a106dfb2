CONSTANTS
    Threads = {t1}
    Callers = {gui, post}
    NumSlots = 1
    None = None

SPECIFICATION Spec

INVARIANT NoDanglingThread
