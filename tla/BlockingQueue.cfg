CONSTANTS
    Producers = {p1, p2}
    Consumers = {c1, c2}
    MaxItems = 3

SPECIFICATION FairSpec

INVARIANTS
    TypeOK
    NoLostWakeup

PROPERTY StopEnds

CHECK_DEADLOCK FALSE
