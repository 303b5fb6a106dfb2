SPECIFICATION Spec
CONSTANTS
    Demods = {d1, d2}
    ChannelCounts = {1, 2}
    NumElems = 2
    Mtu = 3
    QueueMax = 1
    InputMax = 1
    MaxLoss = 1
    MaxPosition = 5
SYMMETRY Symmetry
INVARIANTS
    TypeOK
    BlocksAreContiguous
PROPERTIES
    IntactOrTold
\* The receiver stops at MaxPosition samples.
CHECK_DEADLOCK FALSE
