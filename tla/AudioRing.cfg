CONSTANTS
    Capacity = 3
    MaxRequest = 4
    MaxFrames = 8

SPECIFICATION Spec

INVARIANTS
    TypeOK
    NoDataRace
    NoUnderflow
    CopiedFramesAreCurrent

PROPERTY ImplementsFrameQueue

