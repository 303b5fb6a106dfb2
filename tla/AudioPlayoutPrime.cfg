CONSTANTS
    Capacity = 4
    Block = 1
    Frames = 1
    PrimeFrames = 1
    MinStartup = 2
    DefaultMargin = 1
    MarginStep = 2
    MarginCap = 2
    MarginDecay = 1
    CatchUp = 0
    JitterGap = 2
    Window = 2
    StartExcess = 1
    StartShortfall = 0
    StopExcess = 1

SPECIFICATION Spec

INVARIANTS
    FirstOutputIsBuffered
