SPECIFICATION LockOrderSpec
CONSTANTS
    LockDemods = {1}
    Operations = {"DeleteThread", "SetSampleRate", "OpenInSoloMode"}
INVARIANT
    OnlyKnownDeadlocks
CHECK_DEADLOCK FALSE
