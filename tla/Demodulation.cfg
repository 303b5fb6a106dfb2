SPECIFICATION FairSpec
CONSTANTS
    Types = {"AM", "FM"}
    SampleRates = {1, 2}
    Frequencies = {1, 2}
    WorkerMax = 1
    ResultsMax = 2
    OutMax = 1
    MaxSkips = 4
    MaxChanges = 1
INVARIANTS
    TypeOK
    RightModemRuns
    OnlySkippingBlocks
PROPERTIES
    DeletedIsForgotten
    RetuneAnnounced
    Recovers
    LastFrequencyWins
CHECK_DEADLOCK FALSE
