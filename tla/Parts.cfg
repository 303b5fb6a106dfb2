SPECIFICATION Spec
CONSTANTS
    AudioFormats <- MCAudioFormats
    SquelchOptions = {"skip"}
    TimeLimits = {TRUE}
    BlockFrames = 2
    FileRoom = 9
    SinkQueueMax = 1
    MaxAudioBlocks = 4
    MaxRecordings = 1
    PreRollFrames = 3
    AudioSizes = {2}
    FadeFrames = 1
    MaxGateBlocks = 4
    MaxGateClicks = 2
    Hardware = {"a", "b"}
    MaxReceiverClicks = 7
    MaxScans = 3
    Offered <- MCOffered
    Defaults <- MCDefaults
    HasPPM = TRUE
    MaxChoices = 2
    MaxDeviceStarts = 1
    MaxModems = 2
    TunedTo = {4}
    HalfRate = 1
    DeltaLocks = {FALSE}
    MaxTuningClicks = 3
    VisualBlockSizes = {3}
    VisualTunings = {1, 2}
    FFTSizes = {1, 2}
    DistributorSamples = 4
    VisualInputMax <- MCVisualInput
    LinesMax = 2
    CanvasMax <- MCCanvas
    GCLimit = 1
    IdleCacheLimit = 2
    MaxVisualBlocks = 3
    MaxVisualEvents = 2
    RigFrequencies = {1, 2, 5}
    RigModems = {1}
    RigHalfRate = 2
    RigConfigured = {{"control", "follow"}, {"control", "follow", "followModem"}}
    RigIFs = {3}
    MaxRigEvents = 3
    ConfigTexts <- MCConfigTexts
    Addresses <- MCAddresses
    Endpoints <- MCEndpoints
    LocalIds <- MCLocalIds
    GainNames <- MCGainNames
    WindowSizes = {0, 800}
    MaxEdits = 2
    MaxSessions = 2
    BookmarkModems <- MCBookmarkModems
    GroupNames <- MCGroupNames
    OutputNames <- MCOutputNames
    ModemLabels <- MCModemLabels
    ViewRanges <- MCViewRanges
    DefaultRanges <- MCDefaultRanges
    ForeignFiles <- MCForeignFiles
    HalfBand = 2
    RecentsMax = 1
    MaxBookmarkSteps = 4
    Titles = {1, 2}
    FoundTitles = {1}
    TreeGroups = {"A", "B"}
    UnnamedGroup = "A"
    TreeRecentsMax = 1
    MaxTreeModems = 2
    MaxTreeEntries = 3
    MaxTreeRanges = 2
    MaxTreeClicks = 3
    TunerModems <- MCTunerModems
    TunerRate = 2400000
    TunerHovers <- MCTunerHovers
    TunerHalves = {"top", "bottom"}
    TypedTexts <- MCTypedTexts
    GainLimits <- MCGainLimits
    MeterInputs <- MCMeterInputs
    GrowingRates <- MCGrowingRates
    MaxTunerEvents = 4
    PanelSlots = {1, 2}
    PanelPlaces <- MCPanelPlaces
    PanelRate = 2400000
    PanelPicks = {"FM"}
    PanelKeys = {"TAB", "V", "M", "F", "S", "P", "R", "D"}
    MaxPanelEvents = 3
    Programmes <- MCProgrammes
    Timings <- MCTimings
    NameCells = 1
    TextSegments = 1
    Damages <- MCDamages
    SearchTimeout = 5
    MaxAir = 13
    MaxDisturbances = 2
INVARIANTS
    TypeOK
    RecordingIsSound
    ReceiverIsSafe
    OnlyRacedSettingsAreLost
    SelectedModemsExist
    FramesAreWhole
    RigSettles
    SettingsReturn
    BookmarksReturn
    TreeIsTrue
    TextIsEarned
PROPERTIES
    NoAudibleSeam
    EntriesKeepTheRest
    PressesReachTheirModem
VIEW PartView
CHECK_DEADLOCK FALSE
