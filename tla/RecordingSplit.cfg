SPECIFICATION RecordingSpec
CONSTANTS
    AudioFormats <- MCAudioFormats
    SquelchOptions = {"always"}
    TimeLimits = {FALSE}
    BlockFrames = 2
    FileRoom = 9
    SinkQueueMax = 1
    MaxAudioBlocks = 5
    MaxRecordings = 1
INVARIANT SplitKeepsEveryFrame
CHECK_DEADLOCK FALSE
