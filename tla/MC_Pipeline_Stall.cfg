CONSTANTS
    Alert <- MCAlert
    Time <- MCSameSecond
    Local = {}
    Malformed = {}
    MayFail = {}
    Unstorable = {}
    Offset = 0
    Late = 1
    Lookback = 2
    Page = 3
    PerCycle = 2
    MaxAttempts = 2
    Answer = {"known"}
    MaxCrash = 0
    None = None
SPECIFICATION LiveSpec
PROPERTIES EventuallyStored
