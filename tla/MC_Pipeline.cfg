CONSTANTS
    Alert <- MCAlerts
    Time <- MCSteps
    Local = {5}
    Malformed = {1}
    MayFail = {2}
    Unstorable = {3}
    Offset = 1
    Late = 1
    Lookback = 2
    Page = 2
    PerCycle = 1
    MaxAttempts = 2
    Answer = {"known", "unknown"}
    MaxCrash = 1
    None = None
SPECIFICATION LiveSpec
INVARIANTS NothingBehind IdleIsGrouped
PROPERTIES EventuallyGrouped  
