CONSTANTS
    Wrap = 6
    Flash = 1
    UpdateTime = 1
    RetryInitial = 1
    RetryMax = 2
    AttemptMax = 2
    PulsePeriod = 2
    SessionMax = 1
    MaxLag = 1
    Reported = {"error", "activity", "connecting"}
SPECIFICATION LedFairSpec
PROPERTIES
    FlashIsRecent
    BackoffKept
    LedCatchesUp
