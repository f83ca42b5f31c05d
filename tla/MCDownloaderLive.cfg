SPECIFICATION LiveSpec
CONSTANTS
    c1 = c1
    c2 = c2
    Clips = {c1, c2}
    Undated = {c2}
    Margin = 1
    PublishDelay = 1
    Lookback = 2
    GiveUpAttempts = 2
    GiveUpAfter = 1
    BackoffBase = 1
    BackoffMax = 2
    RecordTTL = 6
    MaxTracked = 2
    MaxPerPoll = 1
    LocalStorage = TRUE
    MaxTime = 8
    LastRecord = 3
    MaxFaults = 1
PROPERTY
    CursorReleased
CHECK_DEADLOCK FALSE
