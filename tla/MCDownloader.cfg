SPECIFICATION Spec
CONSTANTS
    c1 = c1
    c2 = c2
    Clips = {c1, c2}
    Undated = {}
    Margin = 1
    PublishDelay = 1
    Lookback = 2
    GiveUpAttempts = 2
    GiveUpAfter = 1
    BackoffBase = 1
    BackoffMax = 1
    RecordTTL = 2
    MaxTracked = 1
    MaxPerPoll = 1
    LocalStorage = FALSE
    MaxTime = 6
    LastRecord = 6
    MaxFaults = 1
SYMMETRY Symmetry
INVARIANTS
    TypeOK
    NoClipLost
    DiskLags
    FailuresOnDisk
    GiveUpRemembered
CHECK_DEADLOCK FALSE
