SPECIFICATION Spec
CONSTANTS
    Last = 8
    History = 2
    CatchEvery = 1
    Overlap = 3
    Night = 2
    MinScan = 2
    MaxScan = 4
    Margin = 1
    SaveBack = 2
    Lookback = 1
    HotTf = TRUE
    DeletesRows = TRUE
    MaxDark = 1
    MaxSilent = 0
    MaxFaults = 1
    MaxHkCrashes = 1
    MaxRefused = 1
    MaxGapErrors = 1
    MaxTogether = 3
INVARIANTS NoneSkipped
CHECK_DEADLOCK FALSE
