SPECIFICATION FairSpec
CONSTANTS
    x = x
    y = y
    other = other
    Trades = {1}
    Coins = {x}
    Levels = {0, 1}
    Setup <- MCBooks
    MaxCandle = 3
    Moving = {x}
    StaleAfter = 2
    Movers = {other}
    MaxPosts = 1
    Overlap = 1
    MaxGap = 4
    MaxPasses = 2
    BatchSize = 2
    MaxCrashes = 1
    MaxErrors = 1
    MaxLosses = 1
    MaxFaults = 1
PROPERTIES BookedOnce EventuallyBooked
