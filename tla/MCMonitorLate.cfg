SPECIFICATION Spec
CONSTANTS
    x = x
    y = y
    other = other
    Trades = {1, 2}
    Coins = {x}
    Levels = {0, 1}
    Setup <- MCBooks
    MaxCandle = 3
    Moving = {x}
    StaleAfter = 2
    Movers = {}
    MaxPosts = 1
    Overlap = 1
    MaxGap = 4
    MaxPasses = 2
    BatchSize = 2
    MaxCrashes = 0
    MaxErrors = 0
    MaxLosses = 1
    MaxFaults = 2
INVARIANTS StaleMadeGood
