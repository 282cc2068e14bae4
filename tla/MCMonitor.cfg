SPECIFICATION Spec
CONSTANTS
    x = x
    y = y
    other = other
    Trades = {1, 2, 3}
    Coins = {x}
    Levels = {1, 2}
    Setup <- MCKinds
    MaxCandle = 3
    Moving = {x}
    StaleAfter = 2
    Movers = {}
    MaxPosts = 1
    Overlap = 1
    MaxGap = 4
    MaxPasses = 2
    BatchSize = 2
    MaxCrashes = 1
    MaxErrors = 0
    MaxLosses = 1
    MaxFaults = 2
INVARIANTS NoHitLost NeverBackdated
