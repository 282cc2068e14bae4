SPECIFICATION FairSpec
CONSTANTS
    coin = coin
    a = a
    b = b
    calm = calm
    storm = storm
    none = none
    Trades = {1, 2}
    Signals = {1, 2}
    SignalOf <- MCSignalOf
    Coins = {coin}
    Bots = {a, b}
    Regimes = {calm, storm}
    NoRegime = none
    Cell <- MCCell
    Fallback <- MCFallback
    MayBeUnstable = TRUE
    TrailWinners = TRUE
    Legacy = {1, 2}
    LegacyOrigin <- MCLegacyOrigin
    MaxCrashes = 1
    MaxErrors = 1
    MaxDeletions = 1
PROPERTIES CoinFreed
