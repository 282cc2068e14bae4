SPECIFICATION Spec
CONSTANTS
    coin = coin
    a = a
    b = b
    calm = calm
    storm = storm
    none = none
    Trades = {1, 2}
    Signals = {1, 2, 3}
    SignalOf <- MCSignalOf
    Coins = {coin}
    Bots = {a, b}
    Regimes = {calm, storm}
    NoRegime = none
    Cell <- MCCell
    Fallback <- MCFallback
    MayBeUnstable = FALSE
    TrailWinners = FALSE
    Legacy = {}
    LegacyOrigin <- MCNoOrigin
    MaxCrashes = 0
    MaxErrors = 1
    MaxDeletions = 0
PROPERTIES FailClosed
