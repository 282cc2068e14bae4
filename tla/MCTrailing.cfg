SPECIFICATION Spec
CONSTANTS
    x = x
    y = y
    z = z
    b1 = b1
    b2 = b2
    SymbolOf <- MCSymbolOf
    LongOf <- MCLongOf
    StopOf <- MCStopOf
    FirstTarget <- MCFirstTarget
    Density <- MCDensity
    Channels <- TwoChannels
    Quotes <- FourQuotes
    Bots = {b1}
    Sources = {1, 2, 3, 4}
    Legacy = {3}
    LegacyEntry = 1
    LegacyMirror = 2
    TopPrice = 3
    Activation = 0
    KeepNum = 1
    KeepDen = 2
    SlotCap = 1
    ExposureCap = 1
    TimeStopMax = 1
    Retirable = {3}
    StartModes = {FALSE, TRUE}
    MayGoDark = FALSE
    PromptEntries = TRUE
    Closing = {1}
    Casts <- MCCasts
INVARIANTS NoTradeForgotten PeakKept ExitsJustified
PROPERTIES CloseHitsOwn ExposureBounded
