SPECIFICATION FairSpec
CONSTANTS
    x = x
    y = y
    z = z
    b1 = b1
    b2 = b2
    SymbolOf <- MCSymbolOf
    LongOf <- MCLongOf
    StopOf <- MCStopOf
    FirstTarget <- MCFirstTarget
    Density <- MCDensity
    Channels <- OneChannel
    Quotes <- TwoQuotes
    Bots = {b1, b2}
    Sources = {1, 3, 4}
    Legacy = {3}
    LegacyEntry = 1
    LegacyMirror = 2
    TopPrice = 3
    Activation = 0
    KeepNum = 1
    KeepDen = 2
    SlotCap = 1
    ExposureCap = 0
    TimeStopMax = 1
    Retirable = {}
    StartModes = {TRUE}
    MayGoDark = FALSE
    PromptEntries = TRUE
    Closing = {1, 3}
    Casts <- LiveCasts
INVARIANTS MirroredOnce SlotsRespected
PROPERTIES SourceFollowed
