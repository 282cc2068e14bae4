SPECIFICATION Spec
CONSTANTS
    x = x
    y = y
    z = z
    b1 = b1
    b2 = b2
    SymbolOf <- MCSymbolOf
    LongOf <- MCLongOf
    StopOf <- MCStopOf
    FirstTarget <- MCFirstTarget
    Density <- ShortFirst
    Channels <- TwoChannels
    Quotes <- TwoQuotes
    Bots = {b1}
    Sources = {1, 3, 4}
    Legacy = {}
    LegacyEntry = 1
    LegacyMirror = 2
    TopPrice = 3
    Activation = 0
    KeepNum = 1
    KeepDen = 2
    SlotCap = 2
    ExposureCap = 1
    TimeStopMax = 1
    Retirable = {}
    StartModes = {TRUE}
    MayGoDark = FALSE
    PromptEntries = TRUE
    Closing = {}
    Casts <- ExposureCasts
PROPERTIES CapNotOverrun
