SPECIFICATION FairSpec
CONSTANTS
    trade = trade
    info = info
    picture = picture
    none = none
    Messages = {1, 2}
    Channels = {trade, info}
    InfoChannels = {info}
    ChannelOf <- MCChannelOf
    Images = {picture}
    ImageOf <- MCNoImages
    NoImage = none
    Malformed = {}
    Consumers = {1, 2}
    BatchSize = 1
    MaxAttempts = 2
    MaxFaults = 0
    Copies = 2
INVARIANTS AtMostOnce LedgerTruth
PROPERTIES TradingSettled DoubtResolved
