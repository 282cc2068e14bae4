SPECIFICATION Spec
CONSTANTS
    trade = trade
    info = info
    picture = picture
    none = none
    Messages = {1, 2, 3}
    Channels = {trade, info}
    InfoChannels = {info}
    ChannelOf <- MCChannelOf
    Images = {picture}
    ImageOf <- MCImageOf
    NoImage = none
    Malformed = {1}
    Consumers = {1}
    BatchSize = 2
    MaxAttempts = 2
    MaxFaults = 1
    Copies = 2
INVARIANTS OneInDoubt
PROPERTIES SettledForGood ImplementsSignalChannel
