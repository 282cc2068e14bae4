SPECIFICATION FairSpec
CONSTANTS
    ingestion = ingestion
    trader = trader
    Dogs = {1, 2}
    Fleet <- TwoBots
    Recycled = {ingestion}
    HasMutex = TRUE
    HangAutorestart = TRUE
    MaxKills = 1
    MaxCrashes = 2
    MaxOrders = 1
PROPERTY ChildrenStopped
CHECK_DEADLOCK FALSE
