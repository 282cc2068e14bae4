SPECIFICATION FairSpec
CONSTANTS
    ingestion = ingestion
    trader = trader
    Dogs = {1, 2}
    Fleet <- TwoBots
    Recycled = {ingestion}
    HasMutex = TRUE
    HangAutorestart = TRUE
    MaxKills = 1
    MaxCrashes = 2
    MaxOrders = 1
INVARIANTS NoDouble OneWatchdog
PROPERTIES ParkHonoured RestartServed Recovered
CHECK_DEADLOCK FALSE
