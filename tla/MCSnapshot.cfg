SPECIFICATION FairSpec
CONSTANTS
    Last = 3
    Lookback <- MCLookback
    Requests <- MCRequests
    MaxErrors = 1
    MaxCrashes = 1
INVARIANTS SameAsDatabase NeverBehind
PROPERTIES CatchesUp
CHECK_DEADLOCK FALSE
