SPECIFICATION Spec
CONSTANTS
    Last = 3
    Lookback <- MCLookback
    Requests <- MCRequests
    MaxErrors = 0
    MaxCrashes = 0
INVARIANT ReachesEnd
CHECK_DEADLOCK FALSE
