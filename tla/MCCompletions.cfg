SPECIFICATION FairSpec
\* The pod ends and the clock stops at MaxTime.
CHECK_DEADLOCK FALSE
CONSTANTS
    Grace = 2
    Buffer = 1
    MaxTries = 2
    Configured = {1, 6}
    Skew <- MCSkew
    MaxTime = 7
    MaxEvents = 2
    MaxOtherWrites = 1
    MaxCrashes = 1
    None = None
PROPERTIES
    CleanupNeverExtends
    RemainingGetBuffer
    LingeringCleanedUp
