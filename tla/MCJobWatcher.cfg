SPECIFICATION FairSpec
\* The system comes to rest once the MaxUid Jobs are gone.
CHECK_DEADLOCK FALSE
CONSTANTS
    None = None
    MaxUid = 2
    MaxEvents = 1
INVARIANTS
    BookkeepingBacked
    OpenJobKeepsToken
PROPERTIES
    StalledJobReaped
    CancelReachesPodless
