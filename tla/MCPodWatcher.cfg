SPECIFICATION FairSpec
\* The system comes to rest once the MaxPods pods are gone.
CHECK_DEADLOCK FALSE
CONSTANTS
    None = None
    MaxPods = 1
    MaxEvents = 1
    Flaky <- FlakySets
INVARIANTS
    EntriesBacked
    NoAgentCutOff
    IgnoredForCause
PROPERTIES
    FailingImageResolved
    StuckPendingResolved
