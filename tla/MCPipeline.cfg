SPECIFICATION PipelineSpec
\* The system may come to rest: every job taken, no Job left in the cluster.
CHECK_DEADLOCK FALSE
CONSTANTS
    Job = {j1, j2}
    Worker = {w1, w2}
    Priority = {1}
    MaxInFlight = 1
    WorkQueueLimit = 2
    MaxBatch = 0
    NoState = NoState
    NoJob = NoJob
    Informer = Informer
    UnseenJobs = FALSE
    MaxFaults = 1
    Faults = {"ambiguousCreate", "watchGap", "restart"}
    MaxEvents = 2
SYMMETRY Symmetry
INVARIANTS
    NoSlotLeak
    MarkBacked
PROPERTIES
    CreateWithinLimit
