SPECIFICATION PipelineFairSpec
\* The system may come to rest: every job taken, no Job left in the cluster.
CHECK_DEADLOCK FALSE
CONSTANTS
    Job = {j1, j2}
    Worker = {w1}
    Priority = {1}
    MaxInFlight = 1
    WorkQueueLimit = 2
    MaxBatch = 0
    NoState = NoState
    NoJob = NoJob
    Informer = Informer
    Faults = {"watchGap"}
    MaxFaults = 1
    UnseenJobs = FALSE
    MaxEvents = 1
PROPERTIES
    EventuallyCreated
