SPECIFICATION FairSpec
CONSTANTS
    Job = {j1, j2, j3}
    Worker = {w1, w2}
    Priority = {1, 2}
    MaxInFlight = 1
    WorkQueueLimit = 2
    MaxBatch = 1
    NoState = NoState
    NoJob = NoJob
    Informer = Informer
INVARIANTS
    TypeOK
    SlotAccounting
    NoLostWakeup
    QueueOrdered
    DispatchSurvivesIntake
PROPERTIES
    ImplementsJobSlots
    ShedOnlyWhenOutranked
    HighestPriorityFirst
    WorkersServe
    DrainTerminates
