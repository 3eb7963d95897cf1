SPECIFICATION FairSpec
\* Attempts end: the system comes to rest.
CHECK_DEADLOCK FALSE
CONSTANTS
    Attempt = {a1, a2}
    Steps = 2
    None = None
    Refusable = {"createJob", "getJob", "createSecret", "getSecret", "deleteSecret", "deleteJob"}
    LateCreate = TRUE
    LateUnmark = TRUE
    Deadlines = TRUE
    MaxFaults = 2
    MaxDeletes = 1
INVARIANTS
    NoIncompleteJobLeft
PROPERTIES
    CreatedJobKept
    ForeignJobUntouched
    EveryAttemptEnds
