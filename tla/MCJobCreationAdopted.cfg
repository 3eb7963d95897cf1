SPECIFICATION Spec
\* Attempts end: the system comes to rest.
CHECK_DEADLOCK FALSE
CONSTANTS
    Attempt = {a1, a2}
    Steps = 2
    None = None
    Refusable = {}
    LateCreate = FALSE
    LateUnmark = FALSE
    Deadlines = FALSE
    MaxFaults = 1
    MaxDeletes = 1
SYMMETRY Symmetry
INVARIANTS
    CreatedJobKeepsToken
