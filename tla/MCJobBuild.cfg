SPECIFICATION Spec
\* One build, and the system stops.
CHECK_DEADLOCK FALSE
CONSTANTS
    Configs <- MCConfigs
    Patches <- MCAllPatches
    Jobs <- MCJobs
    Pinned = {"pinned"}
    Malformed = {"bad ref"}
    ContainerNames <- MCContainerNames
    SidecarNames <- MCSidecarNames
    ImageCheckNames <- MCImageCheckNames
    MaxBuilds = 1
    NoJob = NoJob
INVARIANTS
    AgentAwaitsRunning
    AlwaysPulled
    PodSpecAccepted
PROPERTIES
    CommandsUnderAgent
