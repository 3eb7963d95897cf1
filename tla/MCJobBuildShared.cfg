SPECIFICATION Spec
CHECK_DEADLOCK FALSE
CONSTANTS
    Configs <- MCConfigs
    Patches <- MCPatches
    Jobs <- SharedJobs
    Pinned = {"pinned"}
    Malformed = {"bad ref"}
    ContainerNames <- MCContainerNames
    SidecarNames <- MCSidecarNames
    ImageCheckNames <- MCImageCheckNames
    MaxBuilds = 2
    NoJob = NoJob
INVARIANTS
    OwnInterposer
