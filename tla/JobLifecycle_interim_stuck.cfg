\* The job controller writes FailureTarget before Failed; the watcher only looks at the first condition.
CONSTANTS
    Prov = {p1}
    Ids = {u1}
    NoId = NoId
    InitContainers = {ci}
    MainContainers = {cm}
    ExitCodes <- MCExitCodes
    HasRun <- MCHasRunAll
    SuccessConds <- MCSuccessDirect
    FailureConds <- MCFailureInterim
    Faults <- MCNoFaults
    MaxFaults = 1
SPECIFICATION Spec
PROPERTY JobEventuallyDeleted
CHECK_DEADLOCK FALSE
