\* A transient error deleting a processed Failed Job re-queues it, and the retry emits the failure records again.
CONSTANTS
    Prov = {p1}
    Ids = {u1}
    NoId = NoId
    InitContainers = {ci}
    MainContainers = {cm}
    ExitCodes <- MCExitCodes
    HasRun <- MCHasRunAll
    SuccessConds <- MCSuccessDirect
    FailureConds <- MCFailureDirect
    Faults <- MCDeleteError
    MaxFaults = 1
SPECIFICATION Spec
INVARIANT AtMostOnceRecord
CHECK_DEADLOCK FALSE
