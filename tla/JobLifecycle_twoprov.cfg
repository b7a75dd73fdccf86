\* Two provisioners whose jobs run side by side, a stale informer cache,
\* pods that outlive their Job, and the failures that do not lose a
\* write-back or interrupt the watcher after it has emitted records (create
\* and API errors); the job controller writes an interim condition before
\* Complete, as Kubernetes 1.31+ does.
CONSTANTS
    Prov = {p1, p2}
    Ids = {u1, u2}
    NoId = NoId
    InitContainers = {ci}
    MainContainers = {cm}
    ExitCodes <- MCExitCodes
    HasRun <- MCHasRunAll
    SuccessConds <- MCSuccessInterim
    FailureConds <- MCFailureDirect
    Faults <- MCNoConflict
    MaxFaults = 1
SPECIFICATION Spec
INVARIANTS AtMostOnceRecord
CHECK_DEADLOCK FALSE
