\* The Build controller loses the in-memory spec.UUID on a write conflict; the next Reconcile creates a second Job.
CONSTANTS
    Prov = {p1}
    Ids = {u1, u2}
    NoId = NoId
    InitContainers = {ci}
    MainContainers = {cm}
    ExitCodes <- MCExitCodes
    HasRun <- MCHasRunAll
    SuccessConds <- MCSuccessDirect
    FailureConds <- MCFailureDirect
    Faults <- MCLostWriteBack
    MaxFaults = 1
SPECIFICATION Spec
INVARIANT AtMostOneJobPerProvisioner
CHECK_DEADLOCK FALSE
