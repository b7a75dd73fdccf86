\* One provisioner, two UUIDs (a lost write-back mints a second one), an
\* init and a main container, and every kind of API or sink failure, at
\* most one per behaviour; the job controller writes the terminal condition
\* directly.
CONSTANTS
    Prov = {p1}
    Ids = {u1, u2}
    NoId = NoId
    InitContainers = {ci}
    MainContainers = {cm}
    ExitCodes <- MCExitCodes
    HasRun <- MCHasRunAll
    SuccessConds <- MCSuccessDirect
    FailureConds <- MCFailureDirect
    Faults <- MCAllFaults
    MaxFaults = 1
SPECIFICATION Spec
INVARIANTS TypeOK RecordsSound FailuresReported
PROPERTIES JobEventuallyDeleted ProvisionerStarts JobLifecycleImplementsLedger
CHECK_DEADLOCK FALSE
