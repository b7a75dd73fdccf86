SPECIFICATION Spec
CONSTANTS
    FileSize = 3
    Window = 2
    ErrCap = 3
    Headers = {"ok", "fields"}
    Faults = {"dst"}
PROPERTIES DownloadReturns
CHECK_DEADLOCK FALSE
