SPECIFICATION Spec
CONSTANTS
    FileSize = 2
    Window = 3
    ErrCap = 3
    Headers = {"ok", "fields", "lead", "length", "remoteError", "missing"}
    Faults = {"session", "dst"}
INVARIANTS TypeOK DownloadSound
PROPERTIES DownloadReturns
