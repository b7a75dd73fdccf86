SPECIFICATION Spec
CONSTANTS
    FileSize = 3
    Window = 3
    ErrCap = 2
    Faults = {"read", "session", "reject", "store"}
INVARIANTS TypeOK UploadSound
PROPERTIES UploadReturns
