\* Main connects and disconnects twice with keepAlive on, while another
\* goroutine calls Disconnect at any moment, the server may drop either
\* connection and the credentials are rotated twice.
CONSTANTS
    Main = m
    Closers = {c1}
    NoHolder = NoHolder
    Empty = Empty
    Secrets = {"k1", "k2", "p1"}
    InitKey = "k1"
    InitPassword = Empty
    KeyValues <- MCKeys
    PasswordValues <- MCPasswords
    KeepAlive = 1
    MaxConnects = 2
    MaxRotations = 2
SPECIFICATION Spec
INVARIANTS NoClosePanic NoNilClientPanic
PROPERTIES DisconnectReturns SessionImplementsCloseSignal
CHECK_DEADLOCK FALSE
