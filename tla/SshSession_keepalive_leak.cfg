\* One bracket with keepAlive on; the server never drops the connection.
CONSTANTS
    Main = m
    Closers = {}
    NoHolder = NoHolder
    Empty = Empty
    Secrets = {"k1"}
    InitKey = "k1"
    InitPassword = Empty
    KeyValues = {}
    PasswordValues = {}
    KeepAlive = 1
    MaxConnects = 1
    MaxRotations = 0
SPECIFICATION Spec
PROPERTIES KeepAliveStops
CHECK_DEADLOCK FALSE
