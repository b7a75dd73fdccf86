\* maxWait = 5 s; a dial fails at once, after 1 s or after the full dial
\* timeout; a handshake takes 0 s, 2 s or 90 s, or never returns.
CONSTANTS
    MaxWait = 5
    RetrySleep = 2
    DialTimeout = 60
    DialTimes <- MCDialTimes
    HandshakeTimes <- MCHandshakeTimes
    HandshakeHangs = TRUE
SPECIFICATION Spec
INVARIANTS WaitBounded
CHECK_DEADLOCK FALSE
