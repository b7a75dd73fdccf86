\* maxWait = 5 s; a refused dial fails at once, and a peer may accept the
\* TCP connection and never answer.
CONSTANTS
    MaxWait = 5
    RetrySleep = 2
    DialTimeout = 60
    DialTimes <- MCInstantFailure
    HandshakeTimes = {}
    HandshakeHangs = TRUE
SPECIFICATION Spec
PROPERTIES WaitReturns
CHECK_DEADLOCK FALSE
