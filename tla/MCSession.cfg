\* Two inputs, a server that may close, one datagram in flight each way.
CONSTANTS
    U64_MAX = 4
    MAXIMUM_SENT_STATES = 3
    NEWEST_KEPT = 2
    RETRANSMIT = 1
    SERVER_UNRESPONSIVE = 1
    SHUTDOWN_TIMEOUT = 1
    SHUTDOWN_RETRY_LIMIT = 1
    MAXIMUM_QUEUED_INPUT = 1
    MaxInputs = 2
    MaxRemote = 0
    MaxQueue = 3
    Capacity = 1
SPECIFICATION Spec
INVARIANTS
    TypeOK
    InputAccounted
    StopAndWait
    AcknowledgedMeansConsumed
    FramesAreExact
    WaitIsExact
