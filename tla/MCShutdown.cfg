\* No input: the handshakes of both sides, with an ordinary server state.
CONSTANTS
    U64_MAX = 2
    MAXIMUM_SENT_STATES = 2
    NEWEST_KEPT = 2
    RETRANSMIT = 1
    SERVER_UNRESPONSIVE = 1
    SHUTDOWN_TIMEOUT = 2
    SHUTDOWN_RETRY_LIMIT = 2
    MAXIMUM_QUEUED_INPUT = 1
    MaxInputs = 0
    MaxRemote = 1
    MaxQueue = 0
    Capacity = 1
SPECIFICATION FairSpec
PROPERTIES
    ShutdownEnds
    PeerShutdownEnds
