\* Four kinds of messages, and room for two of them at once.
CONSTANTS
    MAX_FRAGMENT_BODY_BYTES = 2
    MAX_RECEIVED_FRAGMENT_BODY_BYTES = 3
    FINAL_FRAGMENT_BIT = 4
    MAXIMUM_REASSEMBLED_BYTES = 6
    MAXIMUM_ACTIVE_ASSEMBLIES = 2
    Lengths <- Mixed
SPECIFICATION Spec
INVARIANTS
    ReassembledExactly
    IntactMessageReceived
