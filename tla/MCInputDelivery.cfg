\* Three ordinary state numbers before exhaustion, a history of three states.
CONSTANTS
    U64_MAX = 4
    MAXIMUM_SENT_STATES = 3
    NEWEST_KEPT = 2
    MaxInstructions = 2
    MaxBatch = 1
SPECIFICATION FairSpec
INVARIANTS
    TypeOK
    InputExactlyOnce
    NothingLost
    EndsInRange
PROPERTIES
    ImplementsStream
    EventuallyConfirmed
