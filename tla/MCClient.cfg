SPECIFICATION Spec
CONSTANTS
    Settings <- AllSettings
    RequestedModes <- AllModes
    SHUTDOWN_POLLS = 1
INVARIANTS TypeOK  InputInOrder CleanMeansStopped
PROPERTY TerminationEnds
CHECK_DEADLOCK FALSE
