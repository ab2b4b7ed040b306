SPECIFICATION Spec
CONSTANTS
    Settings <- NetworkSettings
    RequestedModes <- AllModes
    SHUTDOWN_POLLS = 1
INVARIANT InterruptionSurvived
CHECK_DEADLOCK FALSE
