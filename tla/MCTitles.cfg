SPECIFICATION Spec
CONSTANTS
    MAX_OSC_COMMAND_BYTES = 2
    MAX_REMOTE_TITLE_BYTES = 2
    ServerItems <- Items
    MaxItems = 3
    MaxSuspensions = 2
INVARIANTS OnlyTitlesChange TitlesShown
CHECK_DEADLOCK FALSE
