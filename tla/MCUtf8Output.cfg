SPECIFICATION Spec
CONSTANTS
    MAX_OSC_COMMAND_BYTES = 2
    MAX_REMOTE_TITLE_BYTES = 2
    ServerItems <- Utf8Items
    MaxItems = 4
    MaxSuspensions = 1
INVARIANT AllOutputPreserved
CHECK_DEADLOCK FALSE
