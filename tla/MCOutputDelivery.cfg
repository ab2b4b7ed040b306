\* The four ordinary scripts.  Histories of two bytes and five operations, so that some
\* compact, and three received states, so that the bound is met.
CONSTANTS
    Scripts <- OrdinaryScripts
    MAX_RETAINED_OPERATIONS = 5
    MAX_RETAINED_HOST_BYTES = 2
    MAXIMUM_RECEIVED_STATES = 3
SPECIFICATION FairSpec
INVARIANTS
    TerminalShowsLatest
    HistoriesReplay
    KnownStateRetained
PROPERTIES
    ControlsOnceInOrder
    EventuallyShown
