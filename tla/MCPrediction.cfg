\* Inserting and overwriting predictions anywhere on the screen, of characters of any
\* width, with local notices and suspensions.
CONSTANTS
    Display = "Adaptive"
    Modes = {FALSE, TRUE}
    MAXIMUM_PENDING_PREDICTIONS = 3
    Rows = 1
    Columns = 4
    MaxFrame = 3
    MaxOutputs = 1
SPECIFICATION Spec
INVARIANTS
    TypeOK
    RollbackIsExact
    MarginRespected
    AcknowledgementsAgree
PROPERTY
    AcknowledgedCellsStay
