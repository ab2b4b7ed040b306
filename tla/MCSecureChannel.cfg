\* Five counters per direction, so that both ends run out of them, and a window
\* of three, so that packets fall out of it.
CONSTANTS
    DIRECTION_BIT = 5
    REPLAY_WINDOW_BITS = 3
SPECIFICATION Spec
INVARIANTS
    TypeOK
    NonceNeverReused
    DeliveredAtMostOnce
    ReorderedStillAccepted
CHECK_DEADLOCK FALSE
