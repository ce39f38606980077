SPECIFICATION Spec
CONSTANTS
    Routes <- Addresses
    NoRoute = none
    MaxClicks = 0
    MaxMoves = 1
    MaxTelling = 2
    Ordered = FALSE
    Alone = TRUE
    DiskFails = FALSE
CHECK_DEADLOCK FALSE
INVARIANT QuietWindow
