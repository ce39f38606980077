SPECIFICATION Spec
CONSTANTS
    Routes <- Addresses
    NoRoute = none
    MaxClicks = 1
    MaxMoves = 1
    MaxTelling = 2
    Ordered = TRUE
    Alone = FALSE
    DiskFails = FALSE
CHECK_DEADLOCK FALSE
INVARIANT ForgottenStaysGone
