SPECIFICATION FairSpec
CONSTANTS
    Routes <- Addresses
    NoRoute = none
    MaxClicks = 1
    MaxMoves = 1
    MaxTelling = 2
    Ordered = TRUE
    Alone = TRUE
    DiskFails = FALSE
CHECK_DEADLOCK FALSE
INVARIANTS HelloRouteHolds QuietWindow ForgottenStaysGone
PROPERTIES Followed
