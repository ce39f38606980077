SPECIFICATION FairSpec
CONSTANTS
    Machines = {"a", "b", "c"}
    Texts = {t, u}
    Images = {i}
    Nothing = nothing
    Partners <- Chain
    Calm = TRUE
    InOrder = FALSE
    WriteFails = TRUE
    MaxCopies = 3
    MaxToggles = 1
CHECK_DEADLOCK FALSE
INVARIANTS TypeOK NoEcho LastCopySpreads
PROPERTY Settles
