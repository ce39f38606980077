\* A handler outlives the request it serves.
SPECIFICATION Spec
CONSTANTS
    photo = photo
    notes = notes
    memo = memo
    NFiles = 1
    Size <- Three
    Paths = {photo, notes, memo}
    PathOf <- Alone
    MaxAttempts = 3
    Overlaps = TRUE
    ProgressLost = FALSE
    DiskFails = FALSE
CHECK_DEADLOCK FALSE
PROPERTY VerifiedIsWhole
