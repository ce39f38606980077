\* Two files of the same name in one send.
SPECIFICATION Spec
CONSTANTS
    photo = photo
    notes = notes
    memo = memo
    NFiles = 2
    Size <- OneAndOne
    Paths = {photo, notes, memo}
    PathOf <- SameName
    MaxAttempts = 3
    Overlaps = FALSE
    ProgressLost = FALSE
    DiskFails = FALSE
CHECK_DEADLOCK FALSE
INVARIANT SavedIsWhole
